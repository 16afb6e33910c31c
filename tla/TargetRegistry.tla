--------------------------- MODULE TargetRegistry ---------------------------
(***************************************************************************)
(* The admin targets of the proxy and the snapshots its replicas serve.    *)
(*                                                                         *)
(* Every replica shares one database. An administrator edits a target      *)
(* through pages served by one replica (admin.go); the edit is one         *)
(* transaction (store.go) that also bumps targets_version; each replica    *)
(* rebuilds an immutable snapshot when it sees the version move            *)
(* (registry.go). A thread is a goroutine: a poller, or a handler, which   *)
(* posts admin forms and starts rebuilds.                                  *)
(***************************************************************************)
EXTENDS Stamps, FiniteSets

CONSTANTS
    Thread,        \* goroutines of all replicas
    Poller,        \* the threads running Poll
    Home,          \* the replica each thread belongs to
    NoValue, Nobody,
    MaxVersion,    \* bound: committed edits
    MaxFaults      \* bound: failed rebuilds and restarts

ASSUME ThreadsAssumption ==
    /\ Poller \subseteq Thread
    /\ Home \in [Thread -> Replica]
    /\ Nobody \notin Thread
    /\ IsFiniteSet(Thread)
    /\ MaxVersion \in Nat
    /\ MaxFaults \in Nat

VARIABLES
    (* the database *)
    rows,       \* table targets
    version,    \* table targets_version
    locked,     \* holder of each name's row lock (FOR UPDATE, INSERT, DELETE)
    fresh,      \* the next value gen_random_uuid draws
    history,    \* ghost: the rows of every version so far
    (* the replicas *)
    deployed,   \* the configuration each replica runs with
    snap,       \* registry.cur
    building,   \* holder of registry.buildMu
    (* the threads *)
    pc,         \* where each thread is
    page,       \* the admin form a thread's administrator is looking at
    draft,      \* the definition posted with it
    cur,        \* the row the edit's transaction read under its lock
    view,       \* what a rebuild read from the database
    faults

dbVars      == <<rows, version, locked, fresh, history>>
replicaVars == <<deployed, snap, building>>
formVars    == <<page, draft, cur>>
vars        == <<dbVars, replicaVars, pc, formVars, view, faults>>

-----------------------------------------------------------------------------
(* Rows and the type invariant *)

\* A row of the targets table. sealed is the URL its static value was entered
\* for; gen is the generation, id the row_id.
Row == [id : Nat, gen : Nat, rev : Nat, def : Def, access : Access, sealed : Url \cup {NoValue}]

Rows == [Name -> Row \cup {NoRow}]

\* No row is told from any row, and from what the rest of the proxy sees of one.
ASSUME NoRowAssumption == NoRow \notin Row \cup [gen : Nat, def : Def, access : Access]

PageKinds  == {"new", "edit", "confirm", "remove"}
Page       == [kind : PageKinds, name : Name, seen : Row \cup {NoRow}]
Draft      == [def : Def, access : Access, supplied : BOOLEAN]
View       == [version : Nat, rows : Rows]
EditPcs    == {"page", "apply", "locked"}
RebuildPcs == {"check", "load", "publish"}

TypeOK ==
    /\ rows \in Rows
    /\ version \in Nat
    /\ locked \in [Name -> Thread \cup {Nobody}]
    /\ fresh \in Nat
    /\ history \in [0..version -> Rows]
    /\ deployed \in [Replica -> Deployment]
    /\ snap \in [Replica -> Snapshots \cup {NoSnapshot}]
    /\ building \in [Replica -> Thread \cup {Nobody}]
    /\ pc \in [Thread -> {"idle", "saved"} \cup EditPcs \cup RebuildPcs]
    /\ page \in [Thread -> Page \cup {NoValue}]
    /\ draft \in [Thread -> Draft \cup {NoValue}]
    /\ cur \in [Thread -> Row \cup {NoRow}]
    /\ view \in [Thread -> View \cup {NoValue}]
    /\ faults \in Nat

Init ==
    /\ rows = [n \in Name |-> NoRow]
    /\ version = 0
    /\ locked = [n \in Name |-> Nobody]
    /\ fresh = 1
    /\ history = [v \in {0} |-> rows]
    /\ deployed \in [Replica -> Deployment]
    /\ snap = [r \in Replica |-> NoSnapshot]
    /\ building = [r \in Replica |-> Nobody]
    /\ pc = [t \in Thread |-> "idle"]
    /\ page = [t \in Thread |-> NoValue]
    /\ draft = [t \in Thread |-> NoValue]
    /\ cur = [t \in Thread |-> NoRow]
    /\ view = [t \in Thread |-> NoValue]
    /\ faults = 0

Moves(t, from, to) == pc[t] = from /\ pc' = [pc EXCEPT ![t] = to]

SnapOf(t) == snap[Home[t]]

-----------------------------------------------------------------------------
(* Admin pages *)

\* Variant: a key of name and revision only.
ShownBy_NoRowId(p, row) == row # NoRow /\ row.rev = p.seen.rev

\* Variant: a key of name and row_id only.
ShownBy_NoRevision(p, row) == row # NoRow /\ row.id = p.seen.id

\* The row is the one the page's key names: same row_id, same revision.
ShownBy(p, row) == row # NoRow /\ row.id = p.seen.id /\ row.rev = p.seen.rev

\* What the typed definition would be under the row's own generation.
KeepsStamp(n, row, def) == AdminStamp(n, row.gen, def) = RowStamp(n, row)

\* handleAdminNew, handleAdminEdit and handleAdminRemoveForm render a page.
OpenPage(t, n) ==
    /\ t \notin Poller /\ SnapOf(t) # NoSnapshot
    /\ Moves(t, "idle", "page")
    /\ \/ page' = [page EXCEPT ![t] = [kind |-> "new", name |-> n, seen |-> NoRow]]
       \/ /\ rows[n] # NoRow
          /\ \E kind \in {"edit", "remove"} :
                page' = [page EXCEPT ![t] = [kind |-> kind, name |-> n, seen |-> rows[n]]]
    /\ UNCHANGED <<dbVars, replicaVars, draft, cur, view, faults>>

\* The administrator leaves the page.
ClosePage(t) ==
    /\ Moves(t, "page", "idle")
    /\ page' = [page EXCEPT ![t] = NoValue]
    /\ UNCHANGED <<dbVars, replicaVars, draft, cur, view, faults>>

\* A new target may not take a name the configuration holds on this replica.
PostNew(t, d) ==
    /\ Moves(t, "page", "apply")
    /\ page[t].kind = "new"
    /\ ~ConfigHolds(SnapOf(t), page[t].name)
    /\ IsStatic(d.def) => d.supplied
    /\ draft' = [draft EXCEPT ![t] = d]
    /\ UNCHANGED <<dbVars, replicaVars, page, cur, view, faults>>

\* An edit that keeps the stamp is applied; one that changes it is a
\* replacement, and is answered with the confirmation page instead.
PostEdit(t, d) ==
    LET n == page[t].name IN
    /\ pc[t] = "page" /\ page[t].kind = "edit"
    /\ ShownBy(page[t], rows[n])
    /\ IF KeepsStamp(n, rows[n], d.def)
       THEN /\ Moves(t, "page", "apply")
            /\ draft' = [draft EXCEPT ![t] = d]
            /\ UNCHANGED page
       ELSE /\ d.def \notin deployed[Home[t]].refuses
            /\ page' = [page EXCEPT ![t] = [@ EXCEPT !.kind = "confirm", !.seen = rows[n]]]
            /\ UNCHANGED <<pc, draft>>
    /\ UNCHANGED <<dbVars, replicaVars, cur, view, faults>>

\* handleAdminConfirm and handleAdminRemove, with the typed name right.
PostConfirm(t, d) ==
    /\ Moves(t, "page", "apply")
    /\ page[t].kind \in {"confirm", "remove"}
    /\ ShownBy(page[t], rows[page[t].name])
    /\ draft' = [draft EXCEPT ![t] = IF page[t].kind = "confirm" THEN d ELSE NoValue]
    /\ UNCHANGED <<dbVars, replicaVars, page, cur, view, faults>>

-----------------------------------------------------------------------------
(* CreateTarget, UpdateTarget and DeleteTarget *)

Matches(p, row) == IF p.kind = "new" THEN row = NoRow ELSE ShownBy(p, row)

\* The transaction's first write or SELECT ... FOR UPDATE takes the row lock.
\* The bound counts the edits that will commit.
Lock(t) ==
    LET n == page[t].name IN
    /\ Moves(t, "apply", "locked")
    /\ locked[n] = Nobody
    /\ Matches(page[t], rows[n])
    /\ version + Cardinality({u \in Thread : pc[u] = "locked"}) < MaxVersion
    /\ locked' = [locked EXCEPT ![n] = t]
    /\ cur' = [cur EXCEPT ![t] = rows[n]]
    /\ UNCHANGED <<rows, version, fresh, history, replicaVars, page, draft, view, faults>>

EndEdit(t, to) ==
    /\ pc' = [pc EXCEPT ![t] = to]
    /\ page' = [page EXCEPT ![t] = NoValue]
    /\ draft' = [draft EXCEPT ![t] = NoValue]
    /\ cur' = [cur EXCEPT ![t] = NoRow]

\* ErrTargetChanged, ErrTargetExists.
Refuse(t) ==
    /\ pc[t] = "apply"
    /\ locked[page[t].name] = Nobody
    /\ ~Matches(page[t], rows[page[t].name])
    /\ EndEdit(t, "idle")
    /\ UNCHANGED <<dbVars, replicaVars, view, faults>>

\* Any other error, or the request's context ending: the deferred rollback.
Rollback(t) ==
    /\ pc[t] \in {"apply", "locked"}
    /\ locked' = [n \in Name |-> IF locked[n] = t THEN Nobody ELSE locked[n]]
    /\ EndEdit(t, "idle")
    /\ UNCHANGED <<rows, version, fresh, history, replicaVars, view, faults>>

\* Variant: the bump of targets_version forgotten.
Install_NoBump(t, n, row) ==
    /\ rows' = [rows EXCEPT ![n] = row]
    /\ history' = [v \in 0..(version + 1) |-> IF v = version + 1 THEN rows' ELSE history[v]]
    /\ locked' = [locked EXCEPT ![n] = Nobody]
    /\ EndEdit(t, "saved")
    /\ UNCHANGED <<version, replicaVars, view, faults>>

\* The write, bumpTargetsVersion and the commit. The bump locks the single
\* targets_version row, so commits are ordered as their versions are.
Install(t, n, row) ==
    /\ rows' = [rows EXCEPT ![n] = row]
    /\ version' = version + 1
    /\ history' = [v \in 0..(version + 1) |-> IF v = version + 1 THEN rows' ELSE history[v]]
    /\ locked' = [locked EXCEPT ![n] = Nobody]
    /\ EndEdit(t, "saved")
    /\ UNCHANGED <<replicaVars, view, faults>>

SealedFor(d, kept) ==
    IF ~IsStatic(d.def) THEN NoValue
    ELSE IF d.supplied THEN UrlOf[d.def] ELSE kept

CreateTarget(t) ==
    LET d == draft[t] IN
    /\ pc[t] = "locked" /\ page[t].kind = "new"
    /\ d.def \notin deployed[Home[t]].refuses
    /\ Install(t, page[t].name, [id |-> fresh, gen |-> fresh, rev |-> 1, def |-> d.def,
                                 access |-> d.access, sealed |-> SealedFor(d, NoValue)])
    /\ fresh' = fresh + 1

\* Variant: the URL not compared.
StaticValueKept_AnyUrl(row, d) ==
    IsStatic(d.def) /\ ~d.supplied => IsStatic(row.def)

\* A kept static value must not move to another URL or mode.
StaticValueKept(row, d) ==
    IsStatic(d.def) /\ ~d.supplied =>
        IsStatic(row.def) /\ UrlOf[row.def] = UrlOf[d.def]

\* A change of stamp re-rolls the generation.
Generation(n, row, def) == IF KeepsStamp(n, row, def) THEN row.gen ELSE fresh

UpdateTarget(t) ==
    LET d == draft[t]  n == page[t].name IN
    /\ pc[t] = "locked" /\ page[t].kind \in {"edit", "confirm"}
    /\ StaticValueKept(cur[t], d)
    /\ d.def \notin deployed[Home[t]].refuses
    /\ ShownBy(page[t], rows[n])
    /\ Install(t, n, [id |-> cur[t].id, gen |-> Generation(n, cur[t], d.def), rev |-> page[t].seen.rev + 1,
                      def |-> d.def, access |-> d.access, sealed |-> SealedFor(d, cur[t].sealed)])
    /\ fresh' = IF KeepsStamp(n, cur[t], d.def) THEN fresh ELSE fresh + 1

DeleteTarget(t) ==
    /\ pc[t] = "locked" /\ page[t].kind = "remove"
    /\ Install(t, page[t].name, NoRow)
    /\ UNCHANGED fresh

-----------------------------------------------------------------------------
(* Rebuilds *)

\* Rebuild: after a save (rebuildNow), and at boot before anything is served.
StartRebuild(t) ==
    LET r == Home[t] IN
    /\ \/ pc[t] = "saved"
       \/ pc[t] = "idle" /\ t \in Poller /\ SnapOf(t) = NoSnapshot
    /\ building[r] = Nobody
    /\ building' = [building EXCEPT ![r] = t]
    /\ pc' = [pc EXCEPT ![t] = "load"]
    /\ UNCHANGED <<dbVars, deployed, snap, formVars, view, faults>>

\* rebuildIfBehind, from Poll, CatchUp or RequestRebuild.
StartIfBehind(t) ==
    LET r == Home[t] IN
    /\ SnapOf(t) # NoSnapshot
    /\ building[r] = Nobody
    /\ building' = [building EXCEPT ![r] = t]
    /\ Moves(t, "idle", "check")
    /\ UNCHANGED <<dbVars, deployed, snap, formVars, view, faults>>

EndRebuild(t) ==
    /\ building' = [building EXCEPT ![Home[t]] = Nobody]
    /\ pc' = [pc EXCEPT ![t] = "idle"]
    /\ view' = [view EXCEPT ![t] = NoValue]

CheckVersion(t) ==
    /\ pc[t] = "check"
    /\ IF version = SnapOf(t).version
       THEN EndRebuild(t)
       ELSE /\ pc' = [pc EXCEPT ![t] = "load"]
            /\ UNCHANGED <<building, view>>
    /\ UNCHANGED <<dbVars, deployed, snap, formVars, faults>>

\* LoadAdminTargets: rows and version from one REPEATABLE READ transaction.
LoadAdminTargets(t) ==
    /\ Moves(t, "load", "publish")
    /\ view' = [view EXCEPT ![t] = [version |-> version, rows |-> rows]]
    /\ UNCHANGED <<dbVars, replicaVars, formVars, faults>>

\* Variant: the rows read after the version, outside its transaction.
Publish_LateRows(t) ==
    LET r == Home[t] IN
    /\ pc[t] = "publish"
    /\ snap' = [snap EXCEPT ![r] = Snapshot(deployed[r], view[t].version, rows)]
    /\ EndRebuild(t)
    /\ UNCHANGED <<dbVars, deployed, formVars, faults>>

\* The rest of rebuildLocked: merge, newSnapshot and the atomic store.
Publish(t) ==
    LET r == Home[t] IN
    /\ pc[t] = "publish"
    /\ snap' = [snap EXCEPT ![r] = Snapshot(deployed[r], view[t].version, view[t].rows)]
    /\ EndRebuild(t)
    /\ UNCHANGED <<dbVars, deployed, formVars, faults>>

\* Variant: the error return leaves buildMu locked.
RebuildFails_KeepsLock(t) ==
    /\ pc[t] \in RebuildPcs
    /\ faults < MaxFaults
    /\ faults' = faults + 1
    /\ pc' = [pc EXCEPT ![t] = "idle"]
    /\ UNCHANGED <<dbVars, replicaVars, formVars, view>>

\* A database error or a timeout keeps the current snapshot.
RebuildFails(t) ==
    /\ pc[t] \in RebuildPcs
    /\ faults < MaxFaults
    /\ faults' = faults + 1
    /\ EndRebuild(t)
    /\ UNCHANGED <<dbVars, deployed, snap, formVars>>

\* The process ends, its open transactions roll back, and it is started again,
\* possibly with another configuration (a rolling deploy).
Restart(r, d) ==
    LET Lost(t) == Home[t] = r IN
    /\ faults < MaxFaults
    /\ faults' = faults + 1
    /\ deployed' = [deployed EXCEPT ![r] = d]
    /\ snap' = [snap EXCEPT ![r] = NoSnapshot]
    /\ building' = [building EXCEPT ![r] = Nobody]
    /\ locked' = [n \in Name |-> IF locked[n] # Nobody /\ Lost(locked[n]) THEN Nobody ELSE locked[n]]
    /\ pc' = [t \in Thread |-> IF Lost(t) THEN "idle" ELSE pc[t]]
    /\ page' = [t \in Thread |-> IF Lost(t) THEN NoValue ELSE page[t]]
    /\ draft' = [t \in Thread |-> IF Lost(t) THEN NoValue ELSE draft[t]]
    /\ cur' = [t \in Thread |-> IF Lost(t) THEN NoRow ELSE cur[t]]
    /\ view' = [t \in Thread |-> IF Lost(t) THEN NoValue ELSE view[t]]
    /\ UNCHANGED <<rows, version, fresh, history>>

-----------------------------------------------------------------------------
Forms(t) ==
    \/ \E n \in Name : OpenPage(t, n)
    \/ ClosePage(t)
    \/ \E d \in Draft : PostNew(t, d) \/ PostEdit(t, d) \/ PostConfirm(t, d)

Edit(t) ==
    Lock(t) \/ Refuse(t) \/ Rollback(t) \/ CreateTarget(t) \/ UpdateTarget(t) \/ DeleteTarget(t)

Rebuild(t) ==
    StartRebuild(t) \/ StartIfBehind(t) \/ CheckVersion(t) \/ LoadAdminTargets(t) \/ Publish(t)

Next ==
    \/ \E t \in Thread : Forms(t) \/ Edit(t) \/ Rebuild(t) \/ RebuildFails(t)
    \/ \E r \in Replica, d \in Deployment : Restart(r, d)

Spec == Init /\ [][Next]_vars

\* A thread holding buildMu runs on; sync.Mutex serves waiters in turn; the
\* poller's ticker keeps firing. Nothing obliges an administrator to act.
Fairness ==
    /\ \A t \in Thread : WF_vars(CheckVersion(t) \/ LoadAdminTargets(t) \/ Publish(t))
    /\ \A t \in Poller : SF_vars(StartIfBehind(t)) /\ SF_vars(StartRebuild(t))

FairSpec == Spec /\ Fairness

-----------------------------------------------------------------------------
(* Properties *)

\* What the rest of the proxy sees of a row.
Seen(row) == IF row = NoRow THEN NoRow ELSE [gen |-> row.gen, def |-> row.def, access |-> row.access]

SeenRows    == [n \in Name |-> Seen(rows[n])]
SeenHistory == [v \in DOMAIN history |-> [n \in Name |-> Seen(history[v][n])]]

\* The abstract registry: a page, a lock, a version check and a read are
\* stutters; a commit is one change; a publish is one Serve.
Targets == INSTANCE ServedTargets WITH rows <- SeenRows, history <- SeenHistory

\* The pages, transactions, locks and rebuilds implement ServedTargets: one
\* change of the table at a time, stamps that follow its rule, and snapshots
\* that are each exactly some version of the table and never go back.
ImplementsServedTargets == Targets!Spec

\* A change is applied over exactly the row its administrator was shown, also
\* when the name was removed and added again behind the page (TargetKey).
NoLostUpdate ==
    \A t \in Thread : pc[t] = "locked" /\ page[t].kind # "new" => rows[page[t].name] = page[t].seen

\* A sealed static value is only ever kept with the URL it was entered for
\* (ErrStaticValueRequired).
StaticValueStaysHome ==
    \A n \in Name : rows[n] # NoRow =>
        rows[n].sealed = IF IsStatic(rows[n].def) THEN UrlOf[rows[n].def] ELSE NoValue

\* Whatever else happens between the pages and the transaction, a target's
\* stamp is replaced only by an edit that went through the confirmation page.
ReplacementIsConfirmed ==
    [][\A n \in Name : rows[n] # NoRow /\ rows'[n] # NoRow /\ RowStamp(n, rows[n]) # RowStamp(n, rows'[n]) =>
          \E t \in Thread : pc[t] = "locked" /\ page[t].kind = "confirm" /\ page[t].name = n]_vars

\* Once edits stop and faults end, every replica serves the current version.
Converges == \A r \in Replica : <>[](snap[r] # NoSnapshot /\ snap[r].version = version)
=============================================================================
