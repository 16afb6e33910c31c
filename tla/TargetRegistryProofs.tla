------------------------ MODULE TargetRegistryProofs ------------------------
(***************************************************************************)
(* The admin pages, their transactions and the rebuilds, for any number of *)
(* threads, replicas, names and edits: what an edit is applied to, where a *)
(* sealed value stays, which edits replace a stamp; and that all of it     *)
(* implements ServedTargets.                                               *)
(*                                                                         *)
(* The argument: row_id and revision together name one state of one row    *)
(* (KeysNameRows), a transaction holds its row's lock from reading it to   *)
(* writing it (EditsHold), and a rebuild holds buildMu from its read to    *)
(* its publication (RebuildsHold, ViewsAreVersions).                       *)
(***************************************************************************)
EXTENDS TargetRegistry, TLAPS, FiniteSetTheorems

Editing == {t \in Thread : pc[t] = "locked"}

LastVersionIsRows == history[version] = rows

\* Generations and row ids were drawn before fresh.
RowsAreDrawn == \A n \in Name : rows[n] # NoRow => rows[n].gen < fresh /\ rows[n].id < fresh

\* A page's row_id and revision name what it was rendered from: a row with that
\* id has not been at that revision with anything else in it.
KeyNames(p) ==
    /\ p \in Page
    /\ p.kind # "new" =>
        /\ p.seen \in Row /\ p.seen.id < fresh
        /\ rows[p.name] # NoRow /\ rows[p.name].id = p.seen.id =>
            /\ p.seen.rev <= rows[p.name].rev
            /\ p.seen.rev = rows[p.name].rev => p.seen = rows[p.name]

KeysNameRows == \A t \in Thread : pc[t] \in EditPcs => KeyNames(page[t])

\* What has been posted: a definition unless it is a removal; with a static
\* value if it is new and static; the same definition if it is a plain edit.
Fits(p, d) ==
    /\ p.kind # "remove" => d \in Draft
    /\ p.kind = "new" /\ IsStatic(d.def) => d.supplied
    /\ p.kind = "edit" => d.def = p.seen.def

DraftsAreChecked == \A t \in Thread : pc[t] \in {"apply", "locked"} => Fits(page[t], draft[t])

\* An edit under its lock has read the row as it is, and as its page shows it.
EditsHold ==
    \A t \in Thread : pc[t] = "locked" =>
        /\ locked[page[t].name] = t
        /\ cur[t] = rows[page[t].name]
        /\ cur[t] = IF page[t].kind = "new" THEN NoRow ELSE page[t].seen

EditsHaveRoom == version + Cardinality(Editing) <= MaxVersion

RebuildsHold == \A t \in Thread : pc[t] \in RebuildPcs => building[Home[t]] = t

\* What a rebuild is about to publish is one version, no older than the one served.
ViewsAreVersions ==
    \A t \in Thread : pc[t] = "publish" =>
        /\ view[t] \in View /\ view[t].version <= version
        /\ history[view[t].version] = view[t].rows
        /\ SnapOf(t) # NoSnapshot => SnapOf(t).version <= view[t].version

SnapshotsAreBehind == \A r \in Replica : snap[r] # NoSnapshot => snap[r].version <= version

IInv ==
    /\ TypeOK
    /\ LastVersionIsRows
    /\ RowsAreDrawn
    /\ KeysNameRows
    /\ DraftsAreChecked
    /\ EditsHold
    /\ EditsHaveRoom
    /\ RebuildsHold
    /\ ViewsAreVersions
    /\ SnapshotsAreBehind
    /\ StaticValueStaysHome

USE DEF EditPcs, RebuildPcs

-----------------------------------------------------------------------------
(* Operators *)

\* A row and a typed definition have one stamp just when the definition is the
\* row's own (Target.Stamp).
LEMMA KeepsStampIsSameDef ==
    ASSUME NEW n \in Name, NEW row \in Row, NEW def \in Def
    PROVE  KeepsStamp(n, row, def) <=> def = row.def
BY DEF KeepsStamp, AdminStamp, RowStamp

\* What a rebuild makes of rows it has read is a snapshot (merge, newSnapshot).
LEMMA SnapshotType ==
    ASSUME NEW d \in Deployment, NEW v \in Nat, NEW rs \in Rows
    PROVE  Snapshot(d, v, rs) \in Snapshots
<1>1. d.targets \in [Name -> ConfigTarget \cup {NoTarget}]
    BY ConstantsAssumption
<1>2. ASSUME NEW n \in Name PROVE Serves(d, n, rs[n]) \in Entry \cup {NoEntry}
  <2>1. CASE rs[n] # NoRow
    <3>1. rs[n] \in Row
        BY <2>1 DEF Rows
    <3>2. RowStamp(n, rs[n]) \in Stamp /\ rs[n].access \in Access
        BY <3>1 DEF Row, RowStamp, AdminStamp, Stamp
    <3> QED BY <2>1, <3>2 DEF Serves, Entry
  <2>2. CASE rs[n] = NoRow
    <3>1. d.targets[n] # NoTarget =>
              ConfigStamp(n, d.targets[n].def) \in Stamp /\ d.targets[n].access \in Access
        BY <1>1 DEF ConfigTarget, ConfigStamp, Stamp
    <3> QED BY <2>2, <3>1 DEF Serves, Entry
  <2> QED BY <2>1, <2>2
<1>3. [n \in Name |-> Serves(d, n, rs[n])] \in [Name -> Entry \cup {NoEntry}]
    BY <1>2
<1> QED BY <1>3 DEF Snapshot, Snapshots

\* As long as no further edit holds its row and the version stands, there is room.
LEMMA RoomStays ==
    ASSUME IInv, UNCHANGED version, Editing' \subseteq Editing PROVE EditsHaveRoom'
<1>1. IsFiniteSet(Editing)
    BY ThreadsAssumption, FS_Subset, Editing \subseteq Thread DEF Editing
<1>2. IsFiniteSet(Editing') /\ Cardinality(Editing') <= Cardinality(Editing)
    BY <1>1, FS_Subset
<1>3. Cardinality(Editing) \in Nat /\ Cardinality(Editing') \in Nat
    BY <1>1, <1>2, FS_CardinalityType
<1> QED BY <1>2, <1>3, ThreadsAssumption DEF IInv, TypeOK, EditsHaveRoom

-----------------------------------------------------------------------------
(* The first state *)

LEMMA InitInvariant == Init => IInv
<1> SUFFICES ASSUME Init PROVE IInv
    OBVIOUS
<1> USE ThreadsAssumption DEF Init
<1>1. TypeOK /\ LastVersionIsRows
  <2>1. 0..0 = {0} /\ rows \in Rows
      BY DEF Rows
  <2> QED BY <2>1 DEF TypeOK, LastVersionIsRows
<1>2. RowsAreDrawn /\ KeysNameRows /\ DraftsAreChecked /\ EditsHold /\ RebuildsHold /\ ViewsAreVersions
    BY DEF RowsAreDrawn, KeysNameRows, DraftsAreChecked, EditsHold, RebuildsHold, ViewsAreVersions
<1>3. EditsHaveRoom
  <2>1. Editing = {}
      BY DEF Editing
  <2> QED BY <2>1, FS_EmptySet DEF EditsHaveRoom
<1>4. SnapshotsAreBehind /\ StaticValueStaysHome
    BY DEF SnapshotsAreBehind, StaticValueStaysHome
<1> QED BY <1>1, <1>2, <1>3, <1>4 DEF IInv

-----------------------------------------------------------------------------
(* Pages *)

\* A step in the pages: the thread's page and draft change, and what it posts
\* fits the page it posts from.
Turns(t, to, p, d) ==
    /\ pc[t] \in {"idle", "page"}
    /\ pc' = [pc EXCEPT ![t] = to]
    /\ page' = [page EXCEPT ![t] = p]
    /\ draft' = [draft EXCEPT ![t] = d]
    /\ UNCHANGED <<dbVars, replicaVars, cur, view, faults>>

LEMMA TurnsKeep ==
    ASSUME IInv, NEW t \in Thread, NEW to \in {"idle", "page", "apply"},
           NEW p \in Page \cup {NoValue}, NEW d \in Draft \cup {NoValue}, Turns(t, to, p, d),
           to # "idle" => KeyNames(p), to = "apply" => Fits(p, d)
    PROVE  IInv'
<1> USE ThreadsAssumption DEF IInv, Turns, dbVars, replicaVars
<1>1. TypeOK'
    BY DEF TypeOK
<1>2. LastVersionIsRows' /\ RowsAreDrawn' /\ SnapshotsAreBehind' /\ StaticValueStaysHome'
    BY DEF LastVersionIsRows, RowsAreDrawn, SnapshotsAreBehind, StaticValueStaysHome
<1>3. KeysNameRows'
    BY DEF TypeOK, KeysNameRows, KeyNames
<1>4. DraftsAreChecked'
    BY DEF TypeOK, DraftsAreChecked
<1>5. EditsHold'
    BY DEF TypeOK, EditsHold
<1>6. EditsHaveRoom'
    BY RoomStays DEF TypeOK, Editing
<1>7. RebuildsHold' /\ ViewsAreVersions'
    BY DEF TypeOK, RebuildsHold, ViewsAreVersions, SnapOf
<1> QED BY <1>1, <1>2, <1>3, <1>4, <1>5, <1>6, <1>7

\* The row a page's key names is the row it shows.
LEMMA KeyNamesRow ==
    ASSUME TypeOK, NEW p \in Page, KeyNames(p), p.kind # "new", ShownBy(p, rows[p.name])
    PROVE  rows[p.name] = p.seen /\ p.seen \in Row
BY DEF KeyNames, ShownBy

LEMMA FormsKeep == ASSUME IInv, NEW t \in Thread, Forms(t) PROVE IInv'
<1> USE DEF Moves
<1>0. TypeOK /\ page[t] \in Page \cup {NoValue} /\ draft[t] \in Draft \cup {NoValue}
    BY DEF IInv, TypeOK
<1>1. pc[t] = "page" => page[t] \in Page /\ page[t].name \in Name /\ KeyNames(page[t])
    BY DEF IInv, KeysNameRows, KeyNames, Page
<1>2. ASSUME NEW n \in Name, OpenPage(t, n) PROVE IInv'
  <2>1. PICK p \in Page : /\ KeyNames(p) /\ page' = [page EXCEPT ![t] = p]
    <3>1. CASE page' = [page EXCEPT ![t] = [kind |-> "new", name |-> n, seen |-> NoRow]]
        BY <3>1 DEF Page, PageKinds, KeyNames
    <3>2. ASSUME rows[n] # NoRow, NEW kind \in {"edit", "remove"},
                 page' = [page EXCEPT ![t] = [kind |-> kind, name |-> n, seen |-> rows[n]]]
          PROVE  \E p \in Page : KeyNames(p) /\ page' = [page EXCEPT ![t] = p]
      <4>1. rows[n] \in Row /\ rows[n].rev \in Nat /\ rows[n].id < fresh
          BY <3>2 DEF IInv, TypeOK, Rows, Row, RowsAreDrawn
      <4> DEFINE q == [kind |-> kind, name |-> n, seen |-> rows[n]]
      <4>2. q \in Page
          BY <4>1 DEF Page, PageKinds
      <4>3. KeyNames(q)
          BY <4>1, <4>2 DEF KeyNames, Row
      <4> QED BY <3>2, <4>2, <4>3
    <3> QED BY <1>2, <3>1, <3>2 DEF OpenPage
  <2>2. Turns(t, "page", p, draft[t])
      BY <1>0, <1>2, <2>1 DEF OpenPage, Turns, TypeOK
  <2> QED BY <1>0, <2>1, <2>2, TurnsKeep
<1>3. CASE ClosePage(t)
  <2>1. Turns(t, "idle", NoValue, draft[t])
      BY <1>0, <1>3 DEF ClosePage, Turns, TypeOK
  <2> QED BY <1>0, <2>1, TurnsKeep
<1>4. ASSUME NEW d \in Draft, PostNew(t, d) PROVE IInv'
  <2>1. Turns(t, "apply", page[t], d) /\ Fits(page[t], d)
      BY <1>0, <1>4 DEF PostNew, Turns, TypeOK, Fits
  <2> QED BY <1>0, <1>1, <1>4, <2>1, TurnsKeep DEF PostNew
<1>5. ASSUME NEW d \in Draft, PostEdit(t, d) PROVE IInv'
  <2>1. rows[page[t].name] = page[t].seen /\ page[t].seen \in Row /\ d.def \in Def
      BY <1>0, <1>1, <1>5, KeyNamesRow DEF PostEdit, Draft
  <2>2. CASE KeepsStamp(page[t].name, page[t].seen, d.def)
    <3>1. Fits(page[t], d)
        BY <1>1, <1>5, <2>1, <2>2, KeepsStampIsSameDef DEF PostEdit, Fits
    <3>2. Turns(t, "apply", page[t], d)
        BY <1>0, <1>5, <2>1, <2>2 DEF PostEdit, Turns, TypeOK
    <3> QED BY <1>0, <1>1, <1>5, <3>1, <3>2, TurnsKeep DEF PostEdit
  <2>3. CASE ~KeepsStamp(page[t].name, page[t].seen, d.def)
    <3> DEFINE p == [page[t] EXCEPT !.kind = "confirm", !.seen = rows[page[t].name]]
    <3>1. p \in Page /\ KeyNames(p)
        BY <1>1, <1>5, <2>1 DEF PostEdit, Page, PageKinds, KeyNames
    <3>2. Turns(t, "page", p, draft[t])
        BY <1>0, <1>5, <2>1, <2>3 DEF PostEdit, Turns, TypeOK
    <3> QED BY <1>0, <3>1, <3>2, TurnsKeep
  <2> QED BY <2>2, <2>3
<1>6. ASSUME NEW d \in Draft, PostConfirm(t, d) PROVE IInv'
  <2>1. Turns(t, "apply", page[t], IF page[t].kind = "confirm" THEN d ELSE NoValue)
      BY <1>0, <1>6 DEF PostConfirm, Turns, TypeOK
  <2>2. Fits(page[t], IF page[t].kind = "confirm" THEN d ELSE NoValue)
      BY <1>6 DEF PostConfirm, Fits
  <2> QED BY <1>0, <1>1, <1>6, <2>1, <2>2, TurnsKeep DEF PostConfirm
<1> QED BY <1>2, <1>3, <1>4, <1>5, <1>6 DEF Forms

-----------------------------------------------------------------------------
(* Transactions *)

\* The row read under the lock is the row its administrator was shown.
LEMMA LockKeeps == ASSUME IInv, NEW t \in Thread, Lock(t) PROVE IInv'
<1> USE ThreadsAssumption DEF IInv, Lock, Moves, replicaVars
<1>0. /\ page[t] \in Page /\ page[t].name \in Name /\ rows[page[t].name] \in Row \cup {NoRow}
      /\ rows[page[t].name] = IF page[t].kind = "new" THEN NoRow ELSE page[t].seen
  <2>1. page[t] \in Page /\ page[t].name \in Name /\ KeyNames(page[t])
      BY DEF KeysNameRows, KeyNames, Page
  <2> QED BY <2>1, KeyNamesRow DEF TypeOK, Rows, Matches
<1>1. TypeOK'
    BY <1>0 DEF TypeOK
<1>2. LastVersionIsRows' /\ RowsAreDrawn' /\ SnapshotsAreBehind' /\ StaticValueStaysHome'
    BY DEF LastVersionIsRows, RowsAreDrawn, SnapshotsAreBehind, StaticValueStaysHome
<1>3. KeysNameRows'
    BY DEF TypeOK, KeysNameRows, KeyNames
<1>4. DraftsAreChecked'
    BY DEF TypeOK, DraftsAreChecked
<1>5. EditsHold'
    BY <1>0 DEF TypeOK, EditsHold
<1>6. EditsHaveRoom'
  <2>1. IsFiniteSet(Editing) /\ Cardinality(Editing) \in Nat
      BY FS_Subset, FS_CardinalityType, Editing \subseteq Thread DEF Editing
  <2>2. Editing' = Editing \cup {t} /\ t \notin Editing
      BY DEF TypeOK, Editing
  <2>3. Cardinality(Editing') = Cardinality(Editing) + 1
      BY <2>1, <2>2, FS_AddElement
  <2>4. version + Cardinality(Editing) < MaxVersion
      BY DEF Editing
  <2> QED BY <2>1, <2>3, <2>4 DEF TypeOK, EditsHaveRoom
<1>7. RebuildsHold' /\ ViewsAreVersions'
    BY DEF TypeOK, RebuildsHold, ViewsAreVersions, SnapOf
<1> QED BY <1>1, <1>2, <1>3, <1>4, <1>5, <1>6, <1>7

\* What ends an edit leaves the thread's own state well typed.
LEMMA EndEditType ==
    ASSUME TypeOK, NEW t \in Thread, NEW to \in {"idle", "saved"}, EndEdit(t, to),
           UNCHANGED <<replicaVars, view, faults>>,
           rows' \in Rows, version' \in Nat, history' \in [0..version' -> Rows], fresh' \in Nat,
           locked' \in [Name -> Thread \cup {Nobody}]
    PROVE  TypeOK'
<1>1. /\ pc' \in [Thread -> {"idle", "saved"} \cup EditPcs \cup RebuildPcs]
      /\ page' \in [Thread -> Page \cup {NoValue}]
      /\ draft' \in [Thread -> Draft \cup {NoValue}]
      /\ cur' \in [Thread -> Row \cup {NoRow}]
    BY DEF TypeOK, EndEdit
<1> QED BY <1>1 DEF TypeOK, replicaVars

\* A refusal or rollback changes no row; at most the thread's lock goes.
LEMMA RollbackKeeps == ASSUME IInv, NEW t \in Thread, Refuse(t) \/ Rollback(t) PROVE IInv'
<1> USE ThreadsAssumption DEF IInv, Refuse, Rollback, EndEdit, dbVars, replicaVars
<1>1. TypeOK'
  <2>1. locked' \in [Name -> Thread \cup {Nobody}]
      BY DEF TypeOK
  <2>2. EndEdit(t, "idle") /\ UNCHANGED <<rows, version, fresh, history, replicaVars, view, faults>>
      OBVIOUS
  <2> QED BY <2>1, <2>2, EndEditType DEF TypeOK
<1>2. LastVersionIsRows' /\ RowsAreDrawn' /\ SnapshotsAreBehind' /\ StaticValueStaysHome'
    BY DEF LastVersionIsRows, RowsAreDrawn, SnapshotsAreBehind, StaticValueStaysHome
<1>3. KeysNameRows'
    BY DEF TypeOK, KeysNameRows, KeyNames
<1>4. DraftsAreChecked'
    BY DEF TypeOK, DraftsAreChecked
<1>5. EditsHold'
    BY DEF TypeOK, EditsHold, KeysNameRows, KeyNames, Page
<1>6. EditsHaveRoom'
    BY RoomStays DEF TypeOK, Editing
<1>7. RebuildsHold' /\ ViewsAreVersions'
    BY DEF TypeOK, RebuildsHold, ViewsAreVersions, SnapOf
<1> QED BY <1>1, <1>2, <1>3, <1>4, <1>5, <1>6, <1>7

\* A commit keeps the invariant if what it writes was drawn, is either new or
\* one revision on from the row it replaces, and seals what its URL allows.
LEMMA InstallKeeps ==
    ASSUME IInv, NEW t \in Thread, pc[t] = "locked",
           NEW row \in Row \cup {NoRow}, Install(t, page[t].name, row),
           fresh' \in Nat, fresh <= fresh',
           row # NoRow =>
               /\ row.gen < fresh' /\ row.id < fresh'
               /\ row.sealed = IF IsStatic(row.def) THEN UrlOf[row.def] ELSE NoValue
               /\ \/ fresh <= row.id
                  \/ LET old == rows[page[t].name] IN
                     old # NoRow /\ row.id = old.id /\ row.rev = old.rev + 1
    PROVE  IInv'
<1> DEFINE n == page[t].name
<1> USE ThreadsAssumption, NoRowAssumption DEF IInv
<1>0. /\ n \in Name /\ locked[n] = t /\ KeyNames(page[t])
      /\ rows' = [rows EXCEPT ![n] = row] /\ rows' \in Rows
      /\ version \in Nat /\ version' = version + 1 /\ rows \in Rows
      /\ fresh \in Nat
    BY DEF EditsHold, KeysNameRows, KeyNames, Page, Install, TypeOK, Rows
<1>1. /\ history' \in [0..version' -> Rows]
      /\ history'[version'] = rows' /\ \A v \in 0..version : history'[v] = history[v]
  <2>1. history' = [v \in 0..(version + 1) |-> IF v = version + 1 THEN rows' ELSE history[v]]
      BY DEF Install
  <2> QED BY <1>0, <2>1 DEF TypeOK
<1>2. TypeOK'
  <2>1. locked' \in [Name -> Thread \cup {Nobody}] /\ version' \in Nat
      BY <1>0 DEF TypeOK, Install
  <2> QED BY <1>0, <1>1, <2>1, EndEditType DEF Install
<1>3. LastVersionIsRows'
    BY <1>1 DEF LastVersionIsRows
<1>4. RowsAreDrawn'
  <2>1. ASSUME NEW m \in Name, rows[m] # NoRow PROVE rows[m].gen \in Nat /\ rows[m].id \in Nat
      BY <1>0, <2>1 DEF Rows, Row
  <2>2. row # NoRow => row.gen \in Nat /\ row.id \in Nat
      BY DEF Row
  <2> QED BY <1>0, <2>1, <2>2 DEF RowsAreDrawn, Rows
<1>5. KeysNameRows'
  <2> SUFFICES ASSUME NEW u \in Thread, pc'[u] \in EditPcs PROVE KeyNames(page[u])'
      BY DEF KeysNameRows
  <2>1. u # t /\ page'[u] = page[u] /\ KeyNames(page[u])
      BY DEF TypeOK, Install, EndEdit, KeysNameRows
  <2>2. ASSUME page[u].kind # "new"
        PROVE  /\ page[u].seen.id \in Nat /\ page[u].seen.rev \in Nat /\ page[u].seen.id < fresh
               /\ page[u].name \in Name /\ page[u].seen \in Row
      BY <2>1, <2>2 DEF KeyNames, Row, Page
  <2>3. ASSUME page[u].kind # "new", page[u].name = n, row # NoRow, row.id = page[u].seen.id
        PROVE  page[u].seen.rev < row.rev
    <3>1. rows[n] # NoRow /\ row.id = rows[n].id /\ row.rev = rows[n].rev + 1
        BY <1>0, <2>2, <2>3
    <3>2. rows[n].rev \in Nat
        BY <1>0, <3>1 DEF Rows, Row
    <3> QED BY <2>1, <2>2, <2>3, <3>1, <3>2 DEF KeyNames
  <2>4. row # NoRow => row.rev \in Nat
      BY DEF Row
  <2>5. CASE page[u].kind = "new"
      BY <2>1, <2>5 DEF KeyNames
  <2>6. CASE page[u].kind # "new" /\ page[u].name = n
      BY <1>0, <2>1, <2>2, <2>3, <2>4, <2>6 DEF KeyNames, Rows
  <2>7. CASE page[u].kind # "new" /\ page[u].name # n
      BY <1>0, <2>1, <2>2, <2>7 DEF KeyNames, Rows
  <2> QED BY <2>5, <2>6, <2>7
<1>6. DraftsAreChecked'
    BY DEF TypeOK, Install, EndEdit, DraftsAreChecked
<1>7. EditsHold'
    BY <1>0 DEF TypeOK, Install, EndEdit, EditsHold, KeysNameRows, KeyNames, Page, Rows
<1>8. EditsHaveRoom'
  <2>1. IsFiniteSet(Editing) /\ Cardinality(Editing) \in Nat
      BY FS_Subset, FS_CardinalityType, Editing \subseteq Thread DEF Editing
  <2>2. Editing' = Editing \ {t} /\ t \in Editing
      BY DEF TypeOK, Install, EndEdit, Editing
  <2>3. Cardinality(Editing') = Cardinality(Editing) - 1
      BY <2>1, <2>2, FS_RemoveElement
  <2> QED BY <1>0, <2>1, <2>3 DEF EditsHaveRoom
<1>9. RebuildsHold'
    BY DEF TypeOK, Install, EndEdit, RebuildsHold, replicaVars
<1>10. ViewsAreVersions'
  <2> SUFFICES ASSUME NEW u \in Thread, pc'[u] = "publish"
               PROVE  /\ view[u] \in View /\ view[u].version <= version'
                      /\ history'[view[u].version] = view[u].rows
                      /\ SnapOf(u) # NoSnapshot => SnapOf(u).version <= view[u].version
      BY DEF Install, ViewsAreVersions, replicaVars, SnapOf
  <2>1. pc[u] = "publish"
      BY DEF TypeOK, Install, EndEdit
  <2>2. view[u].version \in 0..version
      BY <1>0, <2>1 DEF ViewsAreVersions, View
  <2> QED BY <1>0, <1>1, <2>1, <2>2 DEF ViewsAreVersions
<1>11. SnapshotsAreBehind'
  <2>1. ASSUME NEW r \in Replica, snap[r] # NoSnapshot PROVE snap[r].version \in Nat
      BY <2>1 DEF TypeOK, Snapshots
  <2> QED BY <1>0, <2>1 DEF Install, SnapshotsAreBehind, replicaVars
<1>12. StaticValueStaysHome'
    BY <1>0 DEF StaticValueStaysHome, Rows
<1> QED BY <1>2, <1>3, <1>4, <1>5, <1>6, <1>7, <1>8, <1>9, <1>10, <1>11, <1>12

\* What an edit under its lock writes over: the row its page shows, which is
\* the row as it is.
LEMMA UnderLock ==
    ASSUME IInv, NEW t \in Thread, pc[t] = "locked"
    PROVE  /\ page[t] \in Page /\ page[t].name \in Name
           /\ cur[t] = rows[page[t].name]
           /\ page[t].kind = "new" => rows[page[t].name] = NoRow
           /\ page[t].kind # "new" => rows[page[t].name] \in Row /\ rows[page[t].name] = page[t].seen
           /\ page[t].kind # "remove" => draft[t] \in Draft
           /\ Fits(page[t], draft[t])
<1>1. KeyNames(page[t]) /\ Fits(page[t], draft[t])
    BY DEF IInv, KeysNameRows, DraftsAreChecked
<1>2. cur[t] = rows[page[t].name] /\ cur[t] = IF page[t].kind = "new" THEN NoRow ELSE page[t].seen
    BY DEF IInv, EditsHold
<1> QED BY <1>1, <1>2 DEF KeyNames, Fits, Page

\* The row CreateTarget inserts.
Created(t) ==
    [id |-> fresh, gen |-> fresh, rev |-> 1, def |-> draft[t].def,
     access |-> draft[t].access, sealed |-> SealedFor(draft[t], NoValue)]

LEMMA CreateKeeps ==
    ASSUME IInv, NEW t \in Thread, CreateTarget(t)
    PROVE  IInv' /\ Created(t) \in Row
<1>1. /\ pc[t] = "locked" /\ page[t].kind = "new"
      /\ Install(t, page[t].name, Created(t)) /\ fresh' = fresh + 1
    BY DEF CreateTarget, Created
<1>2. draft[t] \in Draft /\ (IsStatic(draft[t].def) => draft[t].supplied) /\ fresh \in Nat
    BY <1>1, UnderLock DEF Fits, IInv, TypeOK
<1>3. /\ SealedFor(draft[t], NoValue) \in Url \cup {NoValue}
      /\ SealedFor(draft[t], NoValue) =
             IF IsStatic(draft[t].def) THEN UrlOf[draft[t].def] ELSE NoValue
    BY <1>2, ConstantsAssumption DEF SealedFor, Draft
<1>4. Created(t) \in Row
    BY <1>2, <1>3 DEF Created, Row, Draft
<1>5. /\ Created(t).gen < fresh' /\ Created(t).id < fresh' /\ fresh <= Created(t).id
      /\ Created(t).sealed = IF IsStatic(Created(t).def) THEN UrlOf[Created(t).def] ELSE NoValue
    BY <1>1, <1>2, <1>3 DEF Created
<1>6. fresh' \in Nat /\ fresh <= fresh'
    BY <1>1, <1>2
<1> QED BY <1>1, <1>4, <1>5, <1>6, InstallKeeps

\* The row UpdateTarget writes.
Updated(t) ==
    [id |-> cur[t].id, gen |-> Generation(page[t].name, cur[t], draft[t].def),
     rev |-> page[t].seen.rev + 1, def |-> draft[t].def, access |-> draft[t].access,
     sealed |-> SealedFor(draft[t], cur[t].sealed)]

LEMMA UpdateKeeps ==
    ASSUME IInv, NEW t \in Thread, UpdateTarget(t)
    PROVE  IInv' /\ Updated(t) \in Row
<1> DEFINE n == page[t].name
           old == rows[n]
<1>1. /\ pc[t] = "locked" /\ page[t].kind \in {"edit", "confirm"}
      /\ Install(t, n, Updated(t))
      /\ StaticValueKept(cur[t], draft[t])
      /\ fresh' = IF KeepsStamp(n, cur[t], draft[t].def) THEN fresh ELSE fresh + 1
    BY DEF UpdateTarget, Updated
<1>2. /\ n \in Name /\ cur[t] = old /\ old \in Row /\ old = page[t].seen
      /\ draft[t] \in Draft /\ fresh \in Nat
    BY <1>1, UnderLock DEF IInv, TypeOK
<1>3. old # NoRow /\ old.gen < fresh /\ old.id < fresh /\ old.rev \in Nat /\ old.id \in Nat /\ old.gen \in Nat
    BY <1>2, NoRowAssumption DEF IInv, RowsAreDrawn, Row
<1>4. old.sealed = IF IsStatic(old.def) THEN UrlOf[old.def] ELSE NoValue
    BY <1>2, <1>3 DEF IInv, StaticValueStaysHome
<1>5. /\ SealedFor(draft[t], cur[t].sealed) \in Url \cup {NoValue}
      /\ SealedFor(draft[t], cur[t].sealed) =
             IF IsStatic(draft[t].def) THEN UrlOf[draft[t].def] ELSE NoValue
    BY <1>1, <1>2, <1>4, ConstantsAssumption DEF SealedFor, StaticValueKept, Draft
<1>6. /\ Generation(n, cur[t], draft[t].def) \in Nat
      /\ Generation(n, cur[t], draft[t].def) < fresh'
      /\ fresh' \in Nat /\ fresh <= fresh'
    BY <1>1, <1>2, <1>3 DEF Generation
<1>7. Updated(t) \in Row
    BY <1>2, <1>3, <1>5, <1>6 DEF Updated, Row, Draft
<1>8. /\ Updated(t).gen < fresh' /\ Updated(t).id < fresh'
      /\ Updated(t).sealed = IF IsStatic(Updated(t).def) THEN UrlOf[Updated(t).def] ELSE NoValue
      /\ Updated(t).id = old.id /\ Updated(t).rev = old.rev + 1
    BY <1>2, <1>3, <1>5, <1>6 DEF Updated
<1> QED BY <1>1, <1>3, <1>6, <1>7, <1>8, InstallKeeps

LEMMA DeleteKeeps == ASSUME IInv, NEW t \in Thread, DeleteTarget(t) PROVE IInv'
<1>1. pc[t] = "locked" /\ Install(t, page[t].name, NoRow) /\ fresh' = fresh
    BY DEF DeleteTarget
<1>2. fresh \in Nat
    BY DEF IInv, TypeOK
<1> QED BY <1>1, <1>2, InstallKeeps

-----------------------------------------------------------------------------
(* Rebuilds *)

\* A step of a rebuild disturbs no page and no transaction.
LEMMA EditsUndisturbed ==
    ASSUME IInv, NEW t \in Thread, NEW to \in {"idle"} \cup RebuildPcs,
           pc' = [pc EXCEPT ![t] = to], UNCHANGED <<dbVars, formVars>>
    PROVE  /\ LastVersionIsRows' /\ RowsAreDrawn' /\ KeysNameRows' /\ DraftsAreChecked'
           /\ EditsHold' /\ EditsHaveRoom' /\ StaticValueStaysHome'
           /\ pc' \in [Thread -> {"idle", "saved"} \cup EditPcs \cup RebuildPcs]
<1> USE DEF IInv, dbVars, formVars
<1>0. pc' \in [Thread -> {"idle", "saved"} \cup EditPcs \cup RebuildPcs]
    BY DEF TypeOK
<1>1. LastVersionIsRows' /\ RowsAreDrawn' /\ StaticValueStaysHome'
    BY DEF LastVersionIsRows, RowsAreDrawn, StaticValueStaysHome
<1>2. KeysNameRows'
    BY DEF TypeOK, KeysNameRows, KeyNames
<1>3. DraftsAreChecked'
    BY DEF TypeOK, DraftsAreChecked
<1>4. EditsHold'
    BY DEF TypeOK, EditsHold
<1>5. EditsHaveRoom'
  <2>1. Editing' \subseteq Editing
      BY DEF TypeOK, Editing
  <2> QED BY <2>1, RoomStays
<1> QED BY <1>0, <1>1, <1>2, <1>3, <1>4, <1>5

\* A rebuild starts only while no other holds the replica's buildMu.
LEMMA StartKeeps ==
    ASSUME IInv, NEW t \in Thread, StartRebuild(t) \/ StartIfBehind(t) PROVE IInv'
<1>1. PICK to \in {"check", "load"} :
          /\ building[Home[t]] = Nobody /\ building' = [building EXCEPT ![Home[t]] = t]
          /\ pc' = [pc EXCEPT ![t] = to]
          /\ UNCHANGED <<dbVars, deployed, snap, formVars, view, faults>>
    BY DEF StartRebuild, StartIfBehind, Moves
<1> USE <1>1, ThreadsAssumption DEF IInv
<1>2. /\ LastVersionIsRows' /\ RowsAreDrawn' /\ KeysNameRows' /\ DraftsAreChecked'
      /\ EditsHold' /\ EditsHaveRoom' /\ StaticValueStaysHome'
      /\ pc' \in [Thread -> {"idle", "saved"} \cup EditPcs \cup RebuildPcs]
    BY EditsUndisturbed
<1>3. TypeOK'
    BY <1>2 DEF TypeOK, dbVars, formVars
<1>4. RebuildsHold'
    BY DEF TypeOK, RebuildsHold
<1>5. ViewsAreVersions' /\ SnapshotsAreBehind'
    BY DEF TypeOK, ViewsAreVersions, SnapshotsAreBehind, SnapOf, dbVars
<1> QED BY <1>2, <1>3, <1>4, <1>5

\* The holder of buildMu goes on to read, keeping it.
LEMMA LoadKeeps ==
    ASSUME IInv, NEW t \in Thread, pc[t] \in RebuildPcs, NEW to \in {"load", "publish"},
           pc' = [pc EXCEPT ![t] = to], UNCHANGED <<dbVars, replicaVars, formVars, faults>>,
           \/ to = "load" /\ view' = view
           \/ to = "publish" /\ view' = [view EXCEPT ![t] = [version |-> version, rows |-> rows]]
    PROVE  IInv'
<1> USE ThreadsAssumption DEF IInv
<1>1. /\ LastVersionIsRows' /\ RowsAreDrawn' /\ KeysNameRows' /\ DraftsAreChecked'
      /\ EditsHold' /\ EditsHaveRoom' /\ StaticValueStaysHome'
      /\ pc' \in [Thread -> {"idle", "saved"} \cup EditPcs \cup RebuildPcs]
    BY EditsUndisturbed
<1>2. TypeOK'
    BY <1>1 DEF TypeOK, View, dbVars, formVars, replicaVars
<1>3. RebuildsHold' /\ SnapshotsAreBehind'
    BY DEF TypeOK, RebuildsHold, SnapshotsAreBehind, dbVars, replicaVars
<1>4. ViewsAreVersions'
  <2> SUFFICES ASSUME NEW u \in Thread, pc'[u] = "publish"
               PROVE  /\ view'[u] \in View /\ view'[u].version <= version
                      /\ history[view'[u].version] = view'[u].rows
                      /\ SnapOf(u) # NoSnapshot => SnapOf(u).version <= view'[u].version
      BY DEF ViewsAreVersions, SnapOf, dbVars, replicaVars
  <2>1. CASE u = t
    <3>1. to = "publish" /\ view'[u] = [version |-> version, rows |-> rows]
        BY <2>1 DEF TypeOK
    <3>2. version \in Nat /\ rows \in Rows /\ history[version] = rows
        BY DEF TypeOK, LastVersionIsRows
    <3>3. SnapOf(u) # NoSnapshot => SnapOf(u).version <= version
        BY DEF SnapshotsAreBehind, SnapOf
    <3> QED BY <3>1, <3>2, <3>3 DEF View
  <2>2. CASE u # t
      BY <2>2 DEF TypeOK, ViewsAreVersions
  <2> QED BY <2>1, <2>2
<1> QED BY <1>1, <1>2, <1>3, <1>4

\* A rebuild that ends, in failure or with a snapshot of what it read, lets go
\* of buildMu; no other rebuild of its replica was running.
LEMMA EndRebuildKeeps ==
    ASSUME IInv, NEW t \in Thread, pc[t] \in RebuildPcs, EndRebuild(t), faults' \in Nat,
           UNCHANGED <<dbVars, deployed, formVars>>,
           \/ snap' = snap
           \/ /\ pc[t] = "publish"
              /\ snap' = [snap EXCEPT ![Home[t]] =
                             Snapshot(deployed[Home[t]], view[t].version, view[t].rows)]
    PROVE  IInv'
<1> USE ThreadsAssumption DEF IInv, EndRebuild
<1>1. /\ LastVersionIsRows' /\ RowsAreDrawn' /\ KeysNameRows' /\ DraftsAreChecked'
      /\ EditsHold' /\ EditsHaveRoom' /\ StaticValueStaysHome'
      /\ pc' \in [Thread -> {"idle", "saved"} \cup EditPcs \cup RebuildPcs]
    BY EditsUndisturbed
<1>2. ASSUME pc[t] = "publish"
      PROVE  LET s == Snapshot(deployed[Home[t]], view[t].version, view[t].rows) IN
             s \in Snapshots /\ s.version <= version
  <2>1. view[t] \in View /\ view[t].version <= version /\ deployed[Home[t]] \in Deployment
      BY <1>2 DEF TypeOK, ViewsAreVersions
  <2> QED BY <2>1, SnapshotType DEF View, Snapshot
<1>3. snap' \in [Replica -> Snapshots \cup {NoSnapshot}] /\ SnapshotsAreBehind'
    BY <1>2 DEF TypeOK, SnapshotsAreBehind, dbVars
<1>4. TypeOK'
    BY <1>1, <1>3 DEF TypeOK, dbVars, formVars
<1>5. ASSUME NEW u \in Thread, pc'[u] \in RebuildPcs
      PROVE  u # t /\ pc[u] = pc'[u] /\ Home[u] # Home[t] /\ building[Home[u]] = u
    BY <1>5 DEF TypeOK, RebuildsHold
<1>6. RebuildsHold'
    BY <1>5 DEF TypeOK, RebuildsHold
<1>7. ViewsAreVersions'
  <2> SUFFICES ASSUME NEW u \in Thread, pc'[u] = "publish"
               PROVE  /\ view'[u] = view[u] /\ snap'[Home[u]] = snap[Home[u]] /\ pc[u] = "publish"
      BY DEF ViewsAreVersions, SnapOf, dbVars
  <2>1. u # t /\ pc[u] = "publish" /\ Home[u] # Home[t]
      BY <1>5
  <2>2. snap'[Home[u]] = snap[Home[u]]
      BY <2>1 DEF TypeOK
  <2> QED BY <2>1, <2>2 DEF TypeOK
<1> QED BY <1>1, <1>3, <1>4, <1>6, <1>7

LEMMA RebuildKeeps ==
    ASSUME IInv, NEW t \in Thread, Rebuild(t) \/ RebuildFails(t) PROVE IInv'
<1>0. faults \in Nat
    BY DEF IInv, TypeOK
<1>1. CASE StartRebuild(t) \/ StartIfBehind(t)
    BY <1>1, StartKeeps
<1>2. CASE CheckVersion(t)
  <2>1. CASE version = SnapOf(t).version
      BY <1>0, <1>2, <2>1, EndRebuildKeeps DEF CheckVersion
  <2>2. CASE version # SnapOf(t).version
      BY <1>2, <2>2, LoadKeeps DEF CheckVersion, replicaVars
  <2> QED BY <2>1, <2>2
<1>3. CASE LoadAdminTargets(t)
    BY <1>3, LoadKeeps DEF LoadAdminTargets, Moves
<1>4. CASE Publish(t)
    BY <1>0, <1>4, EndRebuildKeeps DEF Publish
<1>5. CASE RebuildFails(t)
    BY <1>0, <1>5, EndRebuildKeeps DEF RebuildFails
<1> QED BY <1>1, <1>2, <1>3, <1>4, <1>5 DEF Rebuild

\* A restart ends what its replica's threads were doing, and nothing else.
LEMMA RestartKeeps ==
    ASSUME IInv, NEW r \in Replica, NEW d \in Deployment, Restart(r, d) PROVE IInv'
<1> USE ThreadsAssumption DEF IInv, Restart
<1>1. ASSUME NEW u \in Thread, pc'[u] # "idle"
      PROVE  /\ pc'[u] = pc[u] /\ page'[u] = page[u] /\ draft'[u] = draft[u]
             /\ cur'[u] = cur[u] /\ view'[u] = view[u] /\ Home[u] # r
    BY <1>1
<1>2. TypeOK'
  <2>1. locked' \in [Name -> Thread \cup {Nobody}] /\ faults' \in Nat
      BY DEF TypeOK
  <2>2. /\ deployed' \in [Replica -> Deployment]
        /\ snap' \in [Replica -> Snapshots \cup {NoSnapshot}]
        /\ building' \in [Replica -> Thread \cup {Nobody}]
      BY DEF TypeOK
  <2>3. /\ pc' \in [Thread -> {"idle", "saved"} \cup EditPcs \cup RebuildPcs]
        /\ page' \in [Thread -> Page \cup {NoValue}]
        /\ draft' \in [Thread -> Draft \cup {NoValue}]
        /\ cur' \in [Thread -> Row \cup {NoRow}]
        /\ view' \in [Thread -> View \cup {NoValue}]
      BY DEF TypeOK
  <2> QED BY <2>1, <2>2, <2>3 DEF TypeOK
<1>3. LastVersionIsRows' /\ RowsAreDrawn' /\ StaticValueStaysHome'
    BY DEF LastVersionIsRows, RowsAreDrawn, StaticValueStaysHome
<1>4. KeysNameRows'
    BY <1>1 DEF KeysNameRows, KeyNames
<1>5. DraftsAreChecked'
    BY <1>1 DEF DraftsAreChecked
<1>6. EditsHold'
    BY <1>1 DEF EditsHold, KeysNameRows, KeyNames, Page
<1>7. EditsHaveRoom'
  <2>1. Editing' \subseteq Editing
      BY <1>1 DEF Editing
  <2> QED BY <2>1, RoomStays
<1>8. RebuildsHold' /\ ViewsAreVersions' /\ SnapshotsAreBehind'
    BY <1>1 DEF TypeOK, RebuildsHold, ViewsAreVersions, SnapshotsAreBehind, SnapOf
<1> QED BY <1>2, <1>3, <1>4, <1>5, <1>6, <1>7, <1>8

LEMMA NextKeeps == ASSUME IInv, [Next]_vars PROVE IInv'
<1>1. ASSUME NEW t \in Thread, Edit(t) PROVE IInv'
    BY <1>1, LockKeeps, RollbackKeeps, CreateKeeps, UpdateKeeps, DeleteKeeps DEF Edit
<1>2. CASE UNCHANGED vars
    BY <1>2 DEF IInv, vars, dbVars, replicaVars, formVars, TypeOK, LastVersionIsRows, RowsAreDrawn,
                KeysNameRows, KeyNames, DraftsAreChecked, EditsHold, EditsHaveRoom, Editing,
                RebuildsHold, ViewsAreVersions, SnapOf, SnapshotsAreBehind, StaticValueStaysHome
<1> QED BY <1>1, <1>2, FormsKeep, RebuildKeeps, RestartKeeps DEF Next

-----------------------------------------------------------------------------
(* Theorems *)

\* Every reachable state satisfies the inductive invariant.
THEOREM EditsInvariant == Spec => []IInv
BY InitInvariant, NextKeeps, PTL DEF Spec

\* TargetRegistry.TypeOK, for every number of threads, replicas and names.
THEOREM EditsTypeCorrect == Spec => []TypeOK
<1>1. IInv => TypeOK
    BY DEF IInv
<1> QED BY <1>1, EditsInvariant, PTL

\* Whatever pages, locks, rollbacks and restarts interleave, a transaction that
\* holds its row's lock has read the row its administrator was shown
\* (UpdateTarget, DeleteTarget with the page's TargetKey).
THEOREM EditsAreNotLost == Spec => []NoLostUpdate
<1>1. IInv => NoLostUpdate
    BY DEF IInv, EditsHold, NoLostUpdate
<1> QED BY <1>1, EditsInvariant, PTL

\* No sequence of edits leaves a sealed value beside a URL it was not entered
\* for, or keeps one past its mode (ErrStaticValueRequired).
THEOREM SealedValuesStayHome == Spec => []StaticValueStaysHome
<1>1. IInv => StaticValueStaysHome
    BY DEF IInv
<1> QED BY <1>1, EditsInvariant, PTL

\* A stamp changes only under an edit whose page was the confirmation page: a
\* plain edit was checked to keep it before its transaction, and applies to the
\* row it was checked against (handleAdminEdit, handleAdminConfirm).
THEOREM ReplacementsAreConfirmed == Spec => ReplacementIsConfirmed
<1> DEFINE Confirmed ==
        \A n \in Name : rows[n] # NoRow /\ rows'[n] # NoRow /\ RowStamp(n, rows[n]) # RowStamp(n, rows'[n]) =>
            \E t \in Thread : pc[t] = "locked" /\ page[t].kind = "confirm" /\ page[t].name = n
<1>1. ASSUME IInv, [Next]_vars PROVE Confirmed
  <2> SUFFICES ASSUME NEW n \in Name, rows[n] # NoRow, rows'[n] # NoRow,
                      RowStamp(n, rows[n]) # RowStamp(n, rows'[n])
               PROVE  \E t \in Thread : pc[t] = "locked" /\ page[t].kind = "confirm" /\ page[t].name = n
      OBVIOUS
  <2>0. rows \in Rows /\ rows' # rows
      BY <1>1 DEF IInv, TypeOK
  <2>1. PICK t \in Thread : CreateTarget(t) \/ UpdateTarget(t) \/ DeleteTarget(t)
      BY <1>1, <2>0 DEF Next, vars, dbVars, Forms, OpenPage, ClosePage, PostNew, PostEdit, PostConfirm,
                        Edit, Lock, Refuse, Rollback, Rebuild, StartRebuild, StartIfBehind, CheckVersion,
                        LoadAdminTargets, Publish, RebuildFails, Restart
  <2>2. pc[t] = "locked"
      BY <2>1 DEF CreateTarget, UpdateTarget, DeleteTarget
  <2>3. CASE CreateTarget(t)
      BY <1>1, <2>0, <2>2, <2>3, UnderLock DEF CreateTarget, Install, Rows
  <2>4. CASE DeleteTarget(t)
      BY <1>1, <2>0, <2>2, <2>4, UnderLock DEF DeleteTarget, Install, Rows
  <2>5. CASE UpdateTarget(t)
    <3>1. /\ rows' = [rows EXCEPT ![page[t].name] = Updated(t)] /\ page[t].kind \in {"edit", "confirm"}
        BY <2>5 DEF UpdateTarget, Updated, Install
    <3>2. page[t].name = n /\ rows'[n] = Updated(t)
        BY <2>0, <3>1 DEF Rows
    <3>3. /\ cur[t] = rows[n] /\ rows[n] \in Row /\ draft[t] \in Draft
          /\ page[t].kind = "edit" => draft[t].def = rows[n].def
        BY <1>1, <2>2, <3>1, <3>2, UnderLock DEF Fits
    <3>4. page[t].kind = "edit" => KeepsStamp(n, rows[n], draft[t].def)
        BY <3>3, KeepsStampIsSameDef DEF Draft
    <3>5. page[t].kind = "edit" => RowStamp(n, Updated(t)) = RowStamp(n, rows[n])
        BY <3>2, <3>3, <3>4 DEF Updated, Generation, RowStamp
    <3> QED BY <2>2, <3>1, <3>2, <3>5
  <2> QED BY <2>1, <2>3, <2>4, <2>5
<1>2. Confirmed => [Confirmed]_vars
    OBVIOUS
<1> QED BY <1>1, <1>2, EditsInvariant, PTL DEF Spec, ReplacementIsConfirmed

-----------------------------------------------------------------------------
(* The pages, transactions and rebuilds implement ServedTargets *)

\* What the rest of the proxy sees of a row is a row, and nothing of no row.
LEMMA SeenType ==
    ASSUME NEW row \in Row \cup {NoRow}
    PROVE  /\ Seen(row) = NoRow <=> row = NoRow
           /\ row # NoRow => /\ row \in Row
                             /\ Seen(row) = [gen |-> row.gen, def |-> row.def, access |-> row.access]
BY NoRowAssumption DEF Seen, Row

\* A snapshot takes from the rows no more than that (merge, newSnapshot).
LEMMA SnapshotOfSeen ==
    ASSUME NEW d \in Deployment, NEW v \in Nat, NEW rs \in Rows
    PROVE  Targets!Snapshot(d, v, [n \in Name |-> Seen(rs[n])]) = Snapshot(d, v, rs)
<1> DEFINE seen == [n \in Name |-> Seen(rs[n])]
<1>1. ASSUME NEW n \in Name
      PROVE  /\ seen[n] = NoRow <=> rs[n] = NoRow
             /\ Targets!Serves(d, n, seen[n]) = Serves(d, n, rs[n])
    BY SeenType DEF Rows, Targets!Serves, Serves, Targets!RowStamp, RowStamp, Targets!AdminStamp, AdminStamp,
                    Targets!ConfigStamp, ConfigStamp
<1> HIDE DEF seen
<1>2. [n \in Name |-> Targets!Serves(d, n, seen[n])] = [n \in Name |-> Serves(d, n, rs[n])]
    BY <1>1
<1>3. {n \in Name : seen[n] # NoRow /\ d.targets[n] # NoTarget}
          = {n \in Name : rs[n] # NoRow /\ d.targets[n] # NoTarget}
    BY <1>1
<1>4. Targets!Snapshot(d, v, seen) = Snapshot(d, v, rs)
    BY <1>2, <1>3 DEF Targets!Snapshot, Snapshot
<1> QED BY <1>4 DEF seen

LEMMA InitMaps == Init => Targets!Init
<1> SUFFICES ASSUME Init PROVE Targets!Init
    OBVIOUS
<1>1. SeenRows = [n \in Name |-> NoRow]
    BY DEF Init, SeenRows, Seen
<1>2. SeenHistory = [v \in {0} |-> SeenRows]
    BY DEF Init, SeenHistory, SeenRows
<1> QED BY <1>1, <1>2 DEF Init, Targets!Init

\* A commit is one change of the table (bumpTargetsVersion in its transaction).
LEMMA CommitMaps ==
    ASSUME IInv, NEW t \in Thread, pc[t] = "locked",
           NEW row \in Row \cup {NoRow}, Install(t, page[t].name, row)
    PROVE  Targets!Install(page[t].name, Seen(row))
<1> DEFINE n == page[t].name
<1>1. /\ n \in Name /\ rows \in Rows /\ version \in Nat /\ history \in [0..version -> Rows]
      /\ rows' = [rows EXCEPT ![n] = row] /\ version' = version + 1
      /\ history' = [v \in 0..(version + 1) |-> IF v = version + 1 THEN rows' ELSE history[v]]
      /\ UNCHANGED <<deployed, snap>>
    BY UnderLock DEF IInv, TypeOK, Install, replicaVars
<1>2. version < MaxVersion
  <2>1. IsFiniteSet(Editing)
      BY FS_Subset, ThreadsAssumption, Editing \subseteq Thread DEF Editing
  <2>2. Cardinality(Editing) \in Nat /\ Cardinality(Editing) # 0
      BY <2>1, FS_CardinalityType, FS_EmptySet, t \in Editing DEF Editing
  <2> QED BY <1>1, <2>2, ThreadsAssumption DEF IInv, EditsHaveRoom
<1>3. SeenRows' = [SeenRows EXCEPT ![n] = Seen(row)]
    BY <1>1 DEF SeenRows, Rows, Seen
<1>4. SeenHistory' = [v \in 0..(version + 1) |-> IF v = version + 1 THEN SeenRows' ELSE SeenHistory[v]]
  <2>1. /\ DOMAIN history = 0..version /\ DOMAIN history' = 0..(version + 1)
        /\ \A v \in 0..(version + 1) : v # version + 1 => v \in 0..version
      BY <1>1
  <2>2. SeenHistory' = [v \in 0..(version + 1) |-> [m \in Name |-> Seen(history'[v][m])]]
      BY <2>1 DEF SeenHistory, Seen
  <2>3. \A v \in 0..(version + 1) :
            [m \in Name |-> Seen(history'[v][m])] = IF v = version + 1 THEN SeenRows' ELSE SeenHistory[v]
      BY <1>1, <2>1 DEF SeenHistory, SeenRows, Seen
  <2> QED BY <2>2, <2>3
<1> QED BY <1>1, <1>2, <1>3, <1>4 DEF Targets!Install

LEMMA CreateMaps == ASSUME IInv, NEW t \in Thread, CreateTarget(t) PROVE Targets!Next
<1> DEFINE n == page[t].name
<1>1. /\ pc[t] = "locked" /\ page[t].kind = "new" /\ Install(t, n, Created(t)) /\ fresh' = fresh + 1
    BY DEF CreateTarget, Created
<1>2. n \in Name /\ rows[n] = NoRow /\ draft[t] \in Draft /\ Created(t) \in Row
    BY <1>1, UnderLock, CreateKeeps
<1>3. Targets!Generation(n, draft[t].def) = fresh
    BY <1>2 DEF SeenRows, Seen, Targets!Generation
<1>4. Seen(Created(t)) = [gen |-> fresh, def |-> draft[t].def, access |-> draft[t].access]
    BY <1>2, SeenType, NoRowAssumption DEF Created
<1>5. Targets!Put(n, draft[t].def, draft[t].access)
    BY <1>1, <1>2, <1>3, <1>4, CommitMaps DEF Targets!Put
<1> QED BY <1>2, <1>5 DEF Targets!Next, Draft

LEMMA UpdateMaps == ASSUME IInv, NEW t \in Thread, UpdateTarget(t) PROVE Targets!Next
<1> DEFINE n == page[t].name
           def == draft[t].def
<1>1. /\ pc[t] = "locked" /\ page[t].kind \in {"edit", "confirm"} /\ Install(t, n, Updated(t))
      /\ fresh' = IF KeepsStamp(n, cur[t], def) THEN fresh ELSE fresh + 1
    BY DEF UpdateTarget, Updated
<1>2. /\ n \in Name /\ cur[t] = rows[n] /\ rows[n] \in Row /\ rows[n] # NoRow
      /\ draft[t] \in Draft /\ def \in Def /\ Updated(t) \in Row
    BY <1>1, UnderLock, UpdateKeeps, NoRowAssumption DEF Draft
<1>3. /\ SeenRows[n] # NoRow /\ SeenRows[n].gen = rows[n].gen /\ SeenRows[n].def = rows[n].def
    BY <1>2, SeenType DEF SeenRows
<1>4. Targets!Generation(n, def) = Generation(n, cur[t], def)
    BY <1>2, <1>3 DEF Targets!Generation, Generation, KeepsStamp, Targets!AdminStamp, AdminStamp,
                      Targets!RowStamp, RowStamp
<1>5. rows[n].gen \in Nat /\ rows[n].gen < fresh /\ fresh \in Nat
    BY <1>2 DEF IInv, TypeOK, RowsAreDrawn, Row
<1>6. fresh' = IF Targets!Generation(n, def) = fresh THEN fresh + 1 ELSE fresh
    BY <1>1, <1>2, <1>4, <1>5 DEF Generation
<1>7. Seen(Updated(t)) = [gen |-> Targets!Generation(n, def), def |-> def, access |-> draft[t].access]
    BY <1>2, <1>4, SeenType, NoRowAssumption DEF Updated
<1>8. Targets!Put(n, def, draft[t].access)
    BY <1>1, <1>2, <1>6, <1>7, CommitMaps DEF Targets!Put
<1> QED BY <1>2, <1>8 DEF Targets!Next, Draft

LEMMA DeleteMaps == ASSUME IInv, NEW t \in Thread, DeleteTarget(t) PROVE Targets!Next
<1> DEFINE n == page[t].name
<1>1. pc[t] = "locked" /\ page[t].kind = "remove" /\ Install(t, n, NoRow) /\ fresh' = fresh
    BY DEF DeleteTarget
<1>2. n \in Name /\ rows[n] \in Row /\ rows[n] # NoRow
    BY <1>1, UnderLock, NoRowAssumption
<1>3. SeenRows[n] # NoRow
    BY <1>2, SeenType DEF SeenRows
<1>4. Targets!Remove(n)
    BY <1>1, <1>3, CommitMaps, Seen(NoRow) = NoRow DEF Targets!Remove, Seen
<1> QED BY <1>2, <1>4 DEF Targets!Next

\* A publication serves one version, no older than the one served.
LEMMA PublishMaps == ASSUME IInv, NEW t \in Thread, Publish(t) PROVE Targets!Next
<1> DEFINE r == Home[t]
           v == view[t].version
<1>1. /\ pc[t] = "publish" /\ UNCHANGED <<rows, version, fresh, history, deployed>>
      /\ snap' = [snap EXCEPT ![r] = Snapshot(deployed[r], v, view[t].rows)]
    BY DEF Publish, dbVars
<1>2. /\ view[t] \in View /\ v <= version /\ history[v] = view[t].rows
      /\ snap[r] # NoSnapshot => snap[r].version <= v
    BY <1>1 DEF IInv, ViewsAreVersions, SnapOf
<1>3. /\ r \in Replica /\ deployed[r] \in Deployment /\ v \in 0..version /\ view[t].rows \in Rows
      /\ v \in Nat /\ DOMAIN history = 0..version
    BY <1>2, ThreadsAssumption DEF IInv, TypeOK, View
<1>4. SeenHistory[v] = [n \in Name |-> Seen(view[t].rows[n])]
    BY <1>2, <1>3 DEF SeenHistory
<1>5. Snapshot(deployed[r], v, view[t].rows) = Targets!Snapshot(deployed[r], v, SeenHistory[v])
  <2>1. Targets!Snapshot(deployed[r], v, [n \in Name |-> Seen(view[t].rows[n])])
            = Snapshot(deployed[r], v, view[t].rows)
      BY <1>3, SnapshotOfSeen
  <2> QED BY <1>4, <2>1
<1>6. UNCHANGED <<SeenRows, SeenHistory>>
    BY <1>1 DEF SeenRows, SeenHistory, Seen
<1>7. Targets!Serve(r)
    BY <1>1, <1>2, <1>3, <1>5, <1>6 DEF Targets!Serve
<1> QED BY <1>3, <1>7 DEF Targets!Next

LEMMA StepMaps == ASSUME IInv, [Next]_vars PROVE [Targets!Next]_(Targets!targetVars)
<1>1. ASSUME UNCHANGED <<dbVars, deployed, snap>> PROVE UNCHANGED Targets!targetVars
    BY <1>1 DEF dbVars, Targets!targetVars, SeenRows, SeenHistory, Seen
<1>2. ASSUME UNCHANGED <<rows, version, fresh, history, deployed, snap>> PROVE UNCHANGED Targets!targetVars
    BY <1>2 DEF Targets!targetVars, SeenRows, SeenHistory, Seen
<1>3. ASSUME NEW t \in Thread, Forms(t) PROVE UNCHANGED Targets!targetVars
    BY <1>1, <1>3 DEF Forms, OpenPage, ClosePage, PostNew, PostEdit, PostConfirm, replicaVars
<1>4. ASSUME NEW t \in Thread, Lock(t) \/ Refuse(t) \/ Rollback(t) PROVE UNCHANGED Targets!targetVars
    BY <1>2, <1>4 DEF Lock, Refuse, Rollback, dbVars, replicaVars
<1>5. ASSUME NEW t \in Thread,
             StartRebuild(t) \/ StartIfBehind(t) \/ CheckVersion(t) \/ LoadAdminTargets(t) \/ RebuildFails(t)
      PROVE  UNCHANGED Targets!targetVars
    BY <1>1, <1>5 DEF StartRebuild, StartIfBehind, CheckVersion, LoadAdminTargets, RebuildFails, replicaVars
<1>6. ASSUME NEW r \in Replica, NEW d \in Deployment, Restart(r, d) PROVE Targets!Next
  <2>1. UNCHANGED <<SeenRows, SeenHistory>>
      BY <1>6 DEF Restart, SeenRows, SeenHistory, Seen
  <2>2. Targets!Restart(r, d)
      BY <1>6, <2>1 DEF Restart, Targets!Restart
  <2> QED BY <2>2 DEF Targets!Next
<1>7. CASE UNCHANGED vars
    BY <1>1, <1>7 DEF vars, replicaVars
<1>8. CASE Next
    BY <1>3, <1>4, <1>5, <1>6, <1>8, CreateMaps, UpdateMaps, DeleteMaps, PublishMaps DEF Next, Edit, Rebuild
<1> QED BY <1>7, <1>8

\* Whatever the interleaving of pages, transactions, rebuilds and restarts, the
\* rest of the proxy sees one change of the table at a time, stamps that follow
\* the rule of ServedTargets, and snapshots that are each one version of the
\* table and never go back (registry.go, store.go).
THEOREM RegistryImplementsServedTargets == Spec => ImplementsServedTargets
<1>1. IInv /\ [Next]_vars => [Targets!Next]_(Targets!targetVars)
    BY StepMaps
<1> QED BY <1>1, InitMaps, EditsInvariant, PTL DEF Spec, ImplementsServedTargets, Targets!Spec

\* What is proved of ServedTargets holds of what implements it.
Promised == INSTANCE ServedTargetsProofs WITH rows <- SeenRows, history <- SeenHistory

LEMMA PromisedInvariant == Spec => []Promised!IInv
<1>1. Init => Promised!Init
    BY InitMaps DEF Targets!Init, Promised!Init
<1>2. IInv /\ [Next]_vars => [Promised!Next]_(Promised!targetVars)
  <2>1. [Targets!Next]_(Targets!targetVars) => [Promised!Next]_(Promised!targetVars)
      BY DEF Targets!Next, Promised!Next, Targets!targetVars, Promised!targetVars, Targets!Put, Promised!Put,
             Targets!Remove, Promised!Remove, Targets!Install, Promised!Install, Targets!Serve, Promised!Serve,
             Targets!Restart, Promised!Restart, Targets!Generation, Promised!Generation,
             Targets!AdminStamp, Promised!AdminStamp, Targets!RowStamp, Promised!RowStamp,
             Targets!Snapshot, Promised!Snapshot, Targets!Serves, Promised!Serves,
             Targets!ConfigStamp, Promised!ConfigStamp
  <2> QED BY <2>1, StepMaps
<1>3. Promised!Init => Promised!IInv
    BY Promised!InitInvariant, ConstantsAssumption, NoEntryAssumption, NoSnapshotAssumption, ThreadsAssumption, NoRowAssumption
       DEF Promised!Mode, Promised!Entry, Promised!Row, Promised!ConfigTarget, Promised!Snapshots, Promised!Stamp,
           Mode, Entry, ConfigTarget, Snapshots, Stamp
<1>4. Promised!IInv /\ [Promised!Next]_(Promised!targetVars) => Promised!IInv'
    BY Promised!NextInvariant, ConstantsAssumption, NoEntryAssumption, NoSnapshotAssumption, ThreadsAssumption, NoRowAssumption
       DEF Promised!Mode, Promised!Entry, Promised!Row, Promised!ConfigTarget, Promised!Snapshots, Promised!Stamp,
           Mode, Entry, ConfigTarget, Snapshots, Stamp
<1> QED BY <1>1, <1>2, <1>3, <1>4, EditsInvariant, PTL DEF Spec

\* Once a definition is replaced or removed, neither putting it back through the
\* admin pages nor adding the name again makes the old stamp current
\* (CreateTarget, UpdateTarget).
COROLLARY AdminStampsNeverReturn == Spec => []Targets!StampsNeverReturn
<1>1. Promised!IInv => Targets!StampsNeverReturn
    BY DEF Promised!IInv, Promised!StampsNeverReturn, Targets!StampsNeverReturn,
           Promised!RowStamp, Targets!RowStamp, Promised!AdminStamp, Targets!AdminStamp
<1> QED BY <1>1, PromisedInvariant, PTL

\* Whatever a rebuild raced with, the snapshot a replica serves is exactly the
\* table at the version it carries, merged with the configuration the replica
\* runs with (rebuildLocked).
COROLLARY ServedIsOneVersion == Spec => []Targets!SnapshotIsItsVersion
<1>1. Promised!IInv => Targets!SnapshotIsItsVersion
    BY DEF Promised!IInv, Promised!SnapshotIsItsVersion, Targets!SnapshotIsItsVersion,
           Promised!Snapshot, Targets!Snapshot, Promised!Serves, Targets!Serves,
           Promised!RowStamp, Targets!RowStamp, Promised!AdminStamp, Targets!AdminStamp,
           Promised!ConfigStamp, Targets!ConfigStamp
<1> QED BY <1>1, PromisedInvariant, PTL
==============================================================================
