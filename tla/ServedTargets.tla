---------------------------- MODULE ServedTargets ----------------------------
(***************************************************************************)
(* What the admin target registry promises, without saying how: the        *)
(* targets table moves through numbered versions, one change at a time,    *)
(* and each replica serves, at its own pace and never going back, exactly  *)
(* what the table held at some version. TargetRegistry implements this;    *)
(* StampedCredentials builds on it.                                        *)
(***************************************************************************)
EXTENDS Stamps

CONSTANTS
    MaxVersion     \* bound: changes of the targets table

ASSUME MaxVersionAssumption == MaxVersion \in Nat

VARIABLES
    rows,       \* table targets
    version,    \* table targets_version
    fresh,      \* the next value gen_random_uuid draws
    history,    \* the rows of every version so far
    deployed,   \* the configuration each replica runs with
    snap        \* registry.cur of each replica

targetVars == <<rows, version, fresh, history, deployed, snap>>

Row  == [gen : Nat, def : Def, access : Access]
Rows == [Name -> Row \cup {NoRow}]

ASSUME NoRowAssumption == NoRow \notin Row

TypeOK ==
    /\ rows \in Rows
    /\ version \in Nat
    /\ fresh \in Nat
    /\ history \in [0..version -> Rows]
    /\ deployed \in [Replica -> Deployment]
    /\ snap \in [Replica -> Snapshots \cup {NoSnapshot}]

Init ==
    /\ rows = [n \in Name |-> NoRow]
    /\ version = 0
    /\ fresh = 1
    /\ history = [v \in {0} |-> rows]
    /\ deployed \in [Replica -> Deployment]
    /\ snap = [r \in Replica |-> NoSnapshot]

\* Variant: a row keeps the generation it was created with.
Generation_Kept(n, def) == IF rows[n] # NoRow THEN rows[n].gen ELSE fresh

\* The generation an edit gives the row of name n: that of the row while the
\* definition stands, a new one otherwise.
Generation(n, def) ==
    IF rows[n] # NoRow /\ AdminStamp(n, rows[n].gen, def) = RowStamp(n, rows[n])
    THEN rows[n].gen ELSE fresh

\* A change of the table and of its version number, in one transaction.
Install(n, row) ==
    /\ version < MaxVersion
    /\ rows' = [rows EXCEPT ![n] = row]
    /\ version' = version + 1
    /\ history' = [v \in 0..(version + 1) |-> IF v = version + 1 THEN rows' ELSE history[v]]
    /\ UNCHANGED <<deployed, snap>>

\* CreateTarget or UpdateTarget commits.
Put(n, def, access) ==
    /\ Install(n, [gen |-> Generation(n, def), def |-> def, access |-> access])
    /\ fresh' = IF Generation(n, def) = fresh THEN fresh + 1 ELSE fresh

\* DeleteTarget commits.
Remove(n) ==
    /\ rows[n] # NoRow
    /\ Install(n, NoRow)
    /\ UNCHANGED fresh

\* A rebuild publishes a version no older than the one being served.
Serve(r) ==
    \E v \in 0..version :
        /\ snap[r] # NoSnapshot => snap[r].version <= v
        /\ snap' = [snap EXCEPT ![r] = Snapshot(deployed[r], v, history[v])]
        /\ UNCHANGED <<rows, version, fresh, history, deployed>>

\* A replica is started again, possibly with another configuration.
Restart(r, d) ==
    /\ deployed' = [deployed EXCEPT ![r] = d]
    /\ snap' = [snap EXCEPT ![r] = NoSnapshot]
    /\ UNCHANGED <<rows, version, fresh, history>>

Next ==
    \/ \E n \in Name : Remove(n) \/ \E def \in Def, access \in Access : Put(n, def, access)
    \/ \E r \in Replica : Serve(r) \/ \E d \in Deployment : Restart(r, d)

Spec == Init /\ [][Next]_targetVars

-----------------------------------------------------------------------------
(* Properties *)

\* A snapshot holds exactly what the database held at its version, merged with
\* the replica's own configuration. So a replica that finds targets_version
\* equal to its snapshot's may skip the read (rebuildIfBehind).
SnapshotIsItsVersion ==
    \A r \in Replica : snap[r] # NoSnapshot =>
        /\ snap[r].version \in 0..version
        /\ snap[r] = Snapshot(deployed[r], snap[r].version, history[snap[r].version])

\* An admin stamp is current during one unbroken run of versions: once a
\* definition is replaced or removed, putting the old one back, or adding the
\* name again, never makes the old stamp current (CreateTarget, UpdateTarget).
StampsNeverReturn ==
    \A n \in Name : \A i, j, k \in 0..version :
        /\ i < j /\ j < k
        /\ history[i][n] # NoRow /\ history[k][n] # NoRow
        /\ RowStamp(n, history[i][n]) = RowStamp(n, history[k][n])
        => history[j][n] # NoRow /\ RowStamp(n, history[j][n]) = RowStamp(n, history[i][n])

\* While a process runs, its snapshot never goes back to an older version
\* (buildMu: a slow rebuild cannot publish over a newer one).
SnapshotNeverOlder ==
    [][\A r \in Replica : snap[r] # NoSnapshot /\ snap'[r] # NoSnapshot =>
          snap[r].version <= snap'[r].version]_targetVars
=============================================================================
