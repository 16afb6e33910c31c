------------------------- MODULE ServedTargetsProofs -------------------------
(***************************************************************************)
(* The promises of the registry, for every set of names, definitions,      *)
(* replicas and deployments.                                               *)
(*                                                                         *)
(* StampsNeverReturn is not inductive: that a stamp was current without a  *)
(* break says nothing of the next generation drawn. What is missing is     *)
(* that the last version is the table itself, and that every generation in *)
(* the history was drawn before fresh.                                     *)
(***************************************************************************)
EXTENDS ServedTargets, TLAPS

LastVersionIsRows == history[version] = rows

GenerationsDrawn ==
    \A v \in 0..version : \A n \in Name : history[v][n] # NoRow => history[v][n].gen < fresh

IInv ==
    /\ TypeOK
    /\ LastVersionIsRows
    /\ GenerationsDrawn
    /\ SnapshotIsItsVersion
    /\ StampsNeverReturn

-----------------------------------------------------------------------------
(* Stamps and snapshots *)

\* The stamps of two rows of one name are equal just when the rows have the
\* same generation and definition, whatever their access rules (Target.Stamp).
LEMMA RowStampInjective ==
    ASSUME NEW n \in Name, NEW p \in Row, NEW q \in Row
    PROVE  RowStamp(n, p) = RowStamp(n, q) <=> p.gen = q.gen /\ p.def = q.def
BY DEF RowStamp, AdminStamp

\* What a replica makes of one name is an entry or nothing (merge, usable).
LEMMA ServesType ==
    ASSUME NEW d \in Deployment, NEW n \in Name, NEW row \in Row \cup {NoRow}
    PROVE  Serves(d, n, row) \in Entry \cup {NoEntry}
<1>1. CASE row # NoRow
  <2>1. RowStamp(n, row) \in Stamp /\ row.access \in Access
    BY <1>1 DEF Row, RowStamp, AdminStamp, Stamp
  <2> QED BY <1>1, <2>1 DEF Serves, Entry
<1>2. CASE row = NoRow
  <2>1. d.targets \in [Name -> ConfigTarget \cup {NoTarget}]
    BY ConstantsAssumption
  <2>2. ASSUME d.targets[n] # NoTarget
        PROVE  /\ ConfigStamp(n, d.targets[n].def) \in Stamp
               /\ d.targets[n].access \in Access
    BY <2>1, <2>2 DEF ConfigTarget, ConfigStamp, Stamp
  <2> QED BY <1>2, <2>1, <2>2 DEF Serves, Entry
<1> QED BY <1>1, <1>2

\* What newSnapshot builds from a version's rows is a snapshot.
LEMMA SnapshotType ==
    ASSUME NEW d \in Deployment, NEW v \in Nat, NEW rs \in Rows
    PROVE  Snapshot(d, v, rs) \in Snapshots
<1>1. \A n \in Name : Serves(d, n, rs[n]) \in Entry \cup {NoEntry}
  BY ServesType DEF Rows
<1>2. [n \in Name |-> Serves(d, n, rs[n])] \in [Name -> Entry \cup {NoEntry}]
  BY <1>1
<1> QED BY <1>2 DEF Snapshot, Snapshots

-----------------------------------------------------------------------------
(* Changes of the table *)

\* The generation an edit gives a row (CreateTarget, UpdateTarget) is the one
\* the row has, with the definition it has, or one never drawn before.
LEMMA GenerationIsKeptOrFresh ==
    ASSUME TypeOK, NEW n \in Name, NEW def \in Def
    PROVE  /\ Generation(n, def) \in Nat
           /\ \/ Generation(n, def) = fresh
              \/ rows[n] # NoRow /\ Generation(n, def) = rows[n].gen /\ def = rows[n].def
BY DEF TypeOK, Rows, Row, Generation, AdminStamp, RowStamp

\* One change of the table, in which each row keeps its stamp, is removed, or
\* gets a generation never drawn before, keeps the invariant.
LEMMA InstallStep ==
    ASSUME IInv, NEW n \in Name, NEW row \in Row \cup {NoRow}, Install(n, row),
           fresh' \in Nat, fresh <= fresh',
           row # NoRow => row.gen < fresh',
           row # NoRow =>
               \/ fresh <= row.gen
               \/ rows[n] # NoRow /\ row.gen = rows[n].gen /\ row.def = rows[n].def
    PROVE  IInv'
<1> USE DEF IInv
<1>1. /\ version \in Nat /\ fresh \in Nat /\ rows \in Rows
      /\ history \in [0..version -> Rows]
      /\ version' = version + 1
      /\ rows' = [rows EXCEPT ![n] = row]
      /\ UNCHANGED <<deployed, snap>>
  BY DEF TypeOK, Install
<1>2. rows' \in Rows
  BY <1>1 DEF Rows
<1>3. history' = [v \in 0..(version + 1) |-> IF v = version + 1 THEN rows' ELSE history[v]]
  BY DEF Install
<1>4. /\ \A v \in 0..version : v \in 0..version' /\ history'[v] = history[v]
      /\ history'[version'] = rows'
  BY <1>1, <1>3
<1>5. \A v \in 0..version' : v \in 0..version \/ v = version'
  BY <1>1
<1>6. TypeOK'
  <2>1. history' \in [0..version' -> Rows]
    BY <1>1, <1>2, <1>3
  <2> QED BY <1>1, <1>2, <2>1 DEF TypeOK
<1>7. LastVersionIsRows'
  BY <1>4 DEF LastVersionIsRows
<1>8. GenerationsDrawn'
  <2> SUFFICES ASSUME NEW v \in 0..version', NEW m \in Name, history'[v][m] # NoRow
               PROVE  history'[v][m].gen < fresh'
    BY DEF GenerationsDrawn
  <2>1. CASE v \in 0..version
    <3>1. history[v][m] # NoRow /\ history[v][m].gen < fresh
      BY <1>4, <2>1 DEF GenerationsDrawn
    <3>2. history[v][m].gen \in Nat
      BY <1>1, <2>1, <3>1 DEF Rows, Row
    <3> QED BY <1>1, <1>4, <2>1, <3>1, <3>2
  <2>2. CASE v = version' /\ m = n
    BY <1>1, <1>4, <2>2 DEF Rows
  <2>3. CASE v = version' /\ m # n
    <3>1. history'[v][m] = history[version][m]
      BY <1>1, <1>4, <2>3 DEF LastVersionIsRows, Rows
    <3>2. version \in 0..version
      BY <1>1
    <3>3. history[version][m].gen < fresh /\ history[version][m].gen \in Nat
      BY <1>1, <3>1, <3>2 DEF GenerationsDrawn, Rows, Row
    <3> QED BY <1>1, <3>1, <3>3
  <2> QED BY <1>5, <2>1, <2>2, <2>3
<1>9. SnapshotIsItsVersion'
  BY <1>1, <1>4 DEF SnapshotIsItsVersion, TypeOK
<1>10. StampsNeverReturn'
  <2> SUFFICES ASSUME NEW m \in Name,
                      NEW i \in 0..version', NEW j \in 0..version', NEW k \in 0..version',
                      i < j, j < k, history'[i][m] # NoRow, history'[k][m] # NoRow,
                      RowStamp(m, history'[i][m]) = RowStamp(m, history'[k][m])
               PROVE  /\ history'[j][m] # NoRow
                      /\ RowStamp(m, history'[j][m]) = RowStamp(m, history'[i][m])
    BY DEF StampsNeverReturn
  <2>1. i \in 0..version /\ j \in 0..version
    BY <1>1
  <2>2. CASE k \in 0..version
    BY <1>4, <2>1, <2>2 DEF StampsNeverReturn
  <2>3. CASE k = version'
    <3>1. history'[i][m] = history[i][m] /\ history'[j][m] = history[j][m] /\ history'[k][m] = rows'[m]
      BY <1>4, <2>1, <2>3
    <3>2. history[i][m] \in Row /\ rows'[m] \in Row /\ history[i][m].gen < fresh
      BY <1>1, <1>2, <2>1, <3>1 DEF Rows, GenerationsDrawn
    <3>3. history[i][m].gen = rows'[m].gen
      BY <3>1, <3>2, RowStampInjective
    <3>4. ~(fresh <= rows'[m].gen)
      BY <1>1, <3>2, <3>3 DEF Row
    <3>5. rows[m] \in Row /\ RowStamp(m, rows[m]) = RowStamp(m, rows'[m])
      <4>1. CASE m = n
        <5>1. rows'[m] = row /\ rows[m] # NoRow /\ row.gen = rows[m].gen /\ row.def = rows[m].def
          BY <1>1, <3>1, <3>4, <4>1 DEF Rows
        <5> QED BY <1>1, <3>2, <5>1, RowStampInjective DEF Rows
      <4>2. CASE m # n
        BY <1>1, <3>2, <4>2 DEF Rows
      <4> QED BY <4>1, <4>2
    <3>6. history[version][m] = rows[m] /\ version \in 0..version
      BY <1>1 DEF LastVersionIsRows
    <3>7. j = version \/ j < version
      BY <1>1, <2>1
    <3>8. history[version][m] # NoRow
      BY <3>5, <3>6, NoRowAssumption
    <3>9. CASE j = version
      BY <3>1, <3>5, <3>6, <3>8, <3>9
    <3>10. CASE j < version
      BY <2>1, <3>1, <3>5, <3>6, <3>8, <3>10 DEF StampsNeverReturn
    <3> QED BY <3>7, <3>9, <3>10
  <2> QED BY <1>5, <2>2, <2>3
<1> QED BY <1>6, <1>7, <1>8, <1>9, <1>10

-----------------------------------------------------------------------------
(* The invariant *)

\* The first version is the empty table, and no process has a snapshot yet.
LEMMA InitInvariant == Init => IInv
<1> SUFFICES ASSUME Init PROVE IInv
  OBVIOUS
<1>1. rows \in Rows /\ history \in [0..version -> Rows] /\ history[version] = rows
  <2>1. rows \in Rows
    BY DEF Init, Rows
  <2>2. 0..version = {0}
    BY DEF Init
  <2> QED BY <2>1, <2>2 DEF Init
<1>2. TypeOK
  BY <1>1 DEF Init, TypeOK
<1>3. \A v \in 0..version, n \in Name : history[v][n] = NoRow
  <2>1. \A v \in 0..version : v = 0
    BY DEF Init
  <2> QED BY <1>1, <2>1 DEF Init
<1>4. GenerationsDrawn /\ StampsNeverReturn
  BY <1>3 DEF GenerationsDrawn, StampsNeverReturn
<1> QED BY <1>1, <1>2, <1>4 DEF Init, IInv, LastVersionIsRows, SnapshotIsItsVersion

\* No edit, rebuild or restart breaks the invariant.
LEMMA NextInvariant == IInv /\ [Next]_targetVars => IInv'
<1> SUFFICES ASSUME IInv, [Next]_targetVars PROVE IInv'
  OBVIOUS
<1>1. ASSUME NEW n \in Name, Remove(n) PROVE IInv'
  BY <1>1, InstallStep DEF Remove, IInv, TypeOK
<1>2. ASSUME NEW n \in Name, NEW def \in Def, NEW access \in Access, Put(n, def, access)
      PROVE  IInv'
  <2> DEFINE row == [gen |-> Generation(n, def), def |-> def, access |-> access]
  <2>1. TypeOK /\ fresh \in Nat
    BY DEF IInv, TypeOK
  <2>2. /\ Generation(n, def) \in Nat
        /\ \/ Generation(n, def) = fresh
           \/ rows[n] # NoRow /\ Generation(n, def) = rows[n].gen /\ def = rows[n].def
    BY <2>1, GenerationIsKeptOrFresh
  <2>3. row \in Row
    BY <2>2 DEF Row
  <2>4. fresh' \in Nat /\ fresh <= fresh'
    BY <1>2, <2>1 DEF Put
  <2>5. Generation(n, def) < fresh'
    <3>1. CASE Generation(n, def) = fresh
      BY <1>2, <2>1, <3>1 DEF Put
    <3>2. CASE rows[n] # NoRow /\ Generation(n, def) = rows[n].gen
      <4>1. version \in 0..version /\ history[version][n] = rows[n]
        BY DEF IInv, TypeOK, LastVersionIsRows
      <4>2. rows[n].gen < fresh
        BY <3>2, <4>1 DEF IInv, GenerationsDrawn
      <4> QED BY <2>1, <2>2, <2>4, <3>2, <4>2
    <3> QED BY <2>2, <3>1, <3>2
  <2>6. row.gen = Generation(n, def) /\ row.def = def
    OBVIOUS
  <2>7. fresh <= row.gen \/ (rows[n] # NoRow /\ row.gen = rows[n].gen /\ row.def = rows[n].def)
    BY <2>1, <2>2, <2>6
  <2>8. Install(n, row)
    BY <1>2 DEF Put
  <2> HIDE DEF row
  <2> QED BY <2>3, <2>4, <2>5, <2>6, <2>7, <2>8, InstallStep
<1>3. ASSUME NEW r \in Replica, Serve(r) PROVE IInv'
  <2>1. PICK v \in 0..version : snap' = [snap EXCEPT ![r] = Snapshot(deployed[r], v, history[v])]
    BY <1>3 DEF Serve
  <2>2. UNCHANGED <<rows, version, fresh, history, deployed>>
    BY <1>3 DEF Serve
  <2>3. Snapshot(deployed[r], v, history[v]) \in Snapshots
    BY SnapshotType DEF IInv, TypeOK
  <2>4. TypeOK'
    BY <2>1, <2>2, <2>3 DEF IInv, TypeOK
  <2>5. SnapshotIsItsVersion'
    <3>1. Snapshot(deployed[r], v, history[v]).version = v
      BY DEF Snapshot
    <3>2. snap \in [Replica -> Snapshots \cup {NoSnapshot}]
      BY DEF IInv, TypeOK
    <3>3. \A q \in Replica : snap'[q] = IF q = r THEN Snapshot(deployed[r], v, history[v]) ELSE snap[q]
      BY <2>1, <3>2
    <3> HIDE DEF Snapshot
    <3> QED BY <2>2, <3>1, <3>3 DEF IInv, SnapshotIsItsVersion
  <2> QED BY <2>2, <2>4, <2>5 DEF IInv, LastVersionIsRows, GenerationsDrawn, StampsNeverReturn
<1>4. ASSUME NEW r \in Replica, NEW d \in Deployment, Restart(r, d) PROVE IInv'
  <2>1. TypeOK'
    BY <1>4 DEF IInv, TypeOK, Restart
  <2>2. SnapshotIsItsVersion'
    BY <1>4 DEF IInv, TypeOK, Restart, SnapshotIsItsVersion
  <2> QED BY <1>4, <2>1, <2>2
          DEF Restart, IInv, LastVersionIsRows, GenerationsDrawn, StampsNeverReturn
<1>5. CASE UNCHANGED targetVars
  BY <1>5 DEF targetVars, IInv, TypeOK, LastVersionIsRows, GenerationsDrawn,
              SnapshotIsItsVersion, StampsNeverReturn
<1> QED BY <1>1, <1>2, <1>3, <1>4, <1>5 DEF Next

\* The inductive invariant: the last version is the table, every generation in
\* the history is drawn, and the three promises below.
THEOREM RegistryInvariant == Spec => []IInv
BY InitInvariant, NextInvariant, PTL DEF Spec

\* The types of the table, its history and the snapshots served.
THEOREM TypeCorrect == Spec => []TypeOK
<1>1. IInv => TypeOK
  BY DEF IInv
<1> QED BY <1>1, RegistryInvariant, PTL

\* Every snapshot served is the table at its version, merged with the replica's
\* configuration (Rebuild reads version and rows in one snapshot).
THEOREM SnapshotsAreVersions == Spec => []SnapshotIsItsVersion
<1>1. IInv => SnapshotIsItsVersion
  BY DEF IInv
<1> QED BY <1>1, RegistryInvariant, PTL

\* A stamp that is no longer a target's never is again, through any sequence of
\* edits, removals and creations under the same name.
THEOREM StampsAreUsedOnce == Spec => []StampsNeverReturn
<1>1. IInv => StampsNeverReturn
  BY DEF IInv
<1> QED BY <1>1, RegistryInvariant, PTL

\* No replica goes back to an older version while it runs.
THEOREM SnapshotsNeverOlder == Spec => SnapshotNeverOlder
<1> DEFINE Step == \A r \in Replica : snap[r] # NoSnapshot /\ snap'[r] # NoSnapshot =>
                       snap[r].version <= snap'[r].version
<1>1. IInv /\ [Next]_targetVars => [Step]_targetVars
  <2> SUFFICES ASSUME IInv, Next, NEW q \in Replica, snap[q] # NoSnapshot, snap'[q] # NoSnapshot
               PROVE  snap[q].version <= snap'[q].version
    OBVIOUS
  <2>1. snap \in [Replica -> Snapshots \cup {NoSnapshot}] /\ snap[q].version \in Nat
    BY DEF IInv, TypeOK, Snapshots
  <2>2. ASSUME NEW n \in Name, NEW row, Install(n, row) PROVE snap' = snap
    BY <2>2 DEF Install
  <2>3. CASE snap' = snap
    BY <2>1, <2>3
  <2>4. ASSUME NEW r \in Replica, Serve(r) PROVE snap[q].version <= snap'[q].version
    <3>1. PICK v \in 0..version : /\ snap[r] # NoSnapshot => snap[r].version <= v
                                  /\ snap' = [snap EXCEPT ![r] = Snapshot(deployed[r], v, history[v])]
      BY <2>4 DEF Serve
    <3>2. Snapshot(deployed[r], v, history[v]).version = v
      BY DEF Snapshot
    <3> HIDE DEF Snapshot
    <3> QED BY <2>1, <3>1, <3>2
  <2>5. ASSUME NEW r \in Replica, NEW d \in Deployment, Restart(r, d)
        PROVE  snap[q].version <= snap'[q].version
    BY <2>1, <2>5 DEF Restart
  <2> QED BY <2>2, <2>3, <2>4, <2>5 DEF Next, Remove, Put
<1> QED BY <1>1, RegistryInvariant, PTL DEF Spec, SnapshotNeverOlder
==============================================================================
