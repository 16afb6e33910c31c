------------------------------- MODULE Stamps -------------------------------
(***************************************************************************)
(* Target definitions, the stamps that name them (stamp.go) and the        *)
(* snapshot a replica builds from the database and its own configuration   *)
(* (registry.go: merge, usable, newSnapshot, behind).                      *)
(*                                                                         *)
(* A definition (Def) stands for what a stamp covers besides the name:     *)
(* upstream URL, credential mode and per-user fields. An access rule       *)
(* (Access) stands for what it leaves out: allowed groups, display name.   *)
(***************************************************************************)
EXTENDS Naturals

CONSTANTS
    Name,          \* target names
    Def,           \* definitions
    Url,           \* upstream URLs
    UrlOf,         \* the upstream URL of each definition
    ModeOf,        \* the credential mode of each definition
    Access,        \* access rules
    Replica,       \* replicas of the proxy
    Deployment,    \* configurations a replica may be started with
    NoRow, NoTarget, NoEntry, NoSnapshot

Mode == {"provider_token", "static", "per_user"}

ConfigTarget == [def : Def, access : Access]

ASSUME ConstantsAssumption ==
    /\ UrlOf \in [Def -> Url]
    /\ ModeOf \in [Def -> Mode]
    /\ NoTarget \notin ConfigTarget
    /\ Deployment \subseteq [targets : [Name -> ConfigTarget \cup {NoTarget}], refuses : SUBSET Def]

IsStatic(def) == ModeOf[def] = "static"

\* Target.Stamp. A config target ignores the generation it carries.
AdminStamp(n, gen, def) == <<"admin", n, gen, def>>
ConfigStamp(n, def)     == <<"config", n, 0, def>>

\* The stamp of a row of the targets table.
RowStamp(n, row) == AdminStamp(n, row.gen, row.def)

Stamp == {"admin", "config"} \X Name \X Nat \X Def

IsAdminStamp(stamp) == stamp[1] = "admin"
NameOf(stamp) == stamp[2]
DefOf(stamp)  == stamp[4]

Entry == [stamp : Stamp, access : Access]

ASSUME NoEntryAssumption == NoEntry \notin Entry

FromAdmin(entry) == IsAdminStamp(entry.stamp)

\* merge and usable: a row holds its name whether or not this deployment
\* accepts its definition, so a config target of that name is left out.
Serves(d, n, row) ==
    IF row # NoRow
    THEN IF row.def \in d.refuses THEN NoEntry
         ELSE [stamp |-> RowStamp(n, row), access |-> row.access]
    ELSE IF d.targets[n] # NoTarget
         THEN [stamp |-> ConfigStamp(n, d.targets[n].def), access |-> d.targets[n].access]
         ELSE NoEntry

Snapshot(d, v, rs) ==
    [version |-> v,
     entries |-> [n \in Name |-> Serves(d, n, rs[n])],
     ignored |-> {n \in Name : rs[n] # NoRow /\ d.targets[n] # NoTarget}]

Snapshots ==
    [version : Nat, entries : [Name -> Entry \cup {NoEntry}], ignored : SUBSET Name]

ASSUME NoSnapshotAssumption == NoSnapshot \notin Snapshots

\* A config target has the name, whether it is served or outranked.
ConfigHolds(s, n) ==
    \/ s.entries[n] # NoEntry /\ ~FromAdmin(s.entries[n])
    \/ n \in s.ignored

\* entry.behind: the database, whose row under the name is row, may hold a
\* newer definition than this entry.
Behind(n, entry, row) ==
    IF entry # NoEntry /\ FromAdmin(entry)
    THEN row = NoRow \/ RowStamp(n, row) # entry.stamp
    ELSE row # NoRow
=============================================================================
