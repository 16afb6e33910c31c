----------------------------- MODULE StraySweep -----------------------------
(***************************************************************************)
(* Credentials of config targets have no lifetime: they go when nobody has *)
(* saved them, and no process has served their definition, for a week.     *)
(* What is served is known from stamp_seen, which each process writes at   *)
(* the start of a sweep pass, its first when it boots. Rolling deploys,    *)
(* canaries and rollbacks run two configurations side by side.             *)
(*                                                                         *)
(* A tick of the clock is longer than a statement and shorter than a pass  *)
(* may take. A pass that is due begins before the next tick.               *)
(***************************************************************************)
EXTENDS Integers

CONSTANTS
    Process,
    Stamp,        \* stamps of config definitions
    Deployment,   \* the sets of them a process may be configured with
    Age,          \* strayCredentialAge
    SeenKept,     \* how long Sweep keeps a row of stamp_seen
    Interval,     \* sweepInterval
    MaxMissed,    \* bound: recordings of a process that fail in a row
    MaxTime,      \* bound: the clock
    Never

ASSUME StrayAssumption ==
    /\ Deployment \subseteq SUBSET Stamp
    /\ Age \in Nat /\ SeenKept \in Nat /\ Interval \in Nat \ {0}
    /\ MaxMissed \in Nat /\ MaxTime \in Nat
    /\ Never \notin Int
    \* "Long past the week the stray credential sweep looks back over": thirty
    \* days against a week and half an hour.
    /\ Age + Interval <= SeenKept

VARIABLES
    now,
    saved,      \* user_credentials.updated_at of each stamp, or Never
    seen,       \* table stamp_seen
    serves,     \* what each process serves; nothing when it is down
    due,        \* when its next pass begins
    stage,      \* where it is in its pass
    missed,     \* recordings that failed in a row
    known,      \* ghost: processes that have recorded what they serve
    served,     \* ghost: when a known process last served a stamp
    swept       \* ghost: processes whose last pass ended well

tableVars   == <<saved, seen>>
processVars == <<serves, due, stage, missed>>
ghosts      == <<known, served, swept>>
vars        == <<now, tableVars, processVars, ghosts>>

-----------------------------------------------------------------------------
(* State *)

Time == 0..MaxTime

\* expire: a pass whose recording failed.
Stages == {"down", "idle", "sweep", "expire", "stray"}

TypeOK ==
    /\ now \in Time
    /\ saved \in [Stamp -> Time \cup {Never}]
    /\ seen \in [Stamp -> Time \cup {Never}]
    /\ serves \in [Process -> SUBSET Stamp]
    /\ due \in [Process -> 0..(MaxTime + Interval)]
    /\ stage \in [Process -> Stages]
    /\ missed \in [Process -> 0..MaxMissed]
    /\ known \subseteq Process
    /\ served \in [Stamp -> Time \cup {Never}]
    /\ swept \subseteq Process
    /\ \A p \in Process : stage[p] = "down" => serves[p] = {} /\ p \notin known

Init ==
    /\ now = 0
    /\ saved = [s \in Stamp |-> Never]
    /\ seen = [s \in Stamp |-> Never]
    /\ serves = [p \in Process |-> {}]
    /\ due = [p \in Process |-> 0]
    /\ stage = [p \in Process |-> "down"]
    /\ missed = [p \in Process |-> 0]
    /\ known = {}
    /\ served = [s \in Stamp |-> Never]
    /\ swept = {}

\* Further back than age.
Past(t, age) == t = Never \/ t < now - age

Goes(p, from, to) == stage[p] = from /\ stage' = [stage EXCEPT ![p] = to]

ServedNow(s) == \E p \in known : s \in serves[p]

-----------------------------------------------------------------------------
(* The clock, deployments and the settings page *)

IsDue(p) == stage[p] = "idle" /\ due[p] <= now

Tick ==
    /\ now < MaxTime
    /\ \A p \in Process : ~IsDue(p) /\ (stage[p] \in {"sweep", "expire", "stray"} => now < due[p])
    /\ now' = now + 1
    /\ served' = [s \in Stamp |-> IF ServedNow(s) THEN now + 1 ELSE served[s]]
    /\ UNCHANGED <<tableVars, processVars, known, swept>>

\* A process starts, with the configuration it is given; its first pass begins.
Boot(p, deployment) ==
    /\ Goes(p, "down", "idle")
    /\ serves' = [serves EXCEPT ![p] = deployment]
    /\ due' = [due EXCEPT ![p] = now]
    /\ UNCHANGED <<now, tableVars, missed, ghosts>>

\* It is stopped, or ends, at any point of a pass.
Stop(p) ==
    /\ stage[p] # "down"
    /\ stage' = [stage EXCEPT ![p] = "down"]
    /\ serves' = [serves EXCEPT ![p] = {}]
    /\ due' = [due EXCEPT ![p] = 0]
    /\ missed' = [missed EXCEPT ![p] = 0]
    /\ known' = known \ {p}
    /\ swept' = swept \ {p}
    /\ UNCHANGED <<now, tableVars, served>>

\* PutUserCredential, through a process that serves the definition.
Save(p, s) ==
    /\ s \in serves[p]
    /\ saved' = [saved EXCEPT ![s] = now]
    /\ UNCHANGED <<now, seen, processVars, ghosts>>

\* DeleteUserCredential.
Clear(p, s) ==
    /\ s \in serves[p] /\ saved[s] # Never
    /\ saved' = [saved EXCEPT ![s] = Never]
    /\ UNCHANGED <<now, seen, processVars, ghosts>>

-----------------------------------------------------------------------------
(* A pass: sweepOnce *)

RecordServedStamps(p) ==
    seen' = [s \in Stamp |-> IF s \in serves[p] THEN now ELSE seen[s]]

Record(p) ==
    /\ IsDue(p)
    /\ Goes(p, "idle", "sweep")
    /\ due' = [due EXCEPT ![p] = now + Interval]
    /\ RecordServedStamps(p)
    /\ missed' = [missed EXCEPT ![p] = 0]
    /\ known' = known \cup {p}
    /\ served' = [s \in Stamp |-> IF s \in serves[p] THEN now ELSE served[s]]
    /\ UNCHANGED <<now, saved, serves, swept>>

\* Variant: the stray sweep runs whether or not the recording did.
RecordFails_SweepsOn(p) ==
    /\ IsDue(p) /\ missed[p] < MaxMissed
    /\ Goes(p, "idle", "sweep")
    /\ due' = [due EXCEPT ![p] = now + Interval]
    /\ missed' = [missed EXCEPT ![p] = @ + 1]
    /\ known' = known \cup {p}
    /\ UNCHANGED <<now, tableVars, serves, served, swept>>

\* The recording fails, or its answer is lost: this pass has no stray sweep.
RecordFails(p) ==
    /\ IsDue(p) /\ missed[p] < MaxMissed
    /\ Goes(p, "idle", "expire")
    /\ due' = [due EXCEPT ![p] = now + Interval]
    /\ RecordServedStamps(p) \/ UNCHANGED seen
    /\ missed' = [missed EXCEPT ![p] = @ + 1]
    /\ swept' = swept \ {p}
    /\ UNCHANGED <<now, saved, serves, known, served>>

\* Sweep forgets old recordings, and the rows Retention models. It may fail on
\* the way to that statement; what is left of the pass follows all the same.
Sweep(p) ==
    /\ Goes(p, "sweep", "stray") \/ Goes(p, "expire", "idle")
    /\ seen' \in {seen, [s \in Stamp |-> IF Past(seen[s], SeenKept) THEN Never ELSE seen[s]]}
    /\ UNCHANGED <<now, saved, serves, due, missed, ghosts>>

\* Variant: a definition once seen keeps its credentials until the row goes.
Stray_NeverSeen(s) == Past(saved[s], Age) /\ seen[s] = Never

\* Not saved and not seen for Age.
Stray(s) == Past(saved[s], Age) /\ ~ (seen[s] # Never /\ seen[s] > now - Age)

\* One DELETE.
SweepStrayCredentials(p) ==
    /\ Goes(p, "stray", "idle")
    /\ saved' = [s \in Stamp |-> IF Stray(s) THEN Never ELSE saved[s]]
    /\ swept' = swept \cup {p}
    /\ UNCHANGED <<now, seen, serves, due, missed, known, served>>

StrayFails(p) ==
    /\ Goes(p, "stray", "idle")
    /\ swept' = swept \ {p}
    /\ UNCHANGED <<now, tableVars, serves, due, missed, known, served>>

-----------------------------------------------------------------------------
Next ==
    \/ Tick
    \/ \E p \in Process :
        \/ \E deployment \in Deployment : Boot(p, deployment)
        \/ Stop(p)
        \/ \E s \in Stamp : Save(p, s) \/ Clear(p, s)
        \/ Record(p) \/ RecordFails(p) \/ Sweep(p) \/ SweepStrayCredentials(p) \/ StrayFails(p)

Spec == Init /\ [][Next]_vars

-----------------------------------------------------------------------------
(* Properties *)

Sweeps(p) == stage[p] = "stray" /\ stage'[p] = "idle"

\* How far what is recorded may be behind what is served: a process is stopped
\* just before the recording that would have ended a row of failures.
Lag == (MaxMissed + 1) * Interval

\* No sweep takes a credential whose definition a process has served within the
\* last Age, give or take the Lag of the recordings, whichever process sweeps:
\* a rolling deploy, a canary or a rollback finds what was saved before it.
ServedIsKept ==
    [][\A p \in Process, s \in Stamp :
        Sweeps(p) /\ saved[s] # Never /\ saved'[s] = Never /\ served[s] # Never
            => served[s] <= now - Age + Lag]_vars

\* A credential that is stray for longer than a pass takes to come round is
\* gone, wherever some process completes its passes; the other processes and
\* their failures do not keep it.
StrayIsGone ==
    (\E p \in swept : stage[p] = "idle" /\ missed[p] = 0) =>
        \A s \in Stamp : saved[s] # Never =>
            \/ ~Past(saved[s], Age + Interval)
            \/ ~Past(seen[s], Age + Interval)
=============================================================================
