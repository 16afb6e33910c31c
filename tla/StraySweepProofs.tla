-------------------------- MODULE StraySweepProofs --------------------------
(***************************************************************************)
(* The stray credential sweep, for any number of processes, definitions    *)
(* and deployments, and any lifetimes.                                     *)
(*                                                                         *)
(* The argument: a pass begins no later than the tick it is due at         *)
(* (PassesArePaced), so what a process serves was recorded no longer ago   *)
(* than its failures allow (ServingIsRecorded), and what was last served   *)
(* is known from stamp_seen or is long ago (SeenFollowsServed).            *)
(***************************************************************************)
EXTENDS StraySweep, TLAPS

\* No pass is begun late or runs into the next.
PassesArePaced ==
    \A p \in Process : stage[p] # "down" => now <= due[p] /\ due[p] <= now + Interval

\* Nothing is recorded or served in the future.
RecordsArePast ==
    \A s \in Stamp :
        /\ saved[s] # Never => saved[s] <= now
        /\ seen[s] # Never => seen[s] <= now
        /\ served[s] # Never => served[s] <= now

\* A process that has recorded what it serves did so before its failures in a
\* row, unless these are allowed to outlast what Sweep keeps.
ServingIsRecorded ==
    Lag < SeenKept =>
        \A p \in known : \A s \in serves[p] :
            seen[s] # Never /\ due[p] <= seen[s] + (missed[p] + 1) * Interval

\* What was served is recorded to within the Lag, or was served so long ago that
\* Sweep has forgotten it.
SeenFollowsServed ==
    \A s \in Stamp : served[s] # Never =>
        \/ seen[s] # Never /\ served[s] <= seen[s] + Lag
        \/ served[s] <= now - SeenKept + Lag

\* After a pass that ended well, what is left was saved or seen not long before
\* that pass.
PassesLeaveNoStray ==
    \A p \in swept :
        /\ stage[p] \notin {"down", "expire"}
        /\ stage[p] = "idle" =>
               \A s \in Stamp : saved[s] # Never =>
                   \/ due[p] <= saved[s] + Age + Interval
                   \/ seen[s] # Never /\ due[p] <= seen[s] + Age + Interval

IInv ==
    /\ TypeOK
    /\ PassesArePaced
    /\ RecordsArePast
    /\ ServingIsRecorded
    /\ SeenFollowsServed
    /\ PassesLeaveNoStray

USE StrayAssumption DEF Time

-----------------------------------------------------------------------------
(* Arithmetic *)

\* What a number of failures in a row may cost.
LEMMA Costs ==
    ASSUME NEW k \in 0..MaxMissed
    PROVE  /\ (k + 1) * Interval \in Nat /\ Lag \in Nat
           /\ (k + 1) * Interval <= Lag
           /\ (k + 1 + 1) * Interval = (k + 1) * Interval + Interval
           /\ (0 + 1) * Interval = Interval
<1>1. Lag = (k + 1) * Interval + (MaxMissed - k) * Interval
    BY DEF Lag
<1>2. MaxMissed - k \in Nat
    OBVIOUS
<1>3. (MaxMissed - k) * Interval \in Nat
    BY <1>2
<1>4. (k + 1) * Interval \in Nat
    OBVIOUS
<1> QED BY <1>1, <1>3, <1>4

LEMMA Types ==
    ASSUME TypeOK
    PROVE  /\ now \in Nat
           /\ \A s \in Stamp : saved[s] # Never => saved[s] \in Nat
           /\ \A s \in Stamp : seen[s] # Never => seen[s] \in Nat
           /\ \A s \in Stamp : served[s] # Never => served[s] \in Nat
           /\ \A p \in Process : due[p] \in Nat /\ missed[p] \in 0..MaxMissed /\ serves[p] \subseteq Stamp
           /\ \A p \in known : p \in Process /\ stage[p] # "down"
           /\ swept \subseteq Process
BY DEF TypeOK

-----------------------------------------------------------------------------
(* The first state and the clock *)

LEMMA InitInvariant == Init => IInv
<1> SUFFICES ASSUME Init PROVE IInv
    OBVIOUS
<1>1. TypeOK
    BY DEF Init, TypeOK, Stages
<1>2. PassesArePaced /\ RecordsArePast /\ ServingIsRecorded /\ SeenFollowsServed /\ PassesLeaveNoStray
    BY DEF Init, PassesArePaced, RecordsArePast, ServingIsRecorded, SeenFollowsServed, PassesLeaveNoStray
<1> QED BY <1>1, <1>2 DEF IInv

\* A process that is known and serves a definition has recorded it within the Lag,
\* unless that may outlast what is kept.
LEMMA ServedWithinLag ==
    ASSUME IInv, Lag < SeenKept, NEW p \in known, NEW s \in serves[p]
    PROVE  /\ s \in Stamp /\ seen[s] \in Nat /\ seen[s] # Never
           /\ due[p] <= seen[s] + Lag /\ now <= due[p]
<1>1. /\ p \in Process /\ stage[p] # "down" /\ s \in Stamp /\ missed[p] \in 0..MaxMissed
      /\ due[p] \in Nat /\ now \in Nat
    BY Types DEF IInv
<1>2. seen[s] # Never /\ due[p] <= seen[s] + (missed[p] + 1) * Interval /\ seen[s] \in Nat
    BY <1>1, Types DEF IInv, ServingIsRecorded
<1>3. now <= due[p]
    BY <1>1 DEF IInv, PassesArePaced
<1>4. (missed[p] + 1) * Interval \in Nat /\ (missed[p] + 1) * Interval <= Lag /\ Lag \in Nat
    BY <1>1, Costs
<1> QED BY <1>1, <1>2, <1>3, <1>4

LEMMA TickKeeps == ASSUME IInv, Tick PROVE IInv'
<1> USE Types DEF IInv, Tick, tableVars, processVars
<1>1. TypeOK'
    BY DEF TypeOK, ServedNow
<1>2. PassesArePaced'
    BY DEF PassesArePaced, IsDue, TypeOK, Stages
<1>3. RecordsArePast'
    BY DEF RecordsArePast
<1>4. ServingIsRecorded' /\ PassesLeaveNoStray'
    BY DEF ServingIsRecorded, PassesLeaveNoStray
<1>5. SeenFollowsServed'
  <2> SUFFICES ASSUME NEW s \in Stamp, served'[s] # Never
               PROVE  \/ seen[s] # Never /\ served'[s] <= seen[s] + Lag
                      \/ served'[s] <= now' - SeenKept + Lag
      BY DEF SeenFollowsServed
  <2>1. Lag \in Nat
      BY Costs
  <2>2. CASE ~ServedNow(s)
      BY <2>1, <2>2 DEF SeenFollowsServed
  <2>3. CASE ServedNow(s) /\ ~(Lag < SeenKept)
      BY <2>1, <2>3
  <2>4. CASE ServedNow(s) /\ Lag < SeenKept
    <3>1. PICK p \in known : s \in serves[p]
        BY <2>4 DEF ServedNow
    <3>2. seen[s] # Never /\ seen[s] \in Nat /\ due[p] <= seen[s] + Lag
        BY <2>4, <3>1, ServedWithinLag
    <3>3. now' <= due[p] /\ due[p] \in Nat
        BY <1>2, <3>1 DEF PassesArePaced
    <3> QED BY <2>1, <2>4, <3>2, <3>3
  <2> QED BY <2>2, <2>3, <2>4
<1> QED BY <1>1, <1>2, <1>3, <1>4, <1>5

-----------------------------------------------------------------------------
(* Deployments and the settings page *)

LEMMA BootKeeps == ASSUME IInv, NEW p \in Process, NEW deployment \in Deployment, Boot(p, deployment) PROVE IInv'
<1> USE Types DEF IInv, Boot, Goes, tableVars, ghosts
<1>1. TypeOK'
    BY DEF TypeOK, Stages
<1>2. p \notin known /\ p \notin swept
    BY DEF TypeOK, PassesLeaveNoStray
<1>3. PassesArePaced' /\ RecordsArePast' /\ SeenFollowsServed'
    BY DEF PassesArePaced, RecordsArePast, SeenFollowsServed, TypeOK
<1>4. ServingIsRecorded'
    BY <1>2 DEF ServingIsRecorded, TypeOK
<1>5. PassesLeaveNoStray'
    BY <1>2 DEF PassesLeaveNoStray, TypeOK
<1> QED BY <1>1, <1>3, <1>4, <1>5

LEMMA StopKeeps == ASSUME IInv, NEW p \in Process, Stop(p) PROVE IInv'
<1> USE Types DEF IInv, Stop, tableVars
<1>1. TypeOK'
    BY DEF TypeOK, Stages
<1>2. PassesArePaced' /\ RecordsArePast' /\ SeenFollowsServed'
    BY DEF PassesArePaced, RecordsArePast, SeenFollowsServed, TypeOK
<1>3. ServingIsRecorded'
    BY DEF ServingIsRecorded, TypeOK
<1>4. PassesLeaveNoStray'
    BY DEF PassesLeaveNoStray, TypeOK
<1> QED BY <1>1, <1>2, <1>3, <1>4

LEMMA SaveKeeps ==
    ASSUME IInv, NEW p \in Process, NEW s \in Stamp, Save(p, s) \/ Clear(p, s) PROVE IInv'
<1> USE Types DEF IInv, Save, Clear, processVars, ghosts
<1>0. saved' = [saved EXCEPT ![s] = now] \/ saved' = [saved EXCEPT ![s] = Never]
    OBVIOUS
<1>1. TypeOK'
    BY <1>0 DEF TypeOK
<1>2. PassesArePaced' /\ RecordsArePast' /\ ServingIsRecorded' /\ SeenFollowsServed'
    BY <1>0 DEF PassesArePaced, RecordsArePast, ServingIsRecorded, SeenFollowsServed, TypeOK
<1>3. PassesLeaveNoStray'
  <2> SUFFICES ASSUME NEW q \in swept, stage[q] = "idle", NEW r \in Stamp, saved'[r] # Never
               PROVE  \/ due[q] <= saved'[r] + Age + Interval
                      \/ seen[r] # Never /\ due[q] <= seen[r] + Age + Interval
      BY DEF PassesLeaveNoStray
  <2>1. CASE r = s
    <3>1. saved'[r] = now /\ due[q] <= now + Interval /\ q \in Process
        BY <1>0, <2>1 DEF TypeOK, PassesArePaced
    <3> QED BY <3>1
  <2>2. CASE r # s
      BY <1>0, <2>2 DEF PassesLeaveNoStray, TypeOK
  <2> QED BY <2>1, <2>2
<1> QED BY <1>1, <1>2, <1>3

-----------------------------------------------------------------------------
(* A pass *)

\* The pass that is due begins at the tick it was due at.
LEMMA DueNow == ASSUME IInv, NEW p \in Process, IsDue(p) PROVE due[p] = now /\ now \in Nat
BY Types DEF IInv, IsDue, PassesArePaced

LEMMA RecordKeeps == ASSUME IInv, NEW p \in Process, Record(p) PROVE IInv'
<1> USE Types, DueNow DEF IInv, Record, RecordServedStamps, Goes
<1>1. TypeOK'
    BY DEF TypeOK, Stages, IsDue
<1>2. PassesArePaced' /\ RecordsArePast'
    BY DEF PassesArePaced, RecordsArePast, TypeOK
<1>3. ServingIsRecorded'
  <2> SUFFICES ASSUME Lag < SeenKept, NEW q \in known', NEW s \in serves[q]
               PROVE  seen'[s] # Never /\ due'[q] <= seen'[s] + (missed'[q] + 1) * Interval
      BY DEF ServingIsRecorded
  <2>1. q \in Process /\ s \in Stamp
      BY DEF TypeOK
  <2>2. CASE q = p
    <3>1. missed'[q] = 0 /\ due'[q] = now + Interval /\ seen'[s] = now
        BY <2>1, <2>2 DEF TypeOK
    <3>2. 0 \in 0..MaxMissed
        OBVIOUS
    <3> QED BY <3>1, <3>2, Costs
  <2>3. CASE q # p
    <3>1. q \in known /\ missed'[q] = missed[q] /\ due'[q] = due[q]
        BY <2>1, <2>3 DEF TypeOK
    <3>2. seen[s] # Never /\ due[q] <= seen[s] + (missed[q] + 1) * Interval /\ seen[s] <= now
        BY <2>1, <3>1 DEF ServingIsRecorded, RecordsArePast
    <3>3. seen'[s] \in {now, seen[s]} /\ (missed[q] + 1) * Interval \in Nat
        BY <2>1, Costs
    <3> QED BY <2>1, <3>1, <3>2, <3>3
  <2> QED BY <2>2, <2>3
<1>4. SeenFollowsServed'
  <2>1. Lag \in Nat
      BY Costs
  <2>2. ASSUME NEW s \in Stamp, served'[s] # Never
        PROVE  \/ seen'[s] # Never /\ served'[s] <= seen'[s] + Lag
               \/ served'[s] <= now - SeenKept + Lag
    <3>1. CASE s \in serves[p]
        BY <2>1, <2>2, <3>1
    <3>2. CASE s \notin serves[p]
        BY <2>1, <2>2, <3>2 DEF SeenFollowsServed
    <3> QED BY <3>1, <3>2
  <2> QED BY <2>2 DEF SeenFollowsServed
<1>5. PassesLeaveNoStray'
  <2> SUFFICES ASSUME NEW q \in swept
               PROVE  /\ stage'[q] \notin {"down", "expire"}
                      /\ stage'[q] = "idle" =>
                             \A s \in Stamp : saved[s] # Never =>
                                 \/ due'[q] <= saved[s] + Age + Interval
                                 \/ seen'[s] # Never /\ due'[q] <= seen'[s] + Age + Interval
      BY DEF PassesLeaveNoStray
  <2>1. CASE q = p
      BY <2>1 DEF TypeOK
  <2>2. CASE q # p
    <3>1. stage'[q] = stage[q] /\ due'[q] = due[q] /\ q \in Process
        BY <2>2 DEF TypeOK
    <3>2. \A s \in Stamp : seen'[s] = seen[s] \/ seen'[s] = now
        OBVIOUS
    <3>3. stage[q] = "idle" => due[q] <= now + Interval
        BY <3>1 DEF PassesArePaced
    <3> QED BY <3>1, <3>2, <3>3 DEF PassesLeaveNoStray
  <2> QED BY <2>1, <2>2
<1> QED BY <1>1, <1>2, <1>3, <1>4, <1>5

LEMMA RecordFailsKeeps == ASSUME IInv, NEW p \in Process, RecordFails(p) PROVE IInv'
<1> USE Types, DueNow DEF IInv, RecordFails, RecordServedStamps, Goes
<1>0. /\ \A s \in Stamp : seen'[s] = seen[s] \/ seen'[s] = now
      /\ seen' \in [Stamp -> Time \cup {Never}]
    BY DEF TypeOK
<1>1. TypeOK'
    BY <1>0 DEF TypeOK, Stages, IsDue
<1>2. PassesArePaced' /\ RecordsArePast'
    BY <1>0 DEF PassesArePaced, RecordsArePast, TypeOK
<1>3. ServingIsRecorded'
  <2> SUFFICES ASSUME Lag < SeenKept, NEW q \in known, NEW s \in serves[q]
               PROVE  seen'[s] # Never /\ due'[q] <= seen'[s] + (missed'[q] + 1) * Interval
      BY DEF ServingIsRecorded
  <2>1. q \in Process /\ s \in Stamp
      BY DEF TypeOK
  <2>2. /\ seen[s] # Never /\ due[q] <= seen[s] + (missed[q] + 1) * Interval
        /\ seen[s] <= now /\ seen[s] \in Nat
      BY <2>1 DEF ServingIsRecorded, RecordsArePast
  <2>3. seen'[s] \in Nat /\ seen[s] <= seen'[s] /\ seen'[s] # Never
      BY <1>0, <2>1, <2>2
  <2>4. /\ (missed[q] + 1) * Interval \in Nat
        /\ (missed[q] + 1 + 1) * Interval = (missed[q] + 1) * Interval + Interval
      BY <2>1, Costs
  <2>5. CASE q = p
    <3>1. missed'[q] = missed[q] + 1 /\ due'[q] = now + Interval /\ due[q] = now
        BY <2>5 DEF TypeOK
    <3> QED BY <2>2, <2>3, <2>4, <3>1
  <2>6. CASE q # p
    <3>1. missed'[q] = missed[q] /\ due'[q] = due[q] /\ due[q] \in Nat
        BY <2>1, <2>6 DEF TypeOK
    <3> QED BY <2>2, <2>3, <2>4, <3>1
  <2> QED BY <2>5, <2>6
<1>4. SeenFollowsServed'
  <2>1. Lag \in Nat
      BY Costs
  <2> QED BY <1>0, <2>1 DEF SeenFollowsServed, RecordsArePast
<1>5. PassesLeaveNoStray'
  <2> SUFFICES ASSUME NEW q \in swept, q # p
               PROVE  /\ stage'[q] \notin {"down", "expire"}
                      /\ stage'[q] = "idle" =>
                             \A s \in Stamp : saved[s] # Never =>
                                 \/ due'[q] <= saved[s] + Age + Interval
                                 \/ seen'[s] # Never /\ due'[q] <= seen'[s] + Age + Interval
      BY DEF PassesLeaveNoStray
  <2>1. stage'[q] = stage[q] /\ due'[q] = due[q] /\ q \in Process
      BY DEF TypeOK
  <2>2. stage[q] = "idle" => due[q] <= now + Interval
      BY <2>1 DEF PassesArePaced
  <2> QED BY <1>0, <2>1, <2>2 DEF PassesLeaveNoStray
<1> QED BY <1>1, <1>2, <1>3, <1>4, <1>5

\* What Sweep forgets of stamp_seen was seen too long ago to matter to anyone.
LEMMA SweepKeeps == ASSUME IInv, NEW p \in Process, Sweep(p) PROVE IInv'
<1> USE Types DEF IInv, Sweep, Goes, ghosts
<1>0. /\ \A s \in Stamp : seen'[s] = seen[s] \/ (seen'[s] = Never /\ (seen[s] # Never => seen[s] < now - SeenKept))
      /\ seen' \in [Stamp -> Time \cup {Never}]
      /\ stage'[p] \in {"stray", "idle"} /\ stage[p] \in {"sweep", "expire"}
      /\ \A q \in Process : q # p => stage'[q] = stage[q]
      /\ stage' \in [Process -> Stages]
    BY DEF TypeOK, Past, Stages
<1>1. TypeOK'
    BY <1>0 DEF TypeOK
<1>2. PassesArePaced' /\ RecordsArePast'
    BY <1>0 DEF PassesArePaced, RecordsArePast
<1>3. ServingIsRecorded'
  <2> SUFFICES ASSUME Lag < SeenKept, NEW q \in known, NEW s \in serves[q] PROVE seen'[s] = seen[s]
      BY DEF ServingIsRecorded
  <2>1. Lag \in Nat
      BY Costs
  <2> QED BY <1>0, <2>1, ServedWithinLag
<1>4. SeenFollowsServed'
  <2>1. Lag \in Nat
      BY Costs
  <2> QED BY <1>0, <2>1 DEF SeenFollowsServed
<1>5. PassesLeaveNoStray'
  <2>1. p \in swept => stage'[p] = "stray"
      BY DEF PassesLeaveNoStray, TypeOK
  <2> SUFFICES ASSUME NEW q \in swept, stage'[q] = "idle", NEW s \in Stamp, saved[s] # Never
               PROVE  \/ due[q] <= saved[s] + Age + Interval
                      \/ seen'[s] # Never /\ due[q] <= seen'[s] + Age + Interval
      BY <1>0, <2>1 DEF PassesLeaveNoStray
  <2>2. q \in Process /\ stage[q] = "idle"
      BY <1>0, <2>1
  <2>3. now <= due[q] /\ due[q] \in Nat
      BY <2>2 DEF PassesArePaced
  <2>4. \/ due[q] <= saved[s] + Age + Interval
        \/ seen[s] # Never /\ due[q] <= seen[s] + Age + Interval
      BY <2>2 DEF PassesLeaveNoStray
  <2> QED BY <1>0, <2>3, <2>4
<1> QED BY <1>1, <1>2, <1>3, <1>4, <1>5

\* The sweep leaves nothing that is stray now; its pass began at most now.
LEMMA StraySweepKeeps ==
    ASSUME IInv, NEW p \in Process, SweepStrayCredentials(p) \/ StrayFails(p) PROVE IInv'
<1> USE Types DEF IInv, SweepStrayCredentials, StrayFails, Goes, tableVars
<1>0. /\ \A s \in Stamp : saved'[s] = saved[s] \/ saved'[s] = Never
      /\ saved' \in [Stamp -> Time \cup {Never}]
      /\ stage[p] = "stray" /\ stage' = [stage EXCEPT ![p] = "idle"]
      /\ swept' \subseteq swept \cup {p}
      /\ p \in swept' => \A s \in Stamp : saved'[s] # Never => ~Stray(s)
      /\ UNCHANGED <<now, seen, serves, due, missed, known, served>>
    BY DEF TypeOK
<1>1. TypeOK'
    BY <1>0 DEF TypeOK, Stages
<1>2. PassesArePaced' /\ RecordsArePast' /\ SeenFollowsServed'
    BY <1>0 DEF PassesArePaced, RecordsArePast, SeenFollowsServed, TypeOK
<1>3. ServingIsRecorded'
    BY <1>0 DEF ServingIsRecorded
<1>4. PassesLeaveNoStray'
  <2> SUFFICES ASSUME NEW q \in swept'
               PROVE  /\ stage'[q] \notin {"down", "expire"}
                      /\ stage'[q] = "idle" =>
                             \A s \in Stamp : saved'[s] # Never =>
                                 \/ due[q] <= saved'[s] + Age + Interval
                                 \/ seen[s] # Never /\ due[q] <= seen[s] + Age + Interval
      BY <1>0 DEF PassesLeaveNoStray
  <2>1. CASE q = p
    <3>1. due[p] <= now + Interval /\ due[p] \in Nat /\ stage'[p] = "idle"
        BY <1>0 DEF PassesArePaced, TypeOK
    <3>2. ASSUME NEW s \in Stamp, saved'[s] # Never
          PROVE  \/ due[p] <= saved'[s] + Age + Interval
                 \/ seen[s] # Never /\ due[p] <= seen[s] + Age + Interval
      <4>1. ~Stray(s) /\ saved'[s] = saved[s]
          BY <1>0, <2>1, <3>2
      <4>2. now - Age <= saved[s] \/ (seen[s] # Never /\ now - Age < seen[s])
          BY <3>2, <4>1 DEF Stray, Past
      <4> QED BY <3>1, <3>2, <4>1, <4>2
    <3> QED BY <2>1, <3>1, <3>2
  <2>2. CASE q # p
      BY <1>0, <2>2 DEF PassesLeaveNoStray, TypeOK
  <2> QED BY <2>1, <2>2
<1> QED BY <1>1, <1>2, <1>3, <1>4

LEMMA NextKeeps == ASSUME IInv, [Next]_vars PROVE IInv'
<1>1. CASE UNCHANGED vars
    BY <1>1 DEF vars, tableVars, processVars, ghosts, IInv, TypeOK, PassesArePaced, RecordsArePast,
                ServingIsRecorded, SeenFollowsServed, PassesLeaveNoStray
<1> QED BY <1>1, TickKeeps, BootKeeps, StopKeeps, SaveKeeps, RecordKeeps, RecordFailsKeeps, SweepKeeps,
           StraySweepKeeps DEF Next

-----------------------------------------------------------------------------
(* Theorems *)

\* Every reachable state satisfies the inductive invariant.
THEOREM SweepInvariant == Spec => []IInv
BY InitInvariant, NextKeeps, PTL DEF Spec

\* Wherever some process completes its passes, a credential that has been
\* neither saved nor seen for Age and an Interval is gone, whatever the other
\* processes fail at (SweepStrayCredentials).
THEOREM StrayCredentialsGo == Spec => []StrayIsGone
<1>1. ASSUME IInv PROVE StrayIsGone
  <2> SUFFICES ASSUME NEW p \in swept, stage[p] = "idle", NEW s \in Stamp, saved[s] # Never
               PROVE  ~Past(saved[s], Age + Interval) \/ ~Past(seen[s], Age + Interval)
      BY DEF StrayIsGone
  <2>1. p \in Process /\ now <= due[p] /\ due[p] \in Nat /\ now \in Nat /\ saved[s] \in Nat
      BY <1>1, Types DEF IInv, PassesArePaced
  <2>2. \/ due[p] <= saved[s] + Age + Interval
        \/ seen[s] # Never /\ due[p] <= seen[s] + Age + Interval
      BY <1>1 DEF IInv, PassesLeaveNoStray
  <2>3. seen[s] # Never => seen[s] \in Nat
      BY <1>1, Types DEF IInv
  <2> QED BY <2>1, <2>2, <2>3 DEF Past
<1> QED BY <1>1, SweepInvariant, PTL

\* Whichever process sweeps, a credential whose definition any process has
\* served within the last Age, give or take the Lag, is kept (RecordServedStamps,
\* SweepStrayCredentials, the thirty days of Sweep).
THEOREM ServedCredentialsAreKept == Spec => ServedIsKept
<1> DEFINE Kept ==
        \A p \in Process, s \in Stamp :
            Sweeps(p) /\ saved[s] # Never /\ saved'[s] = Never /\ served[s] # Never
                => served[s] <= now - Age + Lag
<1>1. ASSUME IInv, [Next]_vars PROVE Kept
  <2> SUFFICES ASSUME NEW p \in Process, NEW s \in Stamp, Sweeps(p),
                      saved[s] # Never, saved'[s] = Never, served[s] # Never
               PROVE  served[s] <= now - Age + Lag
      OBVIOUS
  <2>0. stage \in [Process -> Stages] /\ saved \in [Stamp -> Time \cup {Never}] /\ now \in Nat /\ Lag \in Nat
      BY <1>1, Costs DEF IInv, TypeOK
  <2>1. SweepStrayCredentials(p)
    <3>1. ASSUME NEW q \in Process, SweepStrayCredentials(q) PROVE q = p
        BY <2>0, <3>1 DEF SweepStrayCredentials, Goes, Sweeps
    <3>2. ASSUME NEW q \in Process, NEW r \in Stamp, Save(q, r) \/ Clear(q, r) PROVE FALSE
        BY <3>2 DEF Save, Clear, processVars, Sweeps
    <3> QED BY <1>1, <3>1, <3>2 DEF Next, vars, tableVars, Tick, Boot, Stop, Record, RecordFails, Sweep, StrayFails
  <2>2. Stray(s)
      BY <2>1 DEF SweepStrayCredentials
  <2>3. (seen[s] = Never \/ seen[s] <= now - Age) /\ (seen[s] # Never => seen[s] \in Nat) /\ served[s] \in Nat
      BY <1>1, <2>0, <2>2, Types DEF IInv, Stray
  <2>4. \/ seen[s] # Never /\ served[s] <= seen[s] + Lag
        \/ served[s] <= now - SeenKept + Lag
      BY <1>1 DEF IInv, SeenFollowsServed
  <2> QED BY <2>0, <2>3, <2>4
<1>2. Kept => [Kept]_vars
    OBVIOUS
<1> QED BY <1>1, <1>2, SweepInvariant, PTL DEF Spec, ServedIsKept
=============================================================================
