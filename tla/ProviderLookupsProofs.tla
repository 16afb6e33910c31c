------------------------ MODULE ProviderLookupsProofs ------------------------
(***************************************************************************)
(* Discovery and client documents, for any number of requests and any      *)
(* lifetimes: who is refused for the provider's sake, and who may ask the  *)
(* provider again while it is down.                                        *)
(*                                                                         *)
(* BackOffHolds is about a step; what carries it is that, during the       *)
(* back-off, nobody is on the way to a fetch but who was under way when    *)
(* the last one failed (OnlyEarlyJoin).                                    *)
(***************************************************************************)
EXTENDS ProviderLookups, TLAPS

\* The parts of the type invariant that the argument needs.
Shapes ==
    /\ meta \in Age \cup {None}
    /\ failed \in 0..RetryAfter \cup {None}
    /\ fetching \in BOOLEAN
    /\ stage \in [Caller -> Stages]
    /\ seen \in [Caller -> Age \cup {None}]

\* Without an outage no failure is remembered.
NoFailureWithoutOutage == outage = "never" => failed = None

BackingOff == failed # None /\ failed < RetryAfter

OnlyEarlyJoin == BackingOff => \A c \in Caller : stage[c] = "join" => c \in early

IInv ==
    /\ Shapes
    /\ OutagesAreSurvived
    /\ NobodyPaysForAHangUp
    /\ NoFailureWithoutOutage
    /\ OnlyEarlyJoin

USE LookupsAssumption DEF Age, Stages, BackingOff, upstreamVars, cimdVars, callerVars

-----------------------------------------------------------------------------
LEMMA InitInvariant == Init => IInv
BY DEF Init, IInv, Shapes, OutagesAreSurvived, NobodyPaysForAHangUp, NoFailureWithoutOutage, OnlyEarlyJoin

LEMMA Ages ==
    /\ MaxStale \in Nat \ {0} /\ RetryAfter \in Nat \ {0} /\ TTL \in Nat /\ TTL < MaxStale
    /\ 0 \in Age /\ None \notin Int
    /\ \A cap \in Nat : \A age \in 0..cap \cup {None} :
          /\ Older(age, cap) \in 0..cap \cup {None}
          /\ Older(age, cap) = None <=> age = None
          /\ age # None => age <= Older(age, cap)
BY DEF Older

\* Time ages what is held and what callers on their way to a fetch have read;
\* the back-off only ends by it.
LEMMA TickKeeps == ASSUME IInv, Tick PROVE IInv'
<1> USE Ages DEF IInv, Tick
<1>1. Shapes'
  <2>1. meta' \in Age \cup {None} /\ failed' \in 0..RetryAfter \cup {None}
      BY DEF Shapes
  <2>2. seen' \in [Caller -> Age \cup {None}]
      BY DEF Shapes
  <2> QED BY <2>1, <2>2 DEF Shapes
<1>2. OutagesAreSurvived'
    BY DEF OutagesAreSurvived, Usable
<1>3. NobodyPaysForAHangUp' /\ NoFailureWithoutOutage'
    BY DEF NobodyPaysForAHangUp, NoFailureWithoutOutage, Older
<1>4. OnlyEarlyJoin'
  <2>1. BackingOff' => BackingOff
      BY DEF Shapes
  <2> QED BY <2>1 DEF OnlyEarlyJoin
<1> QED BY <1>1, <1>2, <1>3, <1>4

\* A step of one request that leaves discovery alone keeps the invariant if it
\* goes nowhere near the provider, or holds what it read.
LEMMA CallerMoves ==
    ASSUME IInv, NEW c \in Caller, NEW to \in Stages, NEW age \in Age \cup {None},
           stage' = [stage EXCEPT ![c] = to], seen' = [seen EXCEPT ![c] = age],
           UNCHANGED <<outage, meta, failed>>, fetching' \in BOOLEAN,
           \A e \in Caller : e # c /\ e \in early => e \in early',
           to = "page" => Usable(age),
           to = "refused" => ~Usable(age) /\ failed # None,
           to = "join" => ~BackingOff
    PROVE  IInv'
<1> USE DEF IInv
<1>1. Shapes'
    BY DEF Shapes
<1>2. OutagesAreSurvived' /\ NobodyPaysForAHangUp' /\ NoFailureWithoutOutage'
    BY DEF Shapes, OutagesAreSurvived, NobodyPaysForAHangUp, NoFailureWithoutOutage, Usable
<1>3. OnlyEarlyJoin'
    BY DEF Shapes, OnlyEarlyJoin
<1> QED BY <1>1, <1>2, <1>3

LEMMA ReadKeeps == ASSUME IInv, NEW c \in Caller, Read(c) PROVE IInv'
<1>1. PICK to \in {"page", "refused", "join"} :
          /\ stage' = [stage EXCEPT ![c] = to] /\ seen' = [seen EXCEPT ![c] = meta]
          /\ to = "page" => Usable(meta)
          /\ to = "refused" => ~Usable(meta) /\ failed # None
          /\ to = "join" => ~BackingOff
  <2>1. meta # None /\ meta < TTL => Usable(meta)
      BY Ages DEF IInv, Shapes, Usable
  <2> QED BY <2>1 DEF Read, Holds
<1>2. meta \in Age \cup {None} /\ fetching \in BOOLEAN
    BY DEF IInv, Shapes
<1> QED BY <1>1, <1>2, CallerMoves DEF Read

LEMMA OtherMovesKeep ==
    ASSUME IInv, NEW c \in Caller,
           \/ Join(c) \/ Answer(c) \/ HangUp(c) \/ FetchEnds(c)
           \/ \E id \in ClientId : Ask(c, id)
    PROVE  IInv'
<1>1. seen[c] \in Age \cup {None} /\ seen = [seen EXCEPT ![c] = seen[c]] /\ fetching \in BOOLEAN
    BY DEF IInv, Shapes
<1>2. CASE Join(c)
    BY <1>1, <1>2, CallerMoves DEF Join, Goes
<1>3. CASE Answer(c)
    BY <1>1, <1>3, CallerMoves DEF Answer
<1>4. CASE HangUp(c)
    BY <1>1, <1>4, CallerMoves DEF HangUp, Goes
<1>5. CASE FetchEnds(c)
    BY <1>1, <1>5, CallerMoves DEF FetchEnds, StoreDocument, FetchFails, Goes
<1>6. ASSUME NEW id \in ClientId, Ask(c, id) PROVE IInv'
    BY <1>1, <1>6, CallerMoves DEF Ask
<1> QED BY <1>2, <1>3, <1>4, <1>5, <1>6

\* A fetch that succeeds gives everyone who waits a new document.
LEMMA FetchedKeeps == ASSUME IInv, Fetched PROVE IInv'
<1> USE Ages DEF IInv, Fetched, Waiting
<1>1. Shapes'
    BY DEF Shapes
<1>2. OutagesAreSurvived'
    BY DEF Shapes, OutagesAreSurvived, Usable
<1>3. NobodyPaysForAHangUp' /\ NoFailureWithoutOutage' /\ OnlyEarlyJoin'
    BY DEF Shapes, NobodyPaysForAHangUp, NoFailureWithoutOutage, OnlyEarlyJoin
<1> QED BY <1>1, <1>2, <1>3

\* One that fails takes down who holds nothing usable; it marks every request
\* under way, those on the way to a fetch among them.
LEMMA DiscoveryFailsKeeps == ASSUME IInv, DiscoveryFails PROVE IInv'
<1> USE Ages DEF IInv, DiscoveryFails, DiscoveryFailed, Waiting
<1>1. Shapes'
  <2>1. meta' \in Age \cup {None} /\ fetching' \in BOOLEAN
      BY DEF Shapes
  <2>2. failed' \in 0..RetryAfter
      OBVIOUS
  <2>3. stage' \in [Caller -> Stages]
      BY DEF Shapes
  <2>4. seen' \in [Caller -> Age \cup {None}]
      BY DEF Shapes
  <2> QED BY <2>1, <2>2, <2>3, <2>4 DEF Shapes
<1>2. OutagesAreSurvived'
    BY DEF Shapes, OutagesAreSurvived, Usable
<1>3. NobodyPaysForAHangUp' /\ NoFailureWithoutOutage'
    BY DEF NobodyPaysForAHangUp, NoFailureWithoutOutage
<1>4. OnlyEarlyJoin'
    BY DEF Shapes, OnlyEarlyJoin
<1> QED BY <1>1, <1>2, <1>3, <1>4

LEMMA NextKeeps == IInv /\ [Next]_vars => IInv'
<1> SUFFICES ASSUME IInv, [Next]_vars PROVE IInv'
    OBVIOUS
<1>1. CASE Mend \/ UNCHANGED vars
    BY <1>1 DEF IInv, Mend, vars, Shapes, OutagesAreSurvived, NobodyPaysForAHangUp,
                NoFailureWithoutOutage, OnlyEarlyJoin
<1>2. ASSUME NEW c \in Caller, Step(c) \/ FetchEnds(c) \/ HangUp(c) \/ \E id \in ClientId : Ask(c, id)
      PROVE  IInv'
    BY <1>2, ReadKeeps, OtherMovesKeep DEF Step
<1> QED BY <1>1, <1>2, TickKeeps, FetchedKeeps, DiscoveryFailsKeeps DEF Next

-----------------------------------------------------------------------------
\* The invariant the others are parts of.
THEOREM LookupsInvariant == Spec => []IInv
BY InitInvariant, NextKeeps, PTL DEF Spec

\* An outage takes no request down that holds a document which is not too old,
\* and no request goes on with one that is: by the back-off, by a fetch that
\* fails while it waits, or after one (Meta).
THEOREM DocumentsOutliveOutages == Spec => []OutagesAreSurvived
BY LookupsInvariant, PTL DEF IInv

\* As long as the provider answers, no sign-in is refused for its sake, whoever
\* hangs up while a fetch runs (WithoutCancel in Meta).
THEOREM HangUpsHarmNobodyElse == Spec => []NobodyPaysForAHangUp
BY LookupsInvariant, PTL DEF IInv

\* During the back-off a fetch starts only for a request that was under way
\* when the last one failed (discoveryRetryAfter).
THEOREM OutagesAreNotHammered == Spec => BackOffHolds
<1> DEFINE Quiet == ~fetching /\ fetching' /\ failed # None /\ failed < RetryAfter =>
                        \E c \in early : stage[c] = "join" /\ stage'[c] = "wait"
<1>1. IInv /\ [Next]_vars => [Quiet]_vars
  <2> SUFFICES ASSUME IInv, Next, ~fetching, fetching', BackingOff
               PROVE  \E c \in early : stage[c] = "join" /\ stage'[c] = "wait"
      BY DEF IInv, Shapes
  <2>1. PICK c \in Caller : Join(c)
      BY DEF Next, Step, FetchEnds, Tick, Mend, Fetched, DiscoveryFails, DiscoveryFailed, Read,
             Answer, HangUp, StoreDocument, FetchFails, Ask
  <2>2. stage[c] = "join" /\ stage'[c] = "wait" /\ c \in early
      BY <2>1 DEF IInv, Shapes, OnlyEarlyJoin, Join, Goes
  <2> QED BY <2>2
<1> QED BY <1>1, LookupsInvariant, PTL DEF Spec, BackOffHolds
=============================================================================
