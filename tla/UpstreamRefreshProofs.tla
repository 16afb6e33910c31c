------------------------ MODULE UpstreamRefreshProofs ------------------------
(***************************************************************************)
(* What UpstreamRefresh promises, for any number of requests, replicas,    *)
(* sessions and lock stripes. The argument: a request between Lock and     *)
(* Unlock holds its stripe, so two requests that are both there for one    *)
(* session are on two replicas, and the session is marked raced. For any   *)
(* other session there is at most one, and what it has in hand is what the *)
(* provider honours.                                                       *)
(***************************************************************************)
EXTENDS UpstreamRefresh, TLAPS

\* A request under way has a session and a pair.
InHand ==
    \A q \in Request : stage[q] # "idle" => session[q] \in Sid /\ token[q] \in Token

HoldsLock == \A q \in Request : stage[q] \in Inside => lock[LockOf(q)] = q

\* Two requests inside for one session are on two replicas, which is marked.
RacesAreMarked ==
    \A p, q \in Request :
        /\ stage[p] \in Inside /\ stage[q] \in Inside
        /\ session[p] = session[q] /\ session[p] \notin raced
        => p = q

\* What is in a row, or read from one, has been recorded.
KeptRows ==
    /\ \A s \in Sid : row[s] # Nothing => row[s] \in kept[s]
    /\ SentWasRecorded

\* The pair about to be presented is the provider's last, and has expired.
AboutToPresent ==
    \A q \in Request : stage[q] = "provider" =>
        /\ <<session[q], token[q].access>> \in expired
        /\ Undisturbed(session[q]) =>
            token[q] = [access |-> issued[session[q]], refresh |-> honoured[session[q]]]

\* So is the one about to be recorded.
AboutToRecord ==
    \A q \in Request : stage[q] = "write" /\ Undisturbed(session[q]) =>
        token[q] = [access |-> issued[session[q]], refresh |-> honoured[session[q]]]

IInv ==
    /\ TypeOK
    /\ InHand
    /\ HoldsLock
    /\ RacesAreMarked
    /\ KeptRows
    /\ AboutToPresent
    /\ AboutToRecord
    /\ RowFollowsProvider

USE DEF Inside, Undisturbed

\* At the start every row is what the callback stored and nobody is under way.
LEMMA InitInvariant == Init => IInv
<1> SUFFICES ASSUME Init PROVE IInv
    OBVIOUS
<1> USE RefreshAssumption DEF Init
<1>1. TypeOK
    BY DEF TypeOK, Token, Stages
<1>2. InHand /\ HoldsLock /\ RacesAreMarked /\ KeptRows /\ AboutToPresent /\ AboutToRecord
    BY DEF InHand, HoldsLock, RacesAreMarked, KeptRows, SentWasRecorded, AboutToPresent, AboutToRecord
<1>3. RowFollowsProvider
    BY DEF RowFollowsProvider
<1> QED BY <1>1, <1>2, <1>3 DEF IInv

\* Two parts of TypeOK.
RequestTypes ==
    /\ stage \in [Request -> Stages]
    /\ session \in [Request -> Sid \cup {Nothing}]
    /\ token \in [Request -> Token \cup {Nothing}]
    /\ tries \in [Request -> 0..(Attempts - 1)]

LockType == lock \in [Replica \X Stripe -> Request \cup {Nobody}]

\* Whatever a request does, it is in one of the stages with a pair or none.
LEMMA LeaveTypes ==
    ASSUME TypeOK, NEW q \in Request, Leave(q) PROVE RequestTypes'
BY RefreshAssumption DEF TypeOK, RequestTypes, Leave, Stages

\* The same where it ends up with a token to forward.
LEMMA SendsTypes ==
    ASSUME TypeOK, NEW q \in Request, NEW tok \in Token, Sends(q, tok) PROVE RequestTypes'
BY RefreshAssumption DEF TypeOK, RequestTypes, Sends, Stages

\* Unlocking leaves the locks with requests or nobody.
LEMMA UnlockType ==
    ASSUME TypeOK, NEW q \in Request, Unlock(q) PROVE LockType'
BY DEF TypeOK, LockType, Unlock

\* An expiry touches no pair.
LEMMA ExpireKeeps ==
    ASSUME IInv, NEW s \in Sid, Expire(s) PROVE IInv'
<1> USE RefreshAssumption DEF IInv, vars, providerVars, tableVars, requestVars, ghosts, LockOf, Expire
<1>1. TypeOK'
    BY DEF TypeOK, InHand, Token, Stages
<1>2. InHand'
    BY DEF TypeOK, InHand, Token
<1>3. HoldsLock'
    BY DEF TypeOK, InHand, HoldsLock
<1>4. RacesAreMarked'
    BY DEF TypeOK, InHand, HoldsLock, RacesAreMarked
<1>5. KeptRows'
    BY DEF TypeOK, InHand, KeptRows, SentWasRecorded
<1>6. AboutToPresent'
    BY DEF TypeOK, InHand, HoldsLock, RacesAreMarked, AboutToPresent, RowFollowsProvider, Token
<1>7. AboutToRecord'
    BY DEF TypeOK, InHand, HoldsLock, RacesAreMarked, AboutToPresent, AboutToRecord, Token
<1>8. RowFollowsProvider'
    BY DEF TypeOK, InHand, HoldsLock, RacesAreMarked, AboutToRecord, RowFollowsProvider, Token
<1> QED BY <1>1, <1>2, <1>3, <1>4, <1>5, <1>6, <1>7, <1>8

\* A session may go while a request has its pair in hand.
LEMMA RevokeSessionKeeps ==
    ASSUME IInv, NEW s \in Sid, RevokeSession(s) PROVE IInv'
<1> USE RefreshAssumption DEF IInv, vars, providerVars, tableVars, requestVars, ghosts, LockOf, RevokeSession
<1>1. TypeOK'
    BY DEF TypeOK, InHand, Token, Stages
<1>2. InHand'
    BY DEF TypeOK, InHand, Token
<1>3. HoldsLock'
    BY DEF TypeOK, InHand, HoldsLock
<1>4. RacesAreMarked'
    BY DEF TypeOK, InHand, HoldsLock, RacesAreMarked
<1>5. KeptRows'
    BY DEF TypeOK, InHand, KeptRows, SentWasRecorded
<1>6. AboutToPresent'
    BY DEF TypeOK, InHand, HoldsLock, RacesAreMarked, AboutToPresent, RowFollowsProvider, Token
<1>7. AboutToRecord'
    BY DEF TypeOK, InHand, HoldsLock, RacesAreMarked, AboutToPresent, AboutToRecord, Token
<1>8. RowFollowsProvider'
    BY DEF TypeOK, InHand, HoldsLock, RacesAreMarked, AboutToRecord, RowFollowsProvider, Token
<1> QED BY <1>1, <1>2, <1>3, <1>4, <1>5, <1>6, <1>7, <1>8

\* A replacement changes no row.
LEMMA ReplaceKeeps ==
    ASSUME IInv, NEW s \in Sid, Replace(s) PROVE IInv'
<1> USE RefreshAssumption DEF IInv, vars, providerVars, tableVars, requestVars, ghosts, LockOf, Replace
<1>1. TypeOK'
    BY DEF TypeOK, InHand, Token, Stages
<1>2. InHand'
    BY DEF TypeOK, InHand, Token
<1>3. HoldsLock'
    BY DEF TypeOK, InHand, HoldsLock
<1>4. RacesAreMarked'
    BY DEF TypeOK, InHand, HoldsLock, RacesAreMarked
<1>5. KeptRows'
    BY DEF TypeOK, InHand, KeptRows, SentWasRecorded
<1>6. AboutToPresent'
    BY DEF TypeOK, InHand, HoldsLock, RacesAreMarked, AboutToPresent, RowFollowsProvider, Token
<1>7. AboutToRecord'
    BY DEF TypeOK, InHand, HoldsLock, RacesAreMarked, AboutToPresent, AboutToRecord, Token
<1>8. RowFollowsProvider'
    BY DEF TypeOK, InHand, HoldsLock, RacesAreMarked, AboutToRecord, RowFollowsProvider, Token
<1> QED BY <1>1, <1>2, <1>3, <1>4, <1>5, <1>6, <1>7, <1>8

\* The unlocked read takes a recorded pair.
LEMMA LoadTokenKeeps ==
    ASSUME IInv, NEW q \in Request, NEW s \in Sid, LoadToken(q, s) PROVE IInv'
<1> USE RefreshAssumption DEF IInv, vars, providerVars, tableVars, requestVars, ghosts, LockOf, LoadToken, Goes, Fresh, Renewable
<1>1. TypeOK'
    BY DEF TypeOK, InHand, Token, Stages
<1>2. InHand'
    BY DEF TypeOK, InHand, Token
<1>3. HoldsLock'
    BY DEF TypeOK, InHand, HoldsLock
<1>4. RacesAreMarked'
    BY DEF TypeOK, InHand, HoldsLock, RacesAreMarked
<1>5. KeptRows'
    BY DEF TypeOK, InHand, KeptRows, SentWasRecorded
<1>6. AboutToPresent'
    BY DEF TypeOK, InHand, HoldsLock, RacesAreMarked, AboutToPresent, RowFollowsProvider, Token
<1>7. AboutToRecord'
    BY DEF TypeOK, InHand, HoldsLock, RacesAreMarked, AboutToPresent, AboutToRecord, Token
<1>8. RowFollowsProvider'
    BY DEF TypeOK, InHand, HoldsLock, RacesAreMarked, AboutToRecord, RowFollowsProvider, Token
<1> QED BY <1>1, <1>2, <1>3, <1>4, <1>5, <1>6, <1>7, <1>8

\* A request enters alone on its replica; where another replica's is inside, the race is marked.
LEMMA LockKeeps ==
    ASSUME IInv, NEW q \in Request, Lock(q) PROVE IInv'
<1> USE RefreshAssumption DEF IInv, vars, providerVars, tableVars, requestVars, ghosts, LockOf, Lock, Goes
<1>1. TypeOK'
    BY DEF TypeOK, InHand, Token, Stages
<1>2. InHand'
    BY DEF TypeOK, InHand, Token
<1>3. HoldsLock'
    BY DEF TypeOK, InHand, HoldsLock
<1>4. RacesAreMarked'
  <2>1. \A p \in Request : stage'[p] = (IF p = q THEN "reread" ELSE stage[p])
      BY DEF TypeOK
  <2>2. session' = session /\ raced \subseteq raced'
      OBVIOUS
  <2>3. ASSUME NEW p \in Request, stage[p] \in Inside, session[p] = session[q] PROVE session[q] \in raced'
    <3>1. On[p] # On[q]
        BY <2>3 DEF HoldsLock
    <3> QED BY <2>3, <3>1
  <2> HIDE DEF Lock, Goes, LockOf
  <2> QED BY <2>1, <2>2, <2>3 DEF RacesAreMarked
<1>5. KeptRows'
    BY DEF TypeOK, InHand, KeptRows, SentWasRecorded
<1>6. AboutToPresent'
    BY DEF TypeOK, InHand, HoldsLock, RacesAreMarked, AboutToPresent, RowFollowsProvider, Token
<1>7. AboutToRecord'
    BY DEF TypeOK, InHand, HoldsLock, RacesAreMarked, AboutToPresent, AboutToRecord, Token
<1>8. RowFollowsProvider'
    BY DEF TypeOK, InHand, HoldsLock, RacesAreMarked, AboutToRecord, RowFollowsProvider, Token
<1> QED BY <1>1, <1>2, <1>3, <1>4, <1>5, <1>6, <1>7, <1>8

\* What is read under the lock is the provider's last pair: nobody else is between a refresh and its record.
LEMMA RereadKeeps ==
    ASSUME IInv, NEW q \in Request, Reread(q) PROVE IInv'
<1> USE RefreshAssumption DEF IInv, vars, providerVars, tableVars, requestVars, ghosts, LockOf, Reread, Fresh, Renewable, Sends, Presents, Leave, Unlock
<1>1. TypeOK'
    <2> DEFINE tok == row[session[q]]
    <2>1. session[q] \in Sid /\ tok \in Token \cup {Nothing}
        BY DEF TypeOK, InHand
    <2>2. CASE Fresh(session[q], tok)
        <3>1. tok \in Token /\ Sends(q, tok) /\ Unlock(q)
            BY <2>1, <2>2
        <3> QED BY <3>1, SendsTypes, UnlockType DEF TypeOK, RequestTypes, LockType
    <2>3. CASE ~Fresh(session[q], tok) /\ Renewable(tok)
        BY <2>1, <2>3 DEF TypeOK, Stages
    <2>4. CASE ~Fresh(session[q], tok) /\ ~Renewable(tok)
        BY <2>4, LeaveTypes, UnlockType DEF TypeOK, RequestTypes, LockType
    <2> QED BY <2>2, <2>3, <2>4
<1>2. InHand'
    BY DEF TypeOK, InHand, Token
<1>3. HoldsLock'
    BY DEF TypeOK, InHand, HoldsLock
<1>4. RacesAreMarked'
    BY DEF TypeOK, InHand, HoldsLock, RacesAreMarked
<1>5. KeptRows'
    BY DEF TypeOK, InHand, KeptRows, SentWasRecorded
<1>6. AboutToPresent'
    <2> SUFFICES ASSUME NEW p \in Request, stage'[p] = "provider"
                 PROVE  /\ <<session[p], token[p].access>>' \in expired'
                        /\ (Undisturbed(session[p]) =>
                              token[p] = [access |-> issued[session[p]], refresh |-> honoured[session[p]]])'
        BY DEF AboutToPresent
    <2>1. CASE p # q
        BY <2>1 DEF TypeOK, AboutToPresent
    <2>2. CASE p = q
        <3>1. /\ session'[q] = session[q] /\ session[q] \in Sid
              /\ token'[q] = row[session[q]] /\ row[session[q]] # Nothing
              /\ <<session[q], row[session[q]].access>> \in expired
            BY <2>2 DEF TypeOK, InHand
        <3>2. Undisturbed(session[q]) => ~ \E x \in Request : session[x] = session[q] /\ stage[x] = "write"
            BY <3>1 DEF RacesAreMarked
        <3> QED BY <2>2, <3>1, <3>2 DEF RowFollowsProvider
    <2> QED BY <2>1, <2>2
<1>7. AboutToRecord'
    BY DEF TypeOK, InHand, HoldsLock, RacesAreMarked, AboutToPresent, AboutToRecord, Token
<1>8. RowFollowsProvider'
    BY DEF TypeOK, InHand, HoldsLock, RacesAreMarked, AboutToRecord, RowFollowsProvider, Token
<1> QED BY <1>1, <1>2, <1>3, <1>4, <1>5, <1>6, <1>7, <1>8

\* The provider's answer is its last pair, rotated or not.
LEMMA AcceptKeeps ==
    ASSUME IInv, NEW q \in Request, Accept(q) PROVE IInv'
<1> USE RefreshAssumption DEF IInv, vars, providerVars, tableVars, requestVars, ghosts, LockOf, Accept, Goes, NextRefresh
<1>1. TypeOK'
    BY DEF TypeOK, InHand, Token, Stages
<1>2. InHand'
    BY DEF TypeOK, InHand, Token
<1>3. HoldsLock'
    BY DEF TypeOK, InHand, HoldsLock
<1>4. RacesAreMarked'
    BY DEF TypeOK, InHand, HoldsLock, RacesAreMarked
<1>5. KeptRows'
    BY DEF TypeOK, InHand, KeptRows, SentWasRecorded
<1>6. AboutToPresent'
    BY DEF TypeOK, InHand, HoldsLock, RacesAreMarked, AboutToPresent, RowFollowsProvider, Token
<1>7. AboutToRecord'
    BY DEF TypeOK, InHand, HoldsLock, RacesAreMarked, AboutToPresent, AboutToRecord, Token
<1>8. RowFollowsProvider'
    BY DEF TypeOK, InHand, HoldsLock, RacesAreMarked, AboutToRecord, RowFollowsProvider, Token
<1> QED BY <1>1, <1>2, <1>3, <1>4, <1>5, <1>6, <1>7, <1>8

\* A refusal leaves nothing behind.
LEMMA RefuseKeeps ==
    ASSUME IInv, NEW q \in Request, Refuse(q) PROVE IInv'
<1> USE RefreshAssumption DEF IInv, vars, providerVars, tableVars, requestVars, ghosts, LockOf, Refuse, Leave, Unlock
<1>1. TypeOK'
    <2>1. RequestTypes' /\ LockType'
        BY LeaveTypes, UnlockType
    <2>2. session[q] \in Sid
        BY DEF InHand
    <2> QED BY <2>1, <2>2 DEF TypeOK, RequestTypes, LockType
<1>2. InHand'
    BY DEF TypeOK, InHand, Token
<1>3. HoldsLock'
    BY DEF TypeOK, InHand, HoldsLock
<1>4. RacesAreMarked'
    BY DEF TypeOK, InHand, HoldsLock, RacesAreMarked
<1>5. KeptRows'
    BY DEF TypeOK, InHand, KeptRows, SentWasRecorded
<1>6. AboutToPresent'
    BY DEF TypeOK, InHand, HoldsLock, RacesAreMarked, AboutToPresent, RowFollowsProvider, Token
<1>7. AboutToRecord'
    BY DEF TypeOK, InHand, HoldsLock, RacesAreMarked, AboutToPresent, AboutToRecord, Token
<1>8. RowFollowsProvider'
    BY DEF TypeOK, InHand, HoldsLock, RacesAreMarked, AboutToRecord, RowFollowsProvider, Token
<1> QED BY <1>1, <1>2, <1>3, <1>4, <1>5, <1>6, <1>7, <1>8

\* The pair in hand becomes the row.
LEMMA PersistKeeps ==
    ASSUME IInv, NEW q \in Request, Persist(q) PROVE IInv'
<1> USE RefreshAssumption DEF IInv, vars, providerVars, tableVars, requestVars, ghosts, LockOf, Persist, Record, Sends, Unlock
<1>1. TypeOK'
    <2>1. session[q] \in Sid /\ token[q] \in Token
        BY DEF InHand
    <2>2. RequestTypes' /\ LockType'
        BY <2>1, SendsTypes, UnlockType
    <2> QED BY <2>1, <2>2 DEF TypeOK, RequestTypes, LockType
<1>2. InHand'
    BY DEF TypeOK, InHand, Token
<1>3. HoldsLock'
    BY DEF TypeOK, InHand, HoldsLock
<1>4. RacesAreMarked'
    BY DEF TypeOK, InHand, HoldsLock, RacesAreMarked
<1>5. KeptRows'
    BY DEF TypeOK, InHand, KeptRows, SentWasRecorded
<1>6. AboutToPresent'
    BY DEF TypeOK, InHand, HoldsLock, RacesAreMarked, AboutToPresent, RowFollowsProvider, Token
<1>7. AboutToRecord'
    BY DEF TypeOK, InHand, HoldsLock, RacesAreMarked, AboutToPresent, AboutToRecord, Token
<1>8. RowFollowsProvider'
    BY DEF TypeOK, InHand, HoldsLock, RacesAreMarked, AboutToRecord, RowFollowsProvider, Token
<1> QED BY <1>1, <1>2, <1>3, <1>4, <1>5, <1>6, <1>7, <1>8

\* A refused write marks the pair as lost.
LEMMA PersistRefusedKeeps ==
    ASSUME IInv, NEW q \in Request, PersistRefused(q) PROVE IInv'
<1> USE RefreshAssumption DEF IInv, vars, providerVars, tableVars, requestVars, ghosts, LockOf, PersistRefused, Leave, Unlock, Drops
<1>1. TypeOK'
    <2>1. RequestTypes' /\ LockType'
        BY LeaveTypes, UnlockType
    <2>2. session[q] \in Sid
        BY DEF InHand
    <2> QED BY <2>1, <2>2 DEF TypeOK, RequestTypes, LockType
<1>2. InHand'
    BY DEF TypeOK, InHand, Token
<1>3. HoldsLock'
    BY DEF TypeOK, InHand, HoldsLock
<1>4. RacesAreMarked'
    BY DEF TypeOK, InHand, HoldsLock, RacesAreMarked
<1>5. KeptRows'
    BY DEF TypeOK, InHand, KeptRows, SentWasRecorded
<1>6. AboutToPresent'
    BY DEF TypeOK, InHand, HoldsLock, RacesAreMarked, AboutToPresent, RowFollowsProvider, Token
<1>7. AboutToRecord'
    BY DEF TypeOK, InHand, HoldsLock, RacesAreMarked, AboutToPresent, AboutToRecord, Token
<1>8. RowFollowsProvider'
    BY DEF TypeOK, InHand, HoldsLock, RacesAreMarked, AboutToRecord, RowFollowsProvider, Token
<1> QED BY <1>1, <1>2, <1>3, <1>4, <1>5, <1>6, <1>7, <1>8

\* A failed write leaves the row or records the pair in hand.
LEMMA PersistFailsKeeps ==
    ASSUME IInv, NEW q \in Request, PersistFails(q) PROVE IInv'
<1> USE RefreshAssumption DEF IInv, vars, providerVars, tableVars, requestVars, ghosts, LockOf, PersistFails, Record
<1>1. TypeOK'
    <2>1. session[q] \in Sid /\ token[q] \in Token
        BY DEF InHand
    <2>2. tries' \in [Request -> 0..(Attempts - 1)]
        BY DEF TypeOK
    <2>3. row' \in [Sid -> Token \cup {Nothing}] /\ kept' \in [Sid -> SUBSET Token]
        BY <2>1 DEF TypeOK
    <2> QED BY <2>2, <2>3 DEF TypeOK
<1>2. InHand'
    BY DEF TypeOK, InHand, Token
<1>3. HoldsLock'
    BY DEF TypeOK, InHand, HoldsLock
<1>4. RacesAreMarked'
    BY DEF TypeOK, InHand, HoldsLock, RacesAreMarked
<1>5. KeptRows'
    BY DEF TypeOK, InHand, KeptRows, SentWasRecorded
<1>6. AboutToPresent'
    BY DEF TypeOK, InHand, HoldsLock, RacesAreMarked, AboutToPresent, RowFollowsProvider, Token
<1>7. AboutToRecord'
    BY DEF TypeOK, InHand, HoldsLock, RacesAreMarked, AboutToPresent, AboutToRecord, Token
<1>8. RowFollowsProvider'
    BY DEF TypeOK, InHand, HoldsLock, RacesAreMarked, AboutToRecord, RowFollowsProvider, Token
<1> QED BY <1>1, <1>2, <1>3, <1>4, <1>5, <1>6, <1>7, <1>8

\* A request that gives up marks its pair as lost, unless the row has it.
LEMMA FailsKeeps ==
    ASSUME IInv, NEW q \in Request, Fails(q) PROVE IInv'
<1> USE RefreshAssumption DEF IInv, vars, providerVars, tableVars, requestVars, ghosts, LockOf, Fails, Leave, Unlock, Drops
<1>1. TypeOK'
    <2>1. RequestTypes' /\ LockType'
        BY LeaveTypes, UnlockType
    <2>2. session[q] \in Sid
        BY DEF InHand
    <2> QED BY <2>1, <2>2 DEF TypeOK, RequestTypes, LockType
<1>2. InHand'
    BY DEF TypeOK, InHand, Token
<1>3. HoldsLock'
    BY DEF TypeOK, InHand, HoldsLock
<1>4. RacesAreMarked'
    BY DEF TypeOK, InHand, HoldsLock, RacesAreMarked
<1>5. KeptRows'
    BY DEF TypeOK, InHand, KeptRows, SentWasRecorded
<1>6. AboutToPresent'
    BY DEF TypeOK, InHand, HoldsLock, RacesAreMarked, AboutToPresent, RowFollowsProvider, Token
<1>7. AboutToRecord'
    BY DEF TypeOK, InHand, HoldsLock, RacesAreMarked, AboutToPresent, AboutToRecord, Token
<1>8. RowFollowsProvider'
    BY DEF TypeOK, InHand, HoldsLock, RacesAreMarked, AboutToRecord, RowFollowsProvider, Token
<1> QED BY <1>1, <1>2, <1>3, <1>4, <1>5, <1>6, <1>7, <1>8

\* Forwarding ends a request.
LEMMA ForwardKeeps ==
    ASSUME IInv, NEW q \in Request, Forward(q) PROVE IInv'
<1> USE RefreshAssumption DEF IInv, vars, providerVars, tableVars, requestVars, ghosts, LockOf, Forward, Leave
<1>1. TypeOK'
    BY DEF TypeOK, InHand, Token, Stages
<1>2. InHand'
    BY DEF TypeOK, InHand, Token
<1>3. HoldsLock'
    BY DEF TypeOK, InHand, HoldsLock
<1>4. RacesAreMarked'
    BY DEF TypeOK, InHand, HoldsLock, RacesAreMarked
<1>5. KeptRows'
    BY DEF TypeOK, InHand, KeptRows, SentWasRecorded
<1>6. AboutToPresent'
    BY DEF TypeOK, InHand, HoldsLock, RacesAreMarked, AboutToPresent, RowFollowsProvider, Token
<1>7. AboutToRecord'
    BY DEF TypeOK, InHand, HoldsLock, RacesAreMarked, AboutToPresent, AboutToRecord, Token
<1>8. RowFollowsProvider'
    BY DEF TypeOK, InHand, HoldsLock, RacesAreMarked, AboutToRecord, RowFollowsProvider, Token
<1> QED BY <1>1, <1>2, <1>3, <1>4, <1>5, <1>6, <1>7, <1>8

\* A restart frees the locks of the requests it ends, and marks what they had.
LEMMA RestartKeeps ==
    ASSUME IInv, NEW r \in Replica, Restart(r) PROVE IInv'
<1> USE RefreshAssumption DEF IInv, vars, providerVars, tableVars, requestVars, ghosts, LockOf, Restart
<1>1. TypeOK'
    BY DEF TypeOK, InHand, Token, Stages
<1>2. InHand'
    BY DEF TypeOK, InHand, Token
<1>3. HoldsLock'
    BY DEF TypeOK, InHand, HoldsLock
<1>4. RacesAreMarked'
    BY DEF TypeOK, InHand, HoldsLock, RacesAreMarked
<1>5. KeptRows'
    BY DEF TypeOK, InHand, KeptRows, SentWasRecorded
<1>6. AboutToPresent'
    BY DEF TypeOK, InHand, HoldsLock, RacesAreMarked, AboutToPresent, RowFollowsProvider, Token
<1>7. AboutToRecord'
    BY DEF TypeOK, InHand, HoldsLock, RacesAreMarked, AboutToPresent, AboutToRecord, Token
<1>8. RowFollowsProvider'
    BY DEF TypeOK, InHand, HoldsLock, RacesAreMarked, AboutToRecord, RowFollowsProvider, Token
<1> QED BY <1>1, <1>2, <1>3, <1>4, <1>5, <1>6, <1>7, <1>8

\* A step in which nothing moves.
LEMMA StutterKeeps == IInv /\ UNCHANGED vars => IInv'
<1> SUFFICES ASSUME IInv, UNCHANGED vars PROVE IInv'
    OBVIOUS
<1> USE DEF IInv, vars, providerVars, tableVars, requestVars, ghosts
<1>1. TypeOK'
    BY DEF TypeOK
<1>2. InHand' /\ HoldsLock' /\ RacesAreMarked'
    BY DEF InHand, HoldsLock, RacesAreMarked, LockOf
<1>3. KeptRows'
    BY DEF KeptRows, SentWasRecorded
<1>4. AboutToPresent' /\ AboutToRecord' /\ RowFollowsProvider'
    BY DEF AboutToPresent, AboutToRecord, RowFollowsProvider
<1> QED BY <1>1, <1>2, <1>3, <1>4

\* The invariant is inductive.
LEMMA NextKeeps == IInv /\ [Next]_vars => IInv'
<1> SUFFICES ASSUME IInv, [Next]_vars PROVE IInv'
    OBVIOUS
<1>1. ASSUME NEW s \in Sid, Expire(s) \/ RevokeSession(s) \/ Replace(s) PROVE IInv'
    BY <1>1, ExpireKeeps, RevokeSessionKeeps, ReplaceKeeps
<1>2. ASSUME NEW q \in Request, NEW s \in Sid, LoadToken(q, s) PROVE IInv'
    BY <1>2, LoadTokenKeeps
<1>3. ASSUME NEW q \in Request, Lock(q) PROVE IInv'
    BY <1>3, LockKeeps
<1>4. ASSUME NEW q \in Request, Step(q) PROVE IInv'
    BY <1>4, RereadKeeps, AcceptKeeps, RefuseKeeps, PersistKeeps, PersistRefusedKeeps,
       PersistFailsKeeps, FailsKeeps, ForwardKeeps DEF Step
<1>5. ASSUME NEW r \in Replica, Restart(r) PROVE IInv'
    BY <1>5, RestartKeeps
<1> QED BY <1>1, <1>2, <1>3, <1>4, <1>5, StutterKeeps DEF Next

-----------------------------------------------------------------------------

\* The inductive invariant: at most one request per session and replica is
\* between Lock and Unlock, and what it has in hand is what the provider honours.
THEOREM RefreshInvariant == Spec => []IInv
BY InitInvariant, NextKeeps, PTL DEF Spec

\* Every variable has its type, for any number of requests and replicas.
THEOREM RefreshTypeCorrect == Spec => []TypeOK
<1>1. IInv => TypeOK
    BY DEF IInv
<1> QED BY <1>1, RefreshInvariant, PTL

\* No burst of requests presents a refresh token the provider has spent.
THEOREM NothingSpentTwice == Spec => []PresentsHonoured
<1>1. IInv => PresentsHonoured
    <2> SUFFICES ASSUME IInv, NEW q \in Request, stage[q] = "provider", Undisturbed(session[q])
                 PROVE  token[q].refresh = honoured[session[q]]
        BY DEF PresentsHonoured
    <2>1. token[q] = [access |-> issued[session[q]], refresh |-> honoured[session[q]]]
        BY DEF IInv, AboutToPresent
    <2> QED BY <2>1
<1> QED BY <1>1, RefreshInvariant, PTL

\* Between refreshes the row holds the provider's last pair.
THEOREM RowsFollowTheProvider == Spec => []RowFollowsProvider
<1>1. IInv => RowFollowsProvider
    BY DEF IInv
<1> QED BY <1>1, RefreshInvariant, PTL

\* Whatever is forwarded has been recorded for its session.
THEOREM ForwardedWasRecorded == Spec => []SentWasRecorded
<1>1. IInv => SentWasRecorded
    BY DEF IInv, KeptRows
<1> QED BY <1>1, RefreshInvariant, PTL

\* A burst of requests on an expired token makes one refresh.
THEOREM OneRefreshPerExpiry == Spec => RefreshesOnlyExpired
<1> DEFINE OnlyExpired ==
        \A s \in Sid : issued'[s] # issued[s] /\ Undisturbed(s) => <<s, issued[s]>> \in expired
<1>1. IInv /\ [Next]_vars => [OnlyExpired]_vars
    <2> SUFFICES ASSUME IInv, Next, NEW s \in Sid, issued'[s] # issued[s], s \notin lost \cup raced
                 PROVE  <<s, issued[s]>> \in expired
        BY DEF IInv
    <2>1. PICK q \in Request : Accept(q)
        <3> USE DEF providerVars, tableVars, requestVars, ghosts
        <3>1. ASSUME NEW z \in Sid, Expire(z) \/ RevokeSession(z) \/ Replace(z) PROVE issued' = issued
            BY <3>1 DEF Expire, RevokeSession, Replace
        <3>2. ASSUME NEW q \in Request, NEW z \in Sid, LoadToken(q, z) PROVE issued' = issued
            BY <3>2 DEF LoadToken
        <3>3. ASSUME NEW q \in Request, Lock(q) PROVE issued' = issued
            BY <3>3 DEF Lock
        <3>4. ASSUME NEW q \in Request, Step(q) PROVE issued' = issued \/ Accept(q)
            BY <3>4 DEF Step, Reread, Refuse, Persist, PersistRefused, PersistFails, Fails, Forward
        <3>5. ASSUME NEW r \in Replica, Restart(r) PROVE issued' = issued
            BY <3>5 DEF Restart
        <3> QED BY <3>1, <3>2, <3>3, <3>4, <3>5 DEF Next
    <2>2. session[q] = s /\ stage[q] = "provider"
        BY <2>1 DEF Accept, IInv, TypeOK
    <2>3. <<s, token[q].access>> \in expired /\ token[q] = [access |-> issued[s], refresh |-> honoured[s]]
        BY <2>2 DEF IInv, AboutToPresent
    <2> QED BY <2>3
<1> QED BY <1>1, RefreshInvariant, PTL DEF Spec, RefreshesOnlyExpired
=============================================================================
