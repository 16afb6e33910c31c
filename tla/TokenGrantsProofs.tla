-------------------------- MODULE TokenGrantsProofs --------------------------
(***************************************************************************)
(* The safety of the token endpoint, for any number of sessions, requests  *)
(* and pairs. The argument: a grant that has taken a code or refresh token *)
(* holds its row lock, and nothing but that grant uses up what is locked;  *)
(* a grant about to commit holds a key-share lock on its session, and      *)
(* nothing deletes a session with such a lock on it.                       *)
(***************************************************************************)
EXTENDS TokenGrants, TLAPS, FiniteSetTheorems

Issued == 1..(next - 1)

Granting   == {"taken", "issue", "commit"}
Revoking   == {"revoke", "cascade"}
Replaying  == {"reused", "reusedCascade"}
Committing == {g \in Handler : stage[g] = "commit"}

\* Whatever has a row was issued, to a session.
RowsAreIssued ==
    /\ pairs \subseteq Issued /\ used \subseteq Issued
    /\ \A k \in Issued : owner[k] \in Sid

\* What has bought a pair is used up.
BoughtIsUsed ==
    \A k \in Issued : /\ origin[k] = 0 => code[owner[k]] = "spent"
                      /\ origin[k] # 0 => origin[k] \in used

\* A request presents a code or an issued token; the sessions it may revoke are
\* those of a token somebody revokes, or of one that was used.
RequestsPresent ==
    \A h \in Request :
        /\ stage[h] = "code" => shows[h] \in Sid
        /\ stage[h] \in Granting => shows[h] \in Sid \cup Issued
        /\ stage[h] \in {"refresh", "blocked", "probe"} \cup Revoking \cup Replaying => shows[h] \in Issued
        /\ stage[h] \in Revoking => h \in Revoker
        /\ stage[h] \in Replaying => shows[h] \in used

\* A grant has locked what it is about to consume, which is still there.
GrantsHold ==
    \A h \in Request : stage[h] \in Granting =>
        /\ shows[h] \in Sid =>
              codeLock[shows[h]] = h /\ code[shows[h]] = "fresh" /\ shows[h] \in live
        /\ shows[h] \in Issued =>
              pairLock[shows[h]] = h /\ shows[h] \in pairs \ used

\* A pair that is written but not committed has its session's row locked.
WritesHold ==
    \A h \in Request : stage[h] = "commit" => SessionOf(h) \in live /\ h \in keyShare[SessionOf(h)]

\* A deletion excludes the other locks on a session's row.
DeletionsHold ==
    /\ \A h \in Request : stage[h] \in {"cascade", "reusedCascade"} => deleting[SessionOf(h)] = h
    /\ \A s \in Sid : keyShare[s] # {} => deleting[s] = Nobody

\* The pairs being written are within the bound.
WritesHaveRoom == next + Cardinality(Committing) <= MaxPairs + 1

IInv ==
    /\ TypeOK
    /\ RowsAreIssued
    /\ BoughtIsUsed
    /\ RequestsPresent
    /\ GrantsHold
    /\ WritesHold
    /\ DeletionsHold
    /\ WritesHaveRoom
    /\ RevokedIsGone
    /\ OnePairPerConsumption

USE DEF Issued, Granting, Revoking, Replaying, Request, Pair

-----------------------------------------------------------------------------
\* At the start nothing is issued, locked or under way.
LEMMA InitInvariant == Init => IInv
<1> SUFFICES ASSUME Init PROVE IInv
    OBVIOUS
<1> USE RequestsAssumption DEF Init
<1>1. TypeOK
    BY DEF TypeOK, Stages
<1>2. RowsAreIssued /\ BoughtIsUsed /\ RequestsPresent /\ GrantsHold /\ WritesHold /\ DeletionsHold
    BY DEF RowsAreIssued, BoughtIsUsed, RequestsPresent, GrantsHold, WritesHold, DeletionsHold
<1>3. WritesHaveRoom
  <2>1. Committing = {}
      BY DEF Committing
  <2> QED BY <2>1, FS_EmptySet DEF WritesHaveRoom
<1>4. RevokedIsGone /\ OnePairPerConsumption
    BY DEF RevokedIsGone, OnePairPerConsumption
<1> QED BY <1>1, <1>2, <1>3, <1>4 DEF IInv

\* As long as no further pair is being written there is room.
LEMMA RoomStays ==
    ASSUME IInv, UNCHANGED next, Committing' \subseteq Committing PROVE WritesHaveRoom'
<1>1. IsFiniteSet(Committing)
    BY RequestsAssumption, FS_Subset, Committing \subseteq Handler DEF Committing
<1>2. IsFiniteSet(Committing') /\ Cardinality(Committing') <= Cardinality(Committing)
    BY <1>1, FS_Subset
<1>3. Cardinality(Committing) \in Nat /\ Cardinality(Committing') \in Nat
    BY <1>1, <1>2, FS_CardinalityType
<1> QED BY <1>2, <1>3, RequestsAssumption DEF IInv, TypeOK, WritesHaveRoom

\* The end of a transaction leaves every variable with its type, and the
\* request without locks.
LEMMA EndsTypes ==
    ASSUME TypeOK, NEW h \in Request, Ends(h), next' \in 1..(MaxPairs + 1),
           live' \subseteq Sid, expired' \subseteq Sid, code' \in [Sid -> {"fresh", "spent"}],
           pairs' \subseteq Pair, used' \subseteq Pair,
           owner' \in [Pair -> Sid \cup {Nothing}], origin' \in [Pair -> 0..MaxPairs],
           failures' \in 0..MaxFailures
    PROVE  TypeOK'
BY RequestsAssumption DEF TypeOK, Ends, Stages

\* A rollback: a request ends and its locks with it, and no row has changed.
LEMMA RollbackKeeps ==
    ASSUME IInv, NEW h \in Request, Ends(h), UNCHANGED dbVars, failures' \in 0..MaxFailures
    PROVE  IInv'
<1> USE RequestsAssumption DEF IInv, dbVars
<1>1. TypeOK'
    BY EndsTypes DEF TypeOK
<1>2. RowsAreIssued' /\ BoughtIsUsed'
    BY DEF RowsAreIssued, BoughtIsUsed
<1>3. RequestsPresent'
    BY DEF TypeOK, RequestsPresent, Ends
<1>4. GrantsHold'
    BY DEF TypeOK, RequestsPresent, GrantsHold, Ends
<1>5. WritesHold'
    BY DEF TypeOK, RowsAreIssued, RequestsPresent, WritesHold, Ends, SessionOf, ShowsCode
<1>6. DeletionsHold'
    BY DEF TypeOK, RowsAreIssued, RequestsPresent, DeletionsHold, Ends, SessionOf, ShowsCode
<1>7. WritesHaveRoom'
    BY RoomStays DEF TypeOK, Committing, Ends
<1>8. RevokedIsGone' /\ OnePairPerConsumption'
    BY DEF RevokedIsGone, OnePairPerConsumption
<1> QED BY <1>1, <1>2, <1>3, <1>4, <1>5, <1>6, <1>7, <1>8

-----------------------------------------------------------------------------
\* A request begins with a code or token in hand, and no lock.
Begins(h, to, x) ==
    /\ stage[h] = "idle" /\ stage' = [stage EXCEPT ![h] = to]
    /\ shows' = [shows EXCEPT ![h] = x]
    /\ valid' \in [Request -> BOOLEAN]
    /\ UNCHANGED <<dbVars, lockVars, failures>>

LEMMA BeginsKeeps ==
    ASSUME IInv, NEW h \in Request, NEW to, NEW x, Begins(h, to, x),
           \/ to = "code" /\ x \in Sid
           \/ to = "refresh" /\ x \in Issued
           \/ to = "revoke" /\ x \in Issued /\ h \in Revoker
    PROVE  IInv'
<1> USE RequestsAssumption DEF IInv, dbVars, lockVars, Begins
<1>1. TypeOK'
  <2>1. stage' \in [Request -> Stages] /\ shows' \in [Request -> Sid \cup Pair \cup {Nothing}]
      BY DEF TypeOK, Stages
  <2>2. \A g \in Request : stage'[g] = "idle" => stage[g] = "idle"
      BY DEF TypeOK
  <2> QED BY <2>1, <2>2 DEF TypeOK
<1>2. RowsAreIssued' /\ BoughtIsUsed'
    BY DEF RowsAreIssued, BoughtIsUsed
<1>3. RequestsPresent'
    BY DEF TypeOK, RowsAreIssued, RequestsPresent
<1>4. GrantsHold'
    BY DEF TypeOK, RequestsPresent, GrantsHold
<1>5. WritesHold'
    BY DEF TypeOK, RowsAreIssued, RequestsPresent, WritesHold, SessionOf, ShowsCode
<1>6. DeletionsHold'
    BY DEF TypeOK, RowsAreIssued, RequestsPresent, DeletionsHold, SessionOf, ShowsCode
<1>7. WritesHaveRoom'
    BY RoomStays DEF TypeOK, Committing
<1>8. RevokedIsGone' /\ OnePairPerConsumption'
    BY DEF RevokedIsGone, OnePairPerConsumption
<1> QED BY <1>1, <1>2, <1>3, <1>4, <1>5, <1>6, <1>7, <1>8

\* The end of a lifetime changes no row.
LEMMA ExpireKeeps == ASSUME IInv, NEW s \in Sid, Expire(s) PROVE IInv'
<1> USE RequestsAssumption DEF IInv, lockVars, askVars, Expire
<1>1. TypeOK'
    BY DEF TypeOK
<1>2. RowsAreIssued' /\ BoughtIsUsed' /\ RequestsPresent' /\ GrantsHold'
    BY DEF RowsAreIssued, BoughtIsUsed, RequestsPresent, GrantsHold
<1>3. WritesHold' /\ DeletionsHold'
    BY DEF WritesHold, DeletionsHold, SessionOf, ShowsCode
<1>4. WritesHaveRoom' /\ RevokedIsGone' /\ OnePairPerConsumption'
    BY RoomStays DEF Committing, RevokedIsGone, OnePairPerConsumption
<1> QED BY <1>1, <1>2, <1>3, <1>4

\* A request takes no lock, or that of the free row it presents.
TakesLock(h) ==
    \/ UNCHANGED <<codeLock, pairLock>>
    \/ /\ shows[h] \in Sid /\ codeLock[shows[h]] = Nobody
       /\ codeLock' = [codeLock EXCEPT ![shows[h]] = h] /\ UNCHANGED pairLock
    \/ /\ shows[h] \in Issued /\ pairLock[shows[h]] = Nobody
       /\ pairLock' = [pairLock EXCEPT ![shows[h]] = h] /\ UNCHANGED codeLock

\* A request goes on within its transaction: if it then has a grant to give, it
\* has locked what it presents; if not, that is a token.
Proceeds(h, to) ==
    /\ stage' = [stage EXCEPT ![h] = to]
    /\ TakesLock(h)
    /\ \/ to \in {"refresh", "blocked", "probe"} /\ shows[h] \in Issued
       \/ to = "reused" /\ shows[h] \in Issued \cap used
       \/ /\ to \in {"taken", "issue"} /\ shows[h] \in Sid \cup Issued
          /\ shows[h] \in Sid =>
                codeLock'[shows[h]] = h /\ code[shows[h]] = "fresh" /\ shows[h] \in live
          /\ shows[h] \in Issued => pairLock'[shows[h]] = h /\ shows[h] \in pairs \ used
    /\ UNCHANGED <<dbVars, keyShare, deleting, askVars, failures>>

\* The locks of all others are as they were.
LEMMA TakesLockTypes ==
    ASSUME TypeOK, NEW h \in Handler, TakesLock(h)
    PROVE  /\ codeLock' \in [Sid -> Handler \cup {Nobody}] /\ pairLock' \in [Pair -> Handler \cup {Nobody}]
           /\ \A s \in Sid : codeLock'[s] # codeLock[s] => codeLock[s] = Nobody /\ codeLock'[s] = h
           /\ \A k \in Pair : pairLock'[k] # pairLock[k] => pairLock[k] = Nobody /\ pairLock'[k] = h
<1>1. CASE UNCHANGED <<codeLock, pairLock>>
    BY <1>1 DEF TypeOK
<1>2. CASE /\ shows[h] \in Sid /\ codeLock[shows[h]] = Nobody
           /\ codeLock' = [codeLock EXCEPT ![shows[h]] = h] /\ UNCHANGED pairLock
    BY <1>2 DEF TypeOK
<1>3. CASE /\ shows[h] \in Issued /\ pairLock[shows[h]] = Nobody
           /\ pairLock' = [pairLock EXCEPT ![shows[h]] = h] /\ UNCHANGED codeLock
    BY <1>3 DEF TypeOK
<1> QED BY <1>1, <1>2, <1>3 DEF TakesLock

LEMMA ProceedsKeeps ==
    ASSUME IInv, NEW h \in Handler, stage[h] \notin {"idle", "commit"}, NEW to, Proceeds(h, to)
    PROVE  IInv'
<1> USE RequestsAssumption DEF IInv, dbVars, askVars, Proceeds
<1>1. TypeOK'
  <2>1. stage' \in [Request -> Stages] /\ \A g \in Request : stage'[g] = "idle" => g # h /\ stage[g] = "idle"
      BY DEF TypeOK, Stages
  <2> QED BY <2>1, TakesLockTypes DEF TypeOK
<1>2. RowsAreIssued' /\ BoughtIsUsed'
    BY DEF RowsAreIssued, BoughtIsUsed
<1>3. RequestsPresent'
    BY DEF TypeOK, RowsAreIssued, RequestsPresent
<1>4. GrantsHold'
    BY TakesLockTypes DEF TypeOK, RequestsPresent, GrantsHold
<1>5. WritesHold'
    BY DEF TypeOK, RowsAreIssued, RequestsPresent, WritesHold, SessionOf, ShowsCode
<1>6. DeletionsHold'
    BY DEF TypeOK, RowsAreIssued, RequestsPresent, DeletionsHold, SessionOf, ShowsCode
<1>7. WritesHaveRoom'
    BY RoomStays DEF TypeOK, Committing
<1>8. RevokedIsGone' /\ OnePairPerConsumption'
    BY DEF RevokedIsGone, OnePairPerConsumption
<1> QED BY <1>1, <1>2, <1>3, <1>4, <1>5, <1>6, <1>7, <1>8

\* A mismatch spends a code that its exchange has locked.
LEMMA MismatchKeeps == ASSUME IInv, NEW h \in Handler, CodeExchangeMismatch(h) PROVE IInv'
<1> USE RequestsAssumption DEF IInv, CodeExchangeMismatch, ShowsCode
<1>1. TypeOK'
    BY EndsTypes DEF TypeOK
<1>2. RowsAreIssued' /\ BoughtIsUsed'
    BY DEF TypeOK, RowsAreIssued, BoughtIsUsed
<1>3. RequestsPresent'
    BY DEF TypeOK, RequestsPresent, Ends
<1>4. GrantsHold'
    BY DEF TypeOK, RequestsPresent, GrantsHold, Ends
<1>5. WritesHold'
    BY DEF TypeOK, RowsAreIssued, RequestsPresent, WritesHold, Ends, SessionOf
<1>6. DeletionsHold'
    BY DEF TypeOK, RowsAreIssued, RequestsPresent, DeletionsHold, Ends, SessionOf
<1>7. WritesHaveRoom'
    BY RoomStays DEF TypeOK, Committing, Ends
<1>8. RevokedIsGone' /\ OnePairPerConsumption'
    BY DEF RevokedIsGone, OnePairPerConsumption
<1> QED BY <1>1, <1>2, <1>3, <1>4, <1>5, <1>6, <1>7, <1>8

\* Writing a pair takes the session's row, unless it is being deleted.
LEMMA CreateTokenPairKeeps == ASSUME IInv, NEW h \in Handler, CreateTokenPair(h) PROVE IInv'
<1> DEFINE s == SessionOf(h)
<1> USE RequestsAssumption DEF IInv, dbVars, askVars, Goes
<1>0. CASE Ends(h)
    BY <1>0, RollbackKeeps DEF CreateTokenPair, TypeOK
<1> SUFFICES ASSUME stage[h] = "issue", deleting[s] = Nobody, s \in live, Room,
                    keyShare' = [keyShare EXCEPT ![s] = @ \cup {h}],
                    stage' = [stage EXCEPT ![h] = "commit"],
                    UNCHANGED <<dbVars, codeLock, pairLock, deleting, askVars, failures>>
             PROVE  IInv'
    BY <1>0 DEF CreateTokenPair
<1>1. TypeOK'
  <2>1. stage' \in [Request -> Stages] /\ \A g \in Request : stage'[g] = "idle" => g # h /\ stage[g] = "idle"
      BY DEF TypeOK, Stages
  <2>2. keyShare' \in [Sid -> SUBSET Handler] /\ \A t \in Sid : keyShare'[t] \subseteq keyShare[t] \cup {h}
      BY DEF TypeOK
  <2> QED BY <2>1, <2>2 DEF TypeOK
<1>2. RowsAreIssued' /\ BoughtIsUsed'
    BY DEF RowsAreIssued, BoughtIsUsed
<1>3. RequestsPresent'
    BY DEF TypeOK, RequestsPresent
<1>4. GrantsHold'
    BY DEF TypeOK, RequestsPresent, GrantsHold
<1>5. WritesHold'
    BY DEF TypeOK, RowsAreIssued, RequestsPresent, WritesHold, SessionOf, ShowsCode
<1>6. DeletionsHold'
    BY DEF TypeOK, RowsAreIssued, RequestsPresent, DeletionsHold, SessionOf, ShowsCode
<1>7. WritesHaveRoom'
  <2>1. IsFiniteSet(Committing) /\ Cardinality(Committing) \in Nat
      BY FS_Subset, FS_CardinalityType, Committing \subseteq Handler DEF Committing
  <2>2. Committing' = Committing \cup {h} /\ h \notin Committing
      BY DEF TypeOK, Committing
  <2>3. Cardinality(Committing') = Cardinality(Committing) + 1
      BY <2>1, <2>2, FS_AddElement
  <2>4. next + Cardinality(Committing) <= MaxPairs
      BY DEF Room, Committing
  <2> QED BY <2>1, <2>3, <2>4 DEF TypeOK, WritesHaveRoom
<1>8. RevokedIsGone' /\ OnePairPerConsumption'
    BY DEF RevokedIsGone, OnePairPerConsumption
<1> QED BY <1>1, <1>2, <1>3, <1>4, <1>5, <1>6, <1>7, <1>8

\* The commit uses up what the grant has locked, so nothing bought before it was
\* bought with the same; and its session is locked, so it is there.
LEMMA CommitKeeps == ASSUME IInv, NEW h \in Handler, Commit(h) PROVE IInv'
<1> DEFINE s == SessionOf(h)
<1> USE RequestsAssumption DEF IInv, Commit, ShowsCode
<1>0. /\ next \in Pair /\ next + 1 \in 1..(MaxPairs + 1)
      /\ next' + Cardinality(Committing') <= MaxPairs + 1
  <2>1. IsFiniteSet(Committing) /\ Cardinality(Committing) \in Nat
      BY FS_Subset, FS_CardinalityType, Committing \subseteq Handler DEF Committing
  <2>2. Committing' = Committing \ {h} /\ h \in Committing
      BY DEF TypeOK, Committing, Ends
  <2>3. Cardinality(Committing') = Cardinality(Committing) - 1 /\ Cardinality(Committing) # 0
      BY <2>1, <2>2, FS_RemoveElement, FS_EmptySet
  <2> QED BY <2>1, <2>3 DEF TypeOK, WritesHaveRoom
<1>1. /\ shows[h] \in Sid \cup Issued /\ s \in live /\ s \in Sid
      /\ shows[h] \in Sid => shows[h] \notin Issued /\ codeLock[shows[h]] = h /\ code[shows[h]] = "fresh"
      /\ shows[h] \in Issued => shows[h] \notin Sid /\ pairLock[shows[h]] = h /\ shows[h] \in pairs \ used
    BY <1>0 DEF TypeOK, RequestsPresent, GrantsHold, WritesHold, RowsAreIssued, SessionOf
<1>2. /\ used' \subseteq used \cup {shows[h]} /\ used' \subseteq Issued
      /\ code' \in [Sid -> {"fresh", "spent"}]
      /\ \A t \in Sid : code'[t] # code[t] => t = shows[h] /\ code'[t] = "spent"
      /\ used \subseteq used' /\ (shows[h] \in Sid => code'[shows[h]] = "spent")
      /\ shows[h] \in Issued => shows[h] \in used' /\ UNCHANGED code
      /\ shows[h] \in Sid => UNCHANGED used
  <2>0. used \subseteq Issued /\ code \in [Sid -> {"fresh", "spent"}]
      BY DEF TypeOK, RowsAreIssued
  <2>1. CASE shows[h] \in Sid
    <3>1. code' = [code EXCEPT ![shows[h]] = "spent"] /\ used' = used
        BY <2>1 DEF Consume
    <3> QED BY <1>1, <2>0, <2>1, <3>1
  <2>2. CASE shows[h] \in Issued
    <3>1. used' = used \cup {shows[h]} /\ code' = code
        BY <1>1, <2>2 DEF Consume
    <3> QED BY <1>1, <2>0, <2>2, <3>1
  <2> QED BY <1>1, <2>1, <2>2
<1>3. TypeOK'
  <2>1. next \in Pair /\ next' \in 1..(MaxPairs + 1)
      BY <1>0 DEF TypeOK
  <2>2. pairs' \subseteq Pair /\ used' \subseteq Pair
      BY <1>0, <1>2, <2>1 DEF TypeOK
  <2>3. owner' \in [Pair -> Sid \cup {Nothing}]
      BY <1>0, <1>1 DEF TypeOK
  <2>4. origin' \in [Pair -> 0..MaxPairs]
    <3>1. origin'[next] \in 0..MaxPairs
        BY <1>0, <1>1, <2>1 DEF TypeOK, ShowsCode
    <3> QED BY <1>0, <3>1 DEF TypeOK
  <2> QED BY <1>0, <1>2, <2>1, <2>2, <2>3, <2>4, EndsTypes DEF TypeOK
<1>4. RowsAreIssued'
    BY <1>0, <1>1, <1>2 DEF TypeOK, RowsAreIssued
<1>5. BoughtIsUsed'
    BY <1>0, <1>1, <1>2 DEF TypeOK, RowsAreIssued, BoughtIsUsed, SessionOf
<1>6. RequestsPresent' /\ GrantsHold'
    BY <1>0, <1>1, <1>2 DEF TypeOK, RequestsPresent, GrantsHold, Ends
<1>7. WritesHold'
    BY <1>0, <1>1 DEF TypeOK, RowsAreIssued, RequestsPresent, WritesHold, Ends, SessionOf
<1>8. DeletionsHold'
    BY <1>0, <1>1 DEF TypeOK, RowsAreIssued, RequestsPresent, DeletionsHold, Ends, SessionOf
<1>9. WritesHaveRoom'
    BY <1>0 DEF WritesHaveRoom
<1>10. RevokedIsGone'
    BY <1>0, <1>1 DEF TypeOK, RowsAreIssued, RevokedIsGone
<1>11. OnePairPerConsumption'
  <2>1. \A j \in Issued : ~(origin[j] = origin'[next] /\ owner[j] = s)
      BY <1>0, <1>1 DEF TypeOK, BoughtIsUsed, SessionOf
  <2>2. \A j \in Issued : owner'[j] = owner[j] /\ origin'[j] = origin[j] /\ j # next
      BY <1>0 DEF TypeOK
  <2>3. 1..(next' - 1) = Issued \cup {next} /\ owner'[next] = s
      BY <1>0 DEF TypeOK
  <2> QED BY <2>1, <2>2, <2>3 DEF OnePairPerConsumption
<1> QED BY <1>3, <1>4, <1>5, <1>6, <1>7, <1>8, <1>9, <1>10, <1>11

\* A deletion begins only where no pair is being written.
LEMMA LockSessionKeeps == ASSUME IInv, NEW h \in Request, LockSession(h) PROVE IInv'
<1> DEFINE s == SessionOf(h)
<1> USE RequestsAssumption DEF IInv, dbVars, askVars, Goes
<1>0. CASE Ends(h)
    BY <1>0, RollbackKeeps DEF LockSession, TypeOK
<1> DEFINE to == IF stage[h] = "reused" THEN "reusedCascade" ELSE "cascade"
<1> SUFFICES ASSUME stage[h] \in {"reused", "revoke"}, deleting[s] = Nobody, keyShare[s] = {}, s \in live,
                    deleting' = [deleting EXCEPT ![s] = h], stage' = [stage EXCEPT ![h] = to],
                    UNCHANGED <<dbVars, codeLock, pairLock, keyShare, askVars, failures>>
             PROVE  IInv'
    BY <1>0 DEF LockSession
<1>1. TypeOK'
  <2>1. stage' \in [Request -> Stages] /\ \A g \in Request : stage'[g] = "idle" => g # h /\ stage[g] = "idle"
      BY DEF TypeOK, Stages
  <2>2. deleting' \in [Sid -> Request \cup {Nobody}] /\ \A t \in Sid : deleting'[t] \in {h, deleting[t]}
      BY DEF TypeOK
  <2> QED BY <2>1, <2>2 DEF TypeOK
<1>2. RowsAreIssued' /\ BoughtIsUsed'
    BY DEF RowsAreIssued, BoughtIsUsed
<1>3. RequestsPresent'
    BY DEF TypeOK, RequestsPresent
<1>4. GrantsHold'
    BY DEF TypeOK, RequestsPresent, GrantsHold
<1>5. WritesHold'
    BY DEF TypeOK, RowsAreIssued, RequestsPresent, WritesHold, SessionOf, ShowsCode
<1>6. DeletionsHold'
    BY DEF TypeOK, RowsAreIssued, RequestsPresent, DeletionsHold, SessionOf, ShowsCode
<1>7. WritesHaveRoom'
    BY RoomStays DEF TypeOK, Committing
<1>8. RevokedIsGone' /\ OnePairPerConsumption'
    BY DEF RevokedIsGone, OnePairPerConsumption
<1> QED BY <1>1, <1>2, <1>3, <1>4, <1>5, <1>6, <1>7, <1>8

\* The cascade waits for all who hold what it takes away.
LEMMA CascadeKeeps == ASSUME IInv, NEW h \in Request, Cascade(h) PROVE IInv'
<1> DEFINE s == SessionOf(h)
<1> USE RequestsAssumption DEF IInv, Cascade
<1>0. s \in Sid /\ deleting[s] = h /\ keyShare[s] = {} /\ h # Nobody
  <2>1. shows[h] \in Issued /\ shows[h] \notin Sid
      BY DEF TypeOK, RequestsPresent
  <2>2. s \in Sid
      BY <2>1 DEF RowsAreIssued, SessionOf, ShowsCode
  <2> QED BY <2>2 DEF DeletionsHold
<1>1. TypeOK'
  <2>1. code' \in [Sid -> {"fresh", "spent"}] /\ pairs' \subseteq Pair /\ live' \subseteq Sid
      BY DEF TypeOK
  <2> QED BY <2>1, EndsTypes DEF TypeOK
<1>2. RowsAreIssued' /\ BoughtIsUsed'
    BY DEF TypeOK, RowsAreIssued, BoughtIsUsed
<1>3. RequestsPresent'
    BY DEF TypeOK, RequestsPresent, Ends
<1>4. GrantsHold'
    BY <1>0 DEF TypeOK, RequestsPresent, GrantsHold, Ends, Children
<1>5. WritesHold'
    BY <1>0 DEF TypeOK, RowsAreIssued, RequestsPresent, WritesHold, Ends, SessionOf, ShowsCode
<1>6. DeletionsHold'
    BY <1>0 DEF TypeOK, RowsAreIssued, RequestsPresent, DeletionsHold, Ends, SessionOf, ShowsCode
<1>7. WritesHaveRoom'
    BY RoomStays DEF TypeOK, Committing, Ends
<1>8. RevokedIsGone' /\ OnePairPerConsumption'
    BY DEF RevokedIsGone, OnePairPerConsumption, Children
<1> QED BY <1>1, <1>2, <1>3, <1>4, <1>5, <1>6, <1>7, <1>8

-----------------------------------------------------------------------------
\* DELETE ... RETURNING finds the code and locks it, or the request is over.
LEMMA TakeAuthCodeKeeps == ASSUME IInv, NEW h \in Handler, TakeAuthCode(h) PROVE IInv'
<1> USE RequestsAssumption DEF IInv, TakeAuthCode, dbVars, askVars
<1>1. CASE Ends(h)
    BY <1>1, RollbackKeeps DEF TypeOK
<1>2. CASE ~Ends(h)
  <2>1. shows[h] \in Sid /\ codeLock' = [codeLock EXCEPT ![shows[h]] = h]
      BY <1>2 DEF RequestsPresent
  <2>2. Proceeds(h, "taken")
      BY <1>2, <2>1 DEF TypeOK, Proceeds, TakesLock
  <2> QED BY <2>2, ProceedsKeeps
<1> QED BY <1>1, <1>2

\* The UPDATE, at once or after a wait, takes a row only where it is unused.
LEMMA TakeRefreshTokenKeeps ==
    ASSUME IInv, NEW h \in Handler, TakeRefreshToken(h) \/ Unblock(h) PROVE IInv'
<1> USE RequestsAssumption DEF IInv, dbVars, askVars, Goes
<1>1. stage[h] \in {"refresh", "blocked"} /\ shows[h] \in Issued
    BY DEF RequestsPresent, TakeRefreshToken, Unblock
<1>2. CASE TakeRefreshToken(h)
  <2>1. \E to \in {"probe", "blocked", "taken"} : Proceeds(h, to)
      BY <1>1, <1>2 DEF TypeOK, TakeRefreshToken, Qualifies, Proceeds, TakesLock
  <2> QED BY <1>1, <2>1, ProceedsKeeps
<1>3. CASE Unblock(h)
  <2>1. \E to \in {"probe", "taken"} : Proceeds(h, to)
      BY <1>1, <1>3 DEF TypeOK, Unblock, Proceeds, TakesLock
  <2> QED BY <1>1, <2>1, ProceedsKeeps
<1> QED BY <1>2, <1>3

\* A replay is one of a used token.
LEMMA ProbeKeeps == ASSUME IInv, NEW h \in Handler, Probe(h) PROVE IInv'
<1> USE RequestsAssumption DEF IInv, Probe, dbVars, askVars, lockVars, Goes
<1>1. CASE Ends(h)
    BY <1>1, RollbackKeeps DEF TypeOK
<1>2. CASE ~Ends(h)
  <2>1. Proceeds(h, "reused")
      BY <1>2 DEF RequestsPresent, Proceeds, TakesLock
  <2> QED BY <2>1, ProceedsKeeps
<1> QED BY <1>1, <1>2

\* The grant goes on with what it holds.
LEMMA IssueKeeps == ASSUME IInv, NEW h \in Handler, Issue(h) PROVE IInv'
<1>1. Proceeds(h, "issue")
    BY DEF IInv, RequestsPresent, GrantsHold, Issue, Goes, Proceeds, TakesLock, dbVars, lockVars, askVars
<1> QED BY <1>1, ProceedsKeeps DEF Issue, Goes

\* Refusals, failures and PostgreSQL's choice of a victim roll back.
LEMMA RefusalsKeep ==
    ASSUME IInv, NEW h \in Request,
           RefuseStale(h) \/ GrantFails(h) \/ RevokeFails(h) \/ DeadlockVictim(h)
    PROVE  IInv'
<1>1. Ends(h) /\ UNCHANGED dbVars
    BY DEF RefuseStale, GrantFails, RevokeFails, DeadlockVictim, dbVars
<1>2. failures' \in 0..MaxFailures
    BY RequestsAssumption DEF IInv, TypeOK, RefuseStale, GrantFails, RevokeFails, DeadlockVictim
<1> QED BY <1>1, <1>2, RollbackKeeps

LEMMA Stutters == ASSUME IInv, UNCHANGED vars PROVE IInv'
BY DEF IInv, vars, dbVars, lockVars, askVars, TypeOK, RowsAreIssued, BoughtIsUsed, RequestsPresent,
       GrantsHold, WritesHold, DeletionsHold, WritesHaveRoom, Committing, RevokedIsGone,
       OnePairPerConsumption, SessionOf, ShowsCode

\* Every step preserves the invariant.
LEMMA NextKeeps == ASSUME IInv, [Next]_vars PROVE IInv'
<1>1. ASSUME NEW h \in Handler, NEW ok \in BOOLEAN, NEW s \in Sid, PresentCode(h, s, ok) PROVE IInv'
  <2>1. Begins(h, "code", s)
      BY <1>1 DEF PresentCode, Begins, Goes, IInv, TypeOK
  <2> QED BY <2>1, BeginsKeeps
<1>2. ASSUME NEW h \in Handler, NEW ok \in BOOLEAN, NEW k \in Pair, PresentToken(h, k, ok) PROVE IInv'
  <2>1. Begins(h, "refresh", k) /\ k \in Issued
      BY <1>2, RequestsAssumption DEF PresentToken, Begins, Goes, IInv, TypeOK
  <2> QED BY <2>1, BeginsKeeps
<1>3. ASSUME NEW h \in Revoker, NEW k \in Pair, SessionForToken(h, k) PROVE IInv'
  <2>1. Begins(h, "revoke", k) /\ k \in Issued
      BY <1>3 DEF SessionForToken, Begins, Goes, IInv, TypeOK, RowsAreIssued
  <2> QED BY <2>1, BeginsKeeps
<1>4. ASSUME NEW h \in Handler, Token(h) PROVE IInv'
    BY <1>4, TakeAuthCodeKeeps, MismatchKeeps, TakeRefreshTokenKeeps, ProbeKeeps, IssueKeeps,
       CreateTokenPairKeeps, CommitKeeps, RefusalsKeep DEF Token
<1>5. ASSUME NEW h \in Handler, RefuseStale(h) \/ GrantFails(h) PROVE IInv'
    BY <1>5, RefusalsKeep
<1>6. ASSUME NEW h \in Request, LockSession(h) \/ Cascade(h) \/ RevokeFails(h) PROVE IInv'
    BY <1>6, LockSessionKeeps, CascadeKeeps, RefusalsKeep
<1>7. ASSUME NEW s \in Sid, Expire(s) PROVE IInv'
    BY <1>7, ExpireKeeps
<1>8. CASE UNCHANGED vars
    BY <1>8, Stutters
<1> QED BY <1>1, <1>2, <1>3, <1>4, <1>5, <1>6, <1>7, <1>8 DEF Next

-----------------------------------------------------------------------------
\* Grants and revocations keep their locks and rows in order.
THEOREM GrantsInvariant == Spec => []IInv
<1>1. Init => IInv
    BY InitInvariant
<1>2. IInv /\ [Next]_vars => IInv'
    BY NextKeeps
<1> QED BY <1>1, <1>2, PTL DEF Spec

\* Rows, locks and requests have their types, and a request that is over holds
\* no lock (the deferred rollback of every path through Grant).
THEOREM GrantsTypeCorrect == Spec => []TypeOK
<1>1. IInv => TypeOK
    BY DEF IInv
<1> QED BY <1>1, GrantsInvariant, PTL

\* A code or refresh token buys one pair at most, however many requests race
\* for it (takeAuthCode, takeRefreshToken).
THEOREM NothingBoughtTwice == Spec => []OnePairPerConsumption
<1>1. IInv => OnePairPerConsumption
    BY DEF IInv
<1> QED BY <1>1, GrantsInvariant, PTL

\* No token outlives its session, and none is written for one that is gone
\* (RevokeSession beside createTokenPair).
THEOREM RevocationIsFinal == Spec => []RevokedIsGone
<1>1. IInv => RevokedIsGone
    BY DEF IInv
<1> QED BY <1>1, GrantsInvariant, PTL

\* Of all steps, three change sessions, codes or the marks on tokens.
LEMMA WhoChangesWhat ==
    ASSUME Next
    PROVE  \/ UNCHANGED <<live, code, used>>
           \/ \E h \in Handler : CodeExchangeMismatch(h) \/ Commit(h)
           \/ \E h \in Request : Cascade(h)
<1> USE DEF dbVars
<1>1. ASSUME NEW h \in Handler, NEW ok \in BOOLEAN,
             \/ \E s \in Sid : PresentCode(h, s, ok)
             \/ \E k \in Pair : PresentToken(h, k, ok)
      PROVE  UNCHANGED <<live, code, used>>
    BY <1>1 DEF PresentCode, PresentToken
<1>2. ASSUME NEW h \in Revoker, NEW k \in Pair, SessionForToken(h, k) PROVE UNCHANGED <<live, code, used>>
    BY <1>2 DEF SessionForToken
<1>3. ASSUME NEW h \in Handler, Token(h) \/ RefuseStale(h) \/ GrantFails(h),
             ~CodeExchangeMismatch(h), ~Commit(h)
      PROVE  UNCHANGED <<live, code, used>>
    BY <1>3 DEF Token, TakeAuthCode, TakeRefreshToken, Unblock, Probe, Issue, CreateTokenPair,
                DeadlockVictim, RefuseStale, GrantFails
<1>4. ASSUME NEW h \in Request, LockSession(h) \/ RevokeFails(h) PROVE UNCHANGED <<live, code, used>>
    BY <1>4 DEF LockSession, RevokeFails
<1>5. ASSUME NEW s \in Sid, Expire(s) PROVE UNCHANGED <<live, code, used>>
    BY <1>5 DEF Expire
<1> QED BY <1>1, <1>2, <1>3, <1>4, <1>5 DEF Next

\* A code or refresh token is used up by the pair that succeeds it, by a code
\* exchange that does not match, or with its session: a client whose grant
\* failed can present it again (Grant's rollback).
THEOREM RetriesStayGood == Spec => SpentOnlyForSuccessor
<1> DEFINE Step ==
        /\ \A k \in used' \ used : \E j \in pairs' \ pairs : origin'[j] = k
        /\ \A s \in Sid : code[s] # code'[s] =>
             \/ \E j \in pairs' \ pairs : owner'[j] = s /\ origin'[j] = 0
             \/ \E h \in Handler : shows[h] = s /\ codeLock[s] = h /\ ~valid[h]
             \/ s \notin live'
<1>1. IInv /\ [Next]_vars => [Step]_vars
  <2> SUFFICES ASSUME IInv, Next PROVE Step
      OBVIOUS
  <2>1. CASE UNCHANGED <<live, code, used>>
      BY <2>1
  <2>2. ASSUME NEW h \in Handler, CodeExchangeMismatch(h) PROVE Step
      BY <2>2 DEF IInv, TypeOK, GrantsHold, CodeExchangeMismatch, ShowsCode
  <2>3. ASSUME NEW h \in Handler, Commit(h) PROVE Step
    <3>1. next \in pairs' \ pairs /\ next \in Pair
      <4>1. next \in Pair
          BY <2>3, NextKeeps, RequestsAssumption DEF IInv, TypeOK, Commit
      <4> QED BY <2>3, <4>1, RequestsAssumption DEF IInv, RowsAreIssued, Commit
    <3>2. CASE ShowsCode(h)
      <4>1. owner'[next] = shows[h] /\ origin'[next] = 0
          BY <2>3, <3>1, <3>2 DEF IInv, TypeOK, Commit, SessionOf
      <4> QED BY <2>3, <3>1, <3>2, <4>1 DEF IInv, TypeOK, Commit, Consume
    <3>3. CASE ~ShowsCode(h)
      <4>1. origin'[next] = shows[h]
          BY <2>3, <3>1, <3>3 DEF IInv, TypeOK, Commit
      <4> QED BY <2>3, <3>1, <3>3, <4>1 DEF IInv, TypeOK, Commit, Consume
    <3> QED BY <3>2, <3>3
  <2>4. ASSUME NEW h \in Request, Cascade(h) PROVE Step
      BY <2>4 DEF IInv, TypeOK, Cascade
  <2> QED BY <2>1, <2>2, <2>3, <2>4, WhoChangesWhat
<1> QED BY <1>1, GrantsInvariant, PTL DEF Spec, SpentOnlyForSuccessor

\* Nobody's session ends but for a request to /revoke with one of its tokens, or
\* for a refresh token that was exchanged before (ErrTokenReused).
THEOREM HonestRetriesEndNothing == Spec => EndsOnlyForReplayOrRevoke
<1> DEFINE Step ==
        \A s \in live \ live' : \E h \in Request :
            deleting[s] = h /\ SessionOf(h) = s /\ (h \in Revoker \/ shows[h] \in used)
<1>1. IInv /\ [Next]_vars => [Step]_vars
  <2> SUFFICES ASSUME IInv, Next PROVE Step
      OBVIOUS
  <2>1. CASE UNCHANGED live
      BY <2>1
  <2>2. ASSUME NEW h \in Request, Cascade(h) PROVE Step
    <3>1. live \ live' \subseteq {SessionOf(h)} /\ deleting[SessionOf(h)] = h
        BY <2>2 DEF IInv, DeletionsHold, Cascade
    <3>2. h \in Revoker \/ shows[h] \in used
        BY <2>2 DEF IInv, RequestsPresent, Cascade
    <3> QED BY <3>1, <3>2
  <2> QED BY <2>1, <2>2, WhoChangesWhat DEF CodeExchangeMismatch, Commit
<1> QED BY <1>1, GrantsInvariant, PTL DEF Spec, EndsOnlyForReplayOrRevoke
==============================================================================
