----------------------------- MODULE TokenGrants -----------------------------
(***************************************************************************)
(* The token endpoint (oauth.go: handleToken, handleRevoke) and the        *)
(* transactions under it (store.go: Grant, takeAuthCode, takeRefreshToken, *)
(* createTokenPair, RevokeSession).                                        *)
(*                                                                         *)
(* A grant is one transaction: it consumes an authorization code or a      *)
(* refresh token and writes the pair that replaces it. RevokeSession runs  *)
(* on a connection of its own, also when a grant of the same request is    *)
(* still open. The row locks PostgreSQL takes for these statements under   *)
(* READ COMMITTED are part of the model: they decide who waits for whom.   *)
(*                                                                         *)
(* An access token and a refresh token are written together, so one pair   *)
(* stands for both; what consumes a pair is its refresh token. Each        *)
(* session starts with its single authorization code (handleCallback).     *)
(***************************************************************************)
EXTENDS Naturals, FiniteSets

CONSTANTS
    Sid,           \* sessions
    Handler,       \* requests to /token
    Revoker,       \* requests to /revoke
    Nobody, Nothing,
    MaxPairs,      \* bound: pairs issued
    MaxFailures    \* bound: failures of the database, or of a client's patience

Request == Handler \cup Revoker
Pair    == 1..MaxPairs

ASSUME RequestsAssumption ==
    /\ Handler \cap Revoker = {}
    /\ Nobody \notin Request
    /\ Sid \cap Pair = {}
    /\ Nothing \notin Pair \cup Sid
    /\ IsFiniteSet(Handler)
    /\ MaxPairs \in Nat
    /\ MaxFailures \in Nat

VARIABLES
    (* the database *)
    live,       \* the sessions there are
    expired,    \* the sessions past their lifetime
    code,       \* authorization code of each session: "fresh" or "spent"
    pairs,      \* pairs whose rows exist
    used,       \* the pairs whose refresh token is marked used
    owner,      \* the session of each pair ever issued
    origin,     \* ghost: what bought each pair, 0 for the code
    next,       \* the next pair
    (* row locks *)
    codeLock,   \* on each authorization code: DELETE ... RETURNING
    pairLock,   \* on each refresh token: UPDATE
    keyShare,   \* on each session: the foreign keys of a new pair
    deleting,   \* on each session: DELETE
    (* the requests *)
    stage,
    shows,      \* the code (by session) or pair a request presents
    valid,      \* whether its client, redirect_uri and verifier are right
    failures

dbVars   == <<live, expired, code, pairs, used, owner, origin, next>>
lockVars == <<codeLock, pairLock, keyShare, deleting>>
askVars  == <<shows, valid>>
vars     == <<dbVars, lockVars, stage, askVars, failures>>

Stages == {"idle", "code", "refresh", "blocked", "probe", "taken", "issue", "commit",
           "reused", "revoke", "cascade", "reusedCascade"}

TypeOK ==
    /\ live \subseteq Sid /\ expired \subseteq Sid
    /\ code \in [Sid -> {"fresh", "spent"}]
    /\ pairs \subseteq Pair /\ used \subseteq Pair
    /\ owner \in [Pair -> Sid \cup {Nothing}]
    /\ origin \in [Pair -> 0..MaxPairs]
    /\ next \in 1..(MaxPairs + 1)
    /\ codeLock \in [Sid -> Handler \cup {Nobody}]
    /\ pairLock \in [Pair -> Handler \cup {Nobody}]
    /\ keyShare \in [Sid -> SUBSET Handler]
    /\ deleting \in [Sid -> Request \cup {Nobody}]
    /\ stage \in [Request -> Stages]
    /\ shows \in [Request -> Sid \cup Pair \cup {Nothing}]
    /\ valid \in [Request -> BOOLEAN]
    /\ failures \in 0..MaxFailures
    \* a request holds locks only while it is under way
    /\ \A h \in Request : stage[h] = "idle" =>
        /\ \A s \in Sid : codeLock[s] # h /\ deleting[s] # h /\ h \notin keyShare[s]
        /\ \A k \in Pair : pairLock[k] # h

Init ==
    /\ live = Sid /\ expired = {}
    /\ code = [s \in Sid |-> "fresh"]
    /\ pairs = {} /\ used = {}
    /\ owner = [k \in Pair |-> Nothing]
    /\ origin = [k \in Pair |-> 0]
    /\ next = 1
    /\ codeLock = [s \in Sid |-> Nobody]
    /\ pairLock = [k \in Pair |-> Nobody]
    /\ keyShare = [s \in Sid |-> {}]
    /\ deleting = [s \in Sid |-> Nobody]
    /\ stage = [h \in Request |-> "idle"]
    /\ shows = [h \in Request |-> Nothing]
    /\ valid = [h \in Request |-> FALSE]
    /\ failures = 0

-----------------------------------------------------------------------------
(* Requests and their transactions *)

Goes(h, from, to) == stage[h] = from /\ stage' = [stage EXCEPT ![h] = to]

ShowsCode(h) == shows[h] \in Sid

\* The session a request is about.
SessionOf(h) == IF ShowsCode(h) THEN shows[h] ELSE owner[shows[h]]

\* The transaction's locks end with it, by commit or rollback, and the request
\* is answered.
Ends(h) ==
    /\ codeLock' = [s \in Sid |-> IF codeLock[s] = h THEN Nobody ELSE codeLock[s]]
    /\ pairLock' = [k \in Pair |-> IF pairLock[k] = h THEN Nobody ELSE pairLock[k]]
    /\ keyShare' = [s \in Sid |-> keyShare[s] \ {h}]
    /\ deleting' = [s \in Sid |-> IF deleting[s] = h THEN Nobody ELSE deleting[s]]
    /\ stage' = [stage EXCEPT ![h] = "idle"]
    /\ shows' = [shows EXCEPT ![h] = Nothing]
    /\ valid' = [valid EXCEPT ![h] = FALSE]

\* Anyone may present any code or token ever issued, any number of times, from
\* the right client or the wrong one.
PresentCode(h, s, ok) ==
    /\ Goes(h, "idle", "code")
    /\ shows' = [shows EXCEPT ![h] = s]
    /\ valid' = [valid EXCEPT ![h] = ok]
    /\ UNCHANGED <<dbVars, lockVars, failures>>

PresentToken(h, k, ok) ==
    /\ k < next
    /\ Goes(h, "idle", "refresh")
    /\ shows' = [shows EXCEPT ![h] = k]
    /\ valid' = [valid EXCEPT ![h] = ok]
    /\ UNCHANGED <<dbVars, lockVars, failures>>

\* The session's lifetime ends.
Expire(s) ==
    /\ s \notin expired
    /\ expired' = expired \cup {s}
    /\ UNCHANGED <<live, code, pairs, used, owner, origin, next, lockVars, stage, askVars, failures>>

-----------------------------------------------------------------------------
(* tokenFromCode *)

\* DELETE ... RETURNING. It waits for a grant that holds the code, and then
\* finds it deleted or, after a rollback, there.
TakeAuthCode(h) ==
    LET s == shows[h] IN
    /\ stage[h] = "code" /\ codeLock[s] = Nobody
    /\ IF s \in live /\ code[s] = "fresh"
       THEN /\ codeLock' = [codeLock EXCEPT ![s] = h]
            /\ stage' = [stage EXCEPT ![h] = "taken"]
            /\ UNCHANGED <<pairLock, keyShare, deleting, askVars>>
       ELSE Ends(h)
    /\ UNCHANGED <<dbVars, failures>>

\* A mismatch spends the code: the grant is committed without a pair.
CodeExchangeMismatch(h) ==
    /\ stage[h] = "taken" /\ ShowsCode(h) /\ ~valid[h]
    /\ code' = [code EXCEPT ![shows[h]] = "spent"]
    /\ Ends(h)
    /\ UNCHANGED <<live, expired, pairs, used, owner, origin, next, failures>>

-----------------------------------------------------------------------------
(* tokenFromRefresh *)

Qualifies(h, k) == k \in pairs \ used /\ valid[h] /\ owner[k] \in live \ expired

\* The UPDATE of takeRefreshToken. Its snapshot decides which row qualifies; a
\* row another transaction has locked is waited for.
TakeRefreshToken(h) ==
    LET k == shows[h] IN
    /\ stage[h] = "refresh"
    /\ IF ~Qualifies(h, k) THEN Goes(h, "refresh", "probe") /\ UNCHANGED pairLock
       ELSE IF pairLock[k] # Nobody THEN Goes(h, "refresh", "blocked") /\ UNCHANGED pairLock
       ELSE /\ pairLock' = [pairLock EXCEPT ![k] = h]
            /\ Goes(h, "refresh", "taken")
    /\ UNCHANGED <<dbVars, codeLock, keyShare, deleting, askVars, failures>>

\* Variant: the conditions not looked at again after the wait.
Unblock_NoRecheck(h) ==
    LET k == shows[h] IN
    /\ stage[h] = "blocked" /\ pairLock[k] = Nobody
    /\ IF k \notin pairs THEN Goes(h, "blocked", "probe") /\ UNCHANGED pairLock
       ELSE pairLock' = [pairLock EXCEPT ![k] = h] /\ Goes(h, "blocked", "taken")
    /\ UNCHANGED <<dbVars, codeLock, keyShare, deleting, askVars, failures>>

\* The wait is over. The row's new version is locked and its conditions are
\* looked at again; when they no longer hold the UPDATE changes nothing, but
\* the lock stays with the transaction.
Unblock(h) ==
    LET k == shows[h] IN
    /\ stage[h] = "blocked" /\ pairLock[k] = Nobody
    /\ IF k \notin pairs THEN Goes(h, "blocked", "probe") /\ UNCHANGED pairLock
       ELSE /\ pairLock' = [pairLock EXCEPT ![k] = h]
            /\ Goes(h, "blocked", IF k \in used THEN "probe" ELSE "taken")
    /\ UNCHANGED <<dbVars, codeLock, keyShare, deleting, askVars, failures>>

\* Variant: the probe asks for the client's own token.
Probe_OwnClient(h) ==
    /\ stage[h] = "probe"
    /\ IF shows[h] \in pairs \cap used /\ valid[h]
       THEN Goes(h, "probe", "reused") /\ UNCHANGED <<lockVars, askVars>>
       ELSE Ends(h)
    /\ UNCHANGED <<dbVars, failures>>

\* Variant: the probe asks only whether the token exists.
Probe_AnyToken(h) ==
    /\ stage[h] = "probe"
    /\ IF shows[h] \in pairs THEN Goes(h, "probe", "reused") /\ UNCHANGED <<lockVars, askVars>>
       ELSE Ends(h)
    /\ UNCHANGED <<dbVars, failures>>

\* A token that did not qualify is a replay only if it is marked used, whoever
\* presents it; otherwise the grant is rolled back.
Probe(h) ==
    /\ stage[h] = "probe"
    /\ IF shows[h] \in pairs \cap used THEN Goes(h, "probe", "reused") /\ UNCHANGED <<lockVars, askVars>>
       ELSE Ends(h)
    /\ UNCHANGED <<dbVars, failures>>

\* Variant: no deferred rollback behind the refusals.
RefuseStale_LeavesOpen(h) ==
    /\ ~ShowsCode(h)
    /\ Goes(h, "taken", "idle")
    /\ shows' = [shows EXCEPT ![h] = Nothing]
    /\ valid' = [valid EXCEPT ![h] = FALSE]
    /\ UNCHANGED <<dbVars, lockVars, failures>>

\* The target is behind, replaced or removed: both refusals roll back.
RefuseStale(h) ==
    /\ stage[h] = "taken" /\ ~ShowsCode(h)
    /\ Ends(h)
    /\ UNCHANGED <<dbVars, failures>>

-----------------------------------------------------------------------------
(* issue *)

Issue(h) ==
    /\ ShowsCode(h) => valid[h]
    /\ Goes(h, "taken", "issue")
    /\ UNCHANGED <<dbVars, lockVars, askVars, failures>>

\* Bound: one number for each pair written, committed or not. A grant beyond it
\* is rolled back.
Room == next + Cardinality({g \in Handler : stage[g] = "commit"}) <= MaxPairs

\* The foreign keys lock the session's row against deletion. A deletion under
\* way is waited for; a session that is gone fails the grant.
CreateTokenPair(h) ==
    LET s == SessionOf(h) IN
    /\ stage[h] = "issue" /\ deleting[s] = Nobody
    /\ IF s \in live /\ Room
       THEN /\ keyShare' = [keyShare EXCEPT ![s] = @ \cup {h}]
            /\ Goes(h, "issue", "commit")
            /\ UNCHANGED <<codeLock, pairLock, deleting, askVars>>
       ELSE Ends(h)
    /\ UNCHANGED <<dbVars, failures>>

\* What the grant consumes.
Consume(h) ==
    IF ShowsCode(h)
    THEN code' = [code EXCEPT ![shows[h]] = "spent"] /\ UNCHANGED used
    ELSE used' = used \cup {shows[h]} /\ UNCHANGED code

Commit(h) ==
    /\ stage[h] = "commit"
    /\ Consume(h)
    /\ pairs' = pairs \cup {next}
    /\ owner' = [owner EXCEPT ![next] = SessionOf(h)]
    /\ origin' = [origin EXCEPT ![next] = IF ShowsCode(h) THEN 0 ELSE shows[h]]
    /\ next' = next + 1
    /\ Ends(h)
    /\ UNCHANGED <<live, expired, failures>>

\* Variant: the consumption committed on its own, before the pair is written.
GrantFails_AfterConsuming(h) ==
    /\ stage[h] \in {"taken", "issue", "commit"}
    /\ Consume(h)
    /\ Ends(h)
    /\ UNCHANGED <<live, expired, pairs, owner, origin, next, failures>>

\* Any statement of the grant fails, or its client goes away: it rolls back.
GrantFails(h) ==
    /\ stage[h] \in {"code", "refresh", "blocked", "probe", "taken", "issue", "commit"}
    /\ failures < MaxFailures
    /\ failures' = failures + 1
    /\ Ends(h)
    /\ UNCHANGED dbVars

-----------------------------------------------------------------------------
(* RevokeSession *)

\* handleRevoke resolves either kind of token to its session.
SessionForToken(h, k) ==
    /\ k \in pairs
    /\ Goes(h, "idle", "revoke")
    /\ shows' = [shows EXCEPT ![h] = k]
    /\ UNCHANGED <<dbVars, lockVars, valid, failures>>

\* DELETE FROM sessions: the row is locked, waiting for the grants that refer to
\* it and for another deletion. The request's own grant is a transaction like
\* any other to it.
LockSession(h) ==
    LET s == SessionOf(h) IN
    /\ stage[h] \in {"reused", "revoke"}
    /\ deleting[s] = Nobody /\ keyShare[s] = {}
    /\ IF s \in live
       THEN /\ deleting' = [deleting EXCEPT ![s] = h]
            /\ Goes(h, stage[h], IF stage[h] = "reused" THEN "reusedCascade" ELSE "cascade")
            /\ UNCHANGED <<codeLock, pairLock, keyShare, askVars>>
       ELSE Ends(h)
    /\ UNCHANGED <<dbVars, failures>>

Children(s) == {k \in pairs : owner[k] = s}

\* Variant: the tokens revoked and the session kept.
Cascade_TokensOnly(h) ==
    LET s == SessionOf(h) IN
    /\ stage[h] \in {"cascade", "reusedCascade"}
    /\ \A k \in Children(s) : pairLock[k] = Nobody
    /\ pairs' = pairs \ Children(s)
    /\ Ends(h)
    /\ UNCHANGED <<live, expired, code, used, owner, origin, next, failures>>

\* Variant: only the token presented goes with its session.
Cascade_PresentedOnly(h) ==
    LET s == SessionOf(h) IN
    /\ stage[h] \in {"cascade", "reusedCascade"}
    /\ codeLock[s] = Nobody /\ pairLock[shows[h]] = Nobody
    /\ live' = live \ {s}
    /\ code' = [code EXCEPT ![s] = "spent"]
    /\ pairs' = pairs \ {shows[h]}
    /\ Ends(h)
    /\ UNCHANGED <<expired, used, owner, origin, next, failures>>

\* ON DELETE CASCADE: it waits for every transaction that has locked a code or
\* token of the session, also for the grant of this very request.
Cascade(h) ==
    LET s == SessionOf(h) IN
    /\ stage[h] \in {"cascade", "reusedCascade"}
    /\ codeLock[s] = Nobody
    /\ \A k \in Children(s) : pairLock[k] = Nobody
    /\ live' = live \ {s}
    /\ code' = [code EXCEPT ![s] = "spent"]
    /\ pairs' = pairs \ Children(s)
    /\ Ends(h)
    /\ UNCHANGED <<expired, used, owner, origin, next, failures>>

\* A database error; the request is answered (an error page to /revoke, "the
\* session has been revoked" to a replay) and the session stays.
RevokeFails(h) ==
    /\ stage[h] \in {"reused", "revoke", "cascade", "reusedCascade"}
    /\ failures < MaxFailures
    /\ failures' = failures + 1
    /\ Ends(h)
    /\ UNCHANGED dbVars

\* PostgreSQL sees a grant that waits for a deletion that waits for the grant's
\* own locks, and ends the grant. A request that waits for its own grant is no
\* cycle to it: the grant's connection waits for nothing.
Deadlocked(g, h) ==
    LET s == SessionOf(h) IN
    /\ stage[h] \in {"cascade", "reusedCascade"}
    /\ stage[g] = "issue" /\ SessionOf(g) = s
    /\ codeLock[s] = g \/ \E k \in Children(s) : pairLock[k] = g

DeadlockVictim(g) ==
    /\ \E h \in Request : Deadlocked(g, h)
    /\ Ends(g)
    /\ UNCHANGED <<dbVars, failures>>

-----------------------------------------------------------------------------
Token(h) ==
    \/ TakeAuthCode(h) \/ CodeExchangeMismatch(h)
    \/ TakeRefreshToken(h) \/ Unblock(h) \/ Probe(h)
    \/ Issue(h) \/ CreateTokenPair(h) \/ Commit(h) \/ DeadlockVictim(h)

Next ==
    \/ \E h \in Handler :
        \/ \E ok \in BOOLEAN : \/ \E s \in Sid : PresentCode(h, s, ok)
                               \/ \E k \in Pair : PresentToken(h, k, ok)
        \/ Token(h) \/ RefuseStale(h) \/ GrantFails(h)
    \/ \E h \in Revoker, k \in Pair : SessionForToken(h, k)
    \/ \E h \in Request : LockSession(h) \/ Cascade(h) \/ RevokeFails(h)
    \/ \E s \in Sid : Expire(s)

Spec == Init /\ [][Next]_vars

\* A handler runs on, and PostgreSQL serves the waiters for a row in turn, so a
\* lock that is released again and again is not missed for ever.
Fairness ==
    /\ \A h \in Handler : WF_vars(Token(h))
    /\ \A h \in Request : SF_vars(LockSession(h)) /\ SF_vars(Cascade(h))

FairSpec == Spec /\ Fairness

-----------------------------------------------------------------------------
(* Safety *)

\* However many requests race with one code or refresh token, and whatever
\* fails and is retried between them, each buys one pair at most (DELETE
\* ... RETURNING, UPDATE ... WHERE NOT used, and the row locks under them).
OnePairPerConsumption ==
    \A j, k \in 1..(next - 1) :
        origin[j] = origin[k] /\ owner[j] = owner[k] => j = k

\* Revocation leaves nothing behind: no token of a session survives it, and no
\* grant that was under way brings one back (the cascade, and the foreign keys
\* createTokenPair's inserts go through).
RevokedIsGone == \A k \in pairs : owner[k] \in live

\* A refresh token is used up only by the write of the pair that replaces it,
\* and a code only by its pair, by an exchange that does not match it, or with
\* its session: after any failure the client can retry (Grant).
SpentOnlyForSuccessor ==
    [][/\ \A k \in used' \ used : \E j \in pairs' \ pairs : origin'[j] = k
       /\ \A s \in Sid : code[s] # code'[s] =>
            \/ \E j \in pairs' \ pairs : owner'[j] = s /\ origin'[j] = 0
            \/ \E h \in Handler : shows[h] = s /\ codeLock[s] = h /\ ~valid[h]
            \/ s \notin live']_vars

\* A session ends only for a request to /revoke with one of its tokens, or for
\* a refresh token that had really been exchanged: no wrong client, failed
\* grant or honest retry of an unused token can end one (takeRefreshToken).
EndsOnlyForReplayOrRevoke ==
    [][\A s \in live \ live' : \E h \in Request :
            deleting[s] = h /\ SessionOf(h) = s /\ (h \in Revoker \/ shows[h] \in used)]_vars

-----------------------------------------------------------------------------
(* Liveness *)

Replays(h, s) == stage[h] = "refresh" /\ shows[h] \in pairs \cap used /\ owner[shows[h]] = s

\* A refresh token presented after it was exchanged ends its session, whoever
\* presents it (tokenFromRefresh: "the session goes").
ReplayEndsSession ==
    \A h \in Handler, s \in Sid : Replays(h, s) ~> (s \notin live)

\* A replay that is to end the session while its own grant holds the token's
\* lock: the session's other revocations wait for it too.
Hangs(h) == stage[h] \in {"reused", "reusedCascade"} /\ \E k \in Children(SessionOf(h)) : pairLock[k] = h

\* What may keep a session that was to end: a statement has failed, or a
\* request about the session hangs.
Kept(s) == failures > 0 \/ \E h \in Handler : Hangs(h) /\ SessionOf(h) = s

\* The same with all that the races between requests can do to it.
ReplayEndsSessionUnlessKept ==
    \A h \in Handler, s \in Sid : Replays(h, s) ~> (s \notin live \/ Kept(s))

\* A request to /revoke ends its session, whatever grants are under way
\* (handleRevoke: "Presenting either credential ends the whole session"), as
\* long as no request hangs.
RevokeEndsSessionUnlessKept ==
    \A h \in Revoker, s \in Sid :
        (stage[h] = "revoke" /\ SessionOf(h) = s) ~> (s \notin live \/ Kept(s))
==============================================================================
