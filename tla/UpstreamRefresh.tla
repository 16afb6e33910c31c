--------------------------- MODULE UpstreamRefresh ---------------------------
(***************************************************************************)
(* The provider token of a session and its refresh: what a request in      *)
(* provider_token mode does between the checks on its session and the      *)
(* forwarding (currentUpstreamToken, persistRefreshed), beside the others  *)
(* on its process, the ones on other replicas, and a provider that spends  *)
(* a refresh token when it rotates it.                                     *)
(*                                                                         *)
(* The fence of a write under an admin stamp is one step here; its lock is *)
(* modelled in StampedCredentials.                                         *)
(***************************************************************************)
EXTENDS Naturals

CONSTANTS
    Request,      \* handlers of MCP requests
    Replica,
    On,           \* the process each runs on
    Sid,          \* sessions
    Stripe,
    StripeOf,     \* the refresh lock of a session
    Nobody, Nothing,
    Attempts,     \* writes persistRefreshed tries: 3
    MaxIssued     \* bound: access tokens per session

ASSUME RefreshAssumption ==
    /\ On \in [Request -> Replica]
    /\ StripeOf \in [Sid -> Stripe]
    /\ Nobody \notin Request
    /\ Attempts \in Nat \ {0}
    /\ MaxIssued \in Nat

VARIABLES
    (* the provider *)
    issued,     \* the last access token it issued for a session
    honoured,   \* the refresh token it accepts for it
    expired,    \* access tokens that are past their life, or within a minute of it
    (* the database *)
    row,        \* the session's upstream_token
    replaced,   \* sessions whose target has been replaced
    (* the processes *)
    lock,       \* refreshLocks
    stage,      \* where each request is
    session,    \* the session it serves
    token,      \* the pair it has in hand
    tries,      \* writes tried by persistRefreshed
    (* ghosts *)
    kept,       \* pairs that have been in the row of a session
    lost,       \* sessions for which a pair was issued and never recorded
    raced       \* sessions two replicas were refreshing at once

providerVars == <<issued, honoured, expired>>
tableVars    == <<row, replaced>>
requestVars  == <<stage, session, token, tries>>
ghosts       == <<kept, lost, raced>>
vars         == <<providerVars, tableVars, lock, requestVars, ghosts>>

-----------------------------------------------------------------------------
(* State *)

\* Tokens are numbered in the order the provider issues them; refresh 0 is a
\* provider that issued none.
Token == [access : Nat, refresh : Nat]

Stages == {"idle", "wait", "reread", "provider", "write", "send"}

\* Where a request holds its refresh lock.
Inside == {"reread", "provider", "write"}

LockOf(q) == <<On[q], StripeOf[session[q]]>>

TypeOK ==
    /\ issued \in [Sid -> Nat]
    /\ honoured \in [Sid -> Nat]
    /\ expired \subseteq Sid \X Nat
    /\ row \in [Sid -> Token \cup {Nothing}]
    /\ replaced \subseteq Sid
    /\ lock \in [Replica \X Stripe -> Request \cup {Nobody}]
    /\ stage \in [Request -> Stages]
    /\ session \in [Request -> Sid \cup {Nothing}]
    /\ token \in [Request -> Token \cup {Nothing}]
    /\ tries \in [Request -> 0..(Attempts - 1)]
    /\ kept \in [Sid -> SUBSET Token]
    /\ lost \subseteq Sid
    /\ raced \subseteq Sid

\* The callback has stored what the provider's code exchange returned.
Init ==
    /\ issued = [s \in Sid |-> 1]
    /\ honoured \in [Sid -> {0, 1}]
    /\ expired = {}
    /\ row = [s \in Sid |-> [access |-> 1, refresh |-> honoured[s]]]
    /\ replaced = {}
    /\ lock = [l \in Replica \X Stripe |-> Nobody]
    /\ stage = [q \in Request |-> "idle"]
    /\ session = [q \in Request |-> Nothing]
    /\ token = [q \in Request |-> Nothing]
    /\ tries = [q \in Request |-> 0]
    /\ kept = [s \in Sid |-> {row[s]}]
    /\ lost = {}
    /\ raced = {}

Goes(q, to) == stage' = [stage EXCEPT ![q] = to]

\* The request is over: answered, here with an invalid_token challenge.
Leave(q) ==
    /\ stage' = [stage EXCEPT ![q] = "idle"]
    /\ session' = [session EXCEPT ![q] = Nothing]
    /\ token' = [token EXCEPT ![q] = Nothing]
    /\ tries' = [tries EXCEPT ![q] = 0]

\* A session, and its access token is good; or it can be refreshed.
Fresh(s, tok)  == tok # Nothing /\ <<s, tok.access>> \notin expired
Renewable(tok) == tok # Nothing /\ tok.refresh # 0

\* The request goes to the provider with the refresh token of tok.
Presents(q, tok) ==
    /\ stage' = [stage EXCEPT ![q] = "provider"]
    /\ token' = [token EXCEPT ![q] = tok]
    /\ UNCHANGED <<session, tries>>

\* The request has a token to forward with.
Sends(q, tok) ==
    /\ stage' = [stage EXCEPT ![q] = "send"]
    /\ token' = [token EXCEPT ![q] = tok]
    /\ tries' = [tries EXCEPT ![q] = 0]
    /\ UNCHANGED session

\* The deferred Unlock.
Unlock(q) == lock' = [lock EXCEPT ![LockOf(q)] = Nobody]

\* What a request that gives up takes with it.
Drops(q) ==
    lost' = IF stage[q] = "write" /\ token[q] # row[session[q]]
            THEN lost \cup {session[q]} ELSE lost

-----------------------------------------------------------------------------
(* The provider and the database *)

\* The access token of a session passes its life, or comes within the minute in
\* which expired() calls it so.
Expire(s) ==
    /\ <<s, issued[s]>> \notin expired
    /\ expired' = expired \cup {<<s, issued[s]>>}
    /\ UNCHANGED <<issued, honoured, tableVars, lock, requestVars, ghosts>>

\* /revoke, a replayed token, the sweep, or the purge after a replacement.
RevokeSession(s) ==
    /\ row[s] # Nothing
    /\ row' = [row EXCEPT ![s] = Nothing]
    /\ UNCHANGED <<providerVars, replaced, lock, requestVars, ghosts>>

\* An administrator replaces or removes the session's target.
Replace(s) ==
    /\ s \notin replaced
    /\ replaced' = replaced \cup {s}
    /\ UNCHANGED <<providerVars, row, lock, requestVars, ghosts>>

-----------------------------------------------------------------------------
(* A request *)

\* A request whose session has been found good reads its token, without the
\* lock; one that cannot is over.
LoadToken(q, s) ==
    LET tok == row[s] IN
    /\ stage[q] = "idle"
    /\ Fresh(s, tok) \/ Renewable(tok)
    /\ Goes(q, IF Fresh(s, tok) THEN "send" ELSE "wait")
    /\ session' = [session EXCEPT ![q] = s]
    /\ token' = [token EXCEPT ![q] = tok]
    /\ UNCHANGED <<providerVars, tableVars, lock, tries, ghosts>>

\* Others of the session on other replicas have locks of their own.
Lock(q) ==
    /\ stage[q] = "wait"
    /\ lock[LockOf(q)] = Nobody
    /\ lock' = [lock EXCEPT ![LockOf(q)] = q]
    /\ Goes(q, "reread")
    /\ raced' = IF \E p \in Request : On[p] # On[q] /\ session[p] = session[q] /\ stage[p] \in Inside
                THEN raced \cup {session[q]} ELSE raced
    /\ UNCHANGED <<providerVars, tableVars, session, token, tries, kept, lost>>

\* Variant: no second read; what was read before the wait is used.
Reread_Trusts(q) ==
    /\ stage[q] = "reread"
    /\ Goes(q, "provider")
    /\ UNCHANGED <<providerVars, tableVars, lock, session, token, tries, ghosts>>

\* Variant: the return of a token another request refreshed keeps the lock.
Reread_KeepsLock(q) ==
    LET tok == row[session[q]] IN
    /\ stage[q] = "reread"
    /\ IF Fresh(session[q], tok) THEN Sends(q, tok) /\ UNCHANGED lock
       ELSE IF Renewable(tok) THEN Presents(q, tok) /\ UNCHANGED lock
       ELSE Leave(q) /\ Unlock(q)
    /\ UNCHANGED <<providerVars, tableVars, ghosts>>

\* The second read: while the request waited, another may have refreshed the
\* token, or the session may have gone.
Reread(q) ==
    LET tok == row[session[q]] IN
    /\ stage[q] = "reread"
    /\ IF Fresh(session[q], tok) THEN Sends(q, tok) /\ Unlock(q)
       ELSE IF Renewable(tok) THEN Presents(q, tok) /\ UNCHANGED lock
       ELSE Leave(q) /\ Unlock(q)
    /\ UNCHANGED <<providerVars, tableVars, ghosts>>

\* Variant: an answer without a refresh token overwrites the one there was.
NextRefresh_Overwritten(old, new) == new

\* The refresh token the session has from now on: the provider's new one, or
\* the one it had when the answer carries none.
NextRefresh(old, new) == IF new = 0 THEN old ELSE new

\* The provider honours the refresh token it issued last. It may rotate it,
\* which spends it, or answer without one. The answer is on its way.
Accept(q) ==
    LET s == session[q] IN
    /\ stage[q] = "provider"
    /\ token[q].refresh = honoured[s] /\ issued[s] < MaxIssued
    /\ issued' = [issued EXCEPT ![s] = @ + 1]
    /\ \E new \in {0, issued[s] + 1} :
        /\ honoured' = [honoured EXCEPT ![s] = IF new = 0 THEN @ ELSE new]
        /\ token' = [token EXCEPT ![q] = [access |-> issued[s] + 1,
                                          refresh |-> NextRefresh(token[q].refresh, new)]]
    /\ Goes(q, "write")
    /\ UNCHANGED <<expired, tableVars, lock, session, tries, ghosts>>

\* A spent refresh token is refused.
Refuse(q) ==
    /\ stage[q] = "provider"
    /\ token[q].refresh # honoured[session[q]]
    /\ Leave(q)
    /\ Unlock(q)
    /\ UNCHANGED <<providerVars, tableVars, ghosts>>

Record(q) ==
    /\ row' = [row EXCEPT ![session[q]] = token[q]]
    /\ kept' = [kept EXCEPT ![session[q]] = @ \cup {token[q]}]

\* UpdateSessionToken on a session that is there and current: recorded, and
\* the token is used.
Persist(q) ==
    LET s == session[q] IN
    /\ stage[q] = "write"
    /\ row[s] # Nothing /\ s \notin replaced
    /\ Record(q)
    /\ Sends(q, token[q])
    /\ Unlock(q)
    /\ UNCHANGED <<providerVars, replaced, lost, raced>>

\* Variant: an error of the write is logged, and the token used all the same.
PersistRefused_Serves(q) ==
    LET s == session[q] IN
    /\ stage[q] = "write"
    /\ row[s] = Nothing \/ s \in replaced
    /\ Sends(q, token[q])
    /\ Unlock(q)
    /\ Drops(q)
    /\ UNCHANGED <<providerVars, tableVars, kept, raced>>

\* ErrNotFound or ErrStaleTarget: nothing of the session may be served.
PersistRefused(q) ==
    LET s == session[q] IN
    /\ stage[q] = "write"
    /\ row[s] = Nothing \/ s \in replaced
    /\ Leave(q)
    /\ Unlock(q)
    /\ Drops(q)
    /\ UNCHANGED <<providerVars, tableVars, kept, raced>>

\* Variant: counts one attempt too many.
PersistFails_OneMore(q) ==
    /\ stage[q] = "write" /\ tries[q] < Attempts
    /\ tries' = [tries EXCEPT ![q] = @ + 1]
    /\ UNCHANGED <<providerVars, tableVars, lock, stage, session, token, ghosts>>

\* A write fails, or its commit does not get through to this process although
\* the database made it. It is tried again, Attempts times in all.
PersistFails(q) ==
    /\ stage[q] = "write" /\ tries[q] < Attempts - 1
    /\ tries' = [tries EXCEPT ![q] = @ + 1]
    /\ \/ UNCHANGED <<row, kept>>
       \/ row[session[q]] # Nothing /\ session[q] \notin replaced /\ Record(q)
    /\ UNCHANGED <<providerVars, replaced, lock, stage, session, token, lost, raced>>

\* The database or the provider fails a step, discovery fails before the
\* provider is asked, its answer is lost, or the client has gone, which is
\* noticed at the next such step: the request ends. A wait for the lock does not.
Fails(q) ==
    /\ stage[q] \in Inside
    /\ Leave(q)
    /\ Unlock(q)
    /\ Drops(q)
    /\ UNCHANGED <<providerVars, tableVars, kept, raced>>

\* Forwarded upstream with the token.
Forward(q) ==
    /\ stage[q] = "send"
    /\ Leave(q)
    /\ UNCHANGED <<providerVars, tableVars, lock, ghosts>>

\* A process ends: its locks and whatever its requests had in hand go with it.
Restart(r) ==
    LET Here(q) == On[q] = r
        Dropped == {q \in Request : /\ Here(q) /\ stage[q] = "write"
                                    /\ token[q] # row[session[q]]} IN
    /\ \E q \in Request : Here(q) /\ stage[q] \in Inside
    /\ lock' = [l \in Replica \X Stripe |-> IF l[1] = r THEN Nobody ELSE lock[l]]
    /\ stage' = [q \in Request |-> IF Here(q) THEN "idle" ELSE stage[q]]
    /\ session' = [q \in Request |-> IF Here(q) THEN Nothing ELSE session[q]]
    /\ token' = [q \in Request |-> IF Here(q) THEN Nothing ELSE token[q]]
    /\ tries' = [q \in Request |-> IF Here(q) THEN 0 ELSE tries[q]]
    /\ lost' = lost \cup {session[q] : q \in Dropped}
    /\ UNCHANGED <<providerVars, tableVars, kept, raced>>

-----------------------------------------------------------------------------
\* What a request under way does next.
Step(q) ==
    \/ Reread(q) \/ Accept(q) \/ Refuse(q)
    \/ Persist(q) \/ PersistRefused(q) \/ PersistFails(q) \/ Fails(q) \/ Forward(q)

Next ==
    \/ \E s \in Sid : Expire(s) \/ RevokeSession(s) \/ Replace(s)
    \/ \E q \in Request, s \in Sid : LoadToken(q, s)
    \/ \E q \in Request : Lock(q) \/ Step(q)
    \/ \E r \in Replica : Restart(r)

Spec == Init /\ [][Next]_vars

\* A request that is not waiting goes on, every call it makes having a time
\* limit; a Go mutex is handed to a waiter that has waited long enough.
FairSpec == Spec /\ \A q \in Request : WF_vars(Step(q)) /\ SF_vars(Lock(q))

-----------------------------------------------------------------------------
(* Properties *)

\* What a refresh race could have broken.
Undisturbed(s) == s \notin lost \cup raced

\* A burst of requests never spends a refresh token twice: what a request is
\* about to present is what the provider honours, unless a rotated pair was
\* lost or two replicas refreshed the session at once (the lock is one
\* process's).
PresentsHonoured ==
    \A q \in Request : stage[q] = "provider" /\ Undisturbed(session[q])
        => token[q].refresh = honoured[session[q]]

\* A burst makes one refresh: the provider issues a further access token for a
\* session only once the one before it has expired, with the same exceptions.
RefreshesOnlyExpired ==
    [][\A s \in Sid : issued'[s] # issued[s] /\ Undisturbed(s) => <<s, issued[s]>> \in expired]_vars

\* Between refreshes the row holds the pair the provider issued last, whether
\* or not it rotated the refresh token, through failed writes and retries.
RowFollowsProvider ==
    \A s \in Sid :
        /\ row[s] # Nothing /\ Undisturbed(s)
        /\ ~ \E q \in Request : session[q] = s /\ stage[q] = "write"
        => row[s] = [access |-> issued[s], refresh |-> honoured[s]]

\* No provider token is forwarded that its session did not hold at some moment
\* at which it was neither revoked nor of a replaced target.
SentWasRecorded ==
    \A q \in Request : stage[q] = "send" => token[q] \in kept[session[q]]

\* Every request that waits for a refresh is answered, also behind one whose
\* refresh is refused, fails, or was made unnecessary.
WaitersAreAnswered == \A q \in Request : stage[q] = "wait" ~> stage[q] = "idle"
=============================================================================
