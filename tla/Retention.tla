------------------------------ MODULE Retention ------------------------------
(***************************************************************************)
(* Lifetimes (store.go: Sweep, and the age each lookup demands) and the    *)
(* sign-ins they cut across (oauth.go: handleRegister, handleAuthorize,    *)
(* handleCallback, tokenFromCode, tokenFromRefresh).                       *)
(*                                                                         *)
(* Nothing but age and reference decides what the sweep deletes, and its   *)
(* statements run one by one, on every replica, against whatever requests  *)
(* are doing. Here a clock ticks between any two steps. A grant is one     *)
(* step: it is one transaction (TokenGrants). The stamps are left out.     *)
(***************************************************************************)
EXTENDS Naturals, FiniteSets, Sequences

CONSTANTS
    Client, Sid,      \* registrations, and authorizations (each becomes a session)
    ClientOf,         \* the client of each authorization
    Sweeper,          \* replicas
    FlowTTL, CodeTTL, AccessTTL, RefreshTTL, SessionTTL, UnusedClientTTL,
    Hour, Day,        \* the margins the sweep adds
    Never,
    MaxTime,          \* bound: the clock
    MaxPairs,         \* bound: token pairs
    MaxFailures       \* bound: statements of the sweep that fail

Time == 0..MaxTime
Pair == 1..MaxPairs

ASSUME LifetimesAssumption ==
    /\ ClientOf \in [Sid -> Client]
    /\ {FlowTTL, CodeTTL, AccessTTL, RefreshTTL, SessionTTL, UnusedClientTTL,
        Hour, Day, MaxTime, MaxPairs, MaxFailures} \subseteq Nat
    /\ FlowTTL <= Hour /\ CodeTTL <= Hour /\ RefreshTTL <= SessionTTL
    /\ Never \notin Nat

VARIABLES
    now,
    client,      \* table clients: created_at, or Never without a row
    flow,        \* table flows
    session,     \* table sessions
    code,        \* table auth_codes
    access,      \* table access_tokens: the pairs with a row
    refresh,     \* table refresh_tokens
    used,        \* the pairs whose refresh token is marked used
    issued,      \* created_at and session of every pair so far
    stage,       \* where the request of each authorization is
    next,        \* the next statement of each replica's sweep, 0 between sweeps
    failures

rowVars == <<client, flow, session, code, access, refresh, used, issued>>
vars    == <<now, rowVars, stage, next, failures>>

\* The statements of Sweep, in their order.
Statements == <<"flows", "auth_codes", "access_tokens", "refresh_tokens",
                "sessions past their lifetime", "sessions abandoned", "clients">>

TypeOK ==
    /\ now \in Time
    /\ client \in [Client -> Time \cup {Never}]
    /\ flow \in [Sid -> Time \cup {Never}]
    /\ session \in [Sid -> Time \cup {Never}]
    /\ code \in [Sid -> Time \cup {Never}]
    /\ issued \in Seq([at : Time, sid : Sid])
    /\ Len(issued) <= MaxPairs
    /\ access \subseteq DOMAIN issued /\ refresh \subseteq DOMAIN issued
    /\ used \subseteq DOMAIN issued
    /\ stage \in [Sid -> {"new", "resolved", "consent", "exchange", "session", "over"}]
    /\ next \in [Sweeper -> 0..Len(Statements)]
    /\ failures \in 0..MaxFailures
    \* the foreign keys: no row without its session
    /\ \A s \in Sid : session[s] = Never =>
          code[s] = Never /\ \A k \in access \cup refresh : issued[k].sid # s

Init ==
    /\ now = 0
    /\ client = [c \in Client |-> Never]
    /\ flow = [s \in Sid |-> Never]
    /\ session = [s \in Sid |-> Never]
    /\ code = [s \in Sid |-> Never]
    /\ access = {} /\ refresh = {} /\ used = {}
    /\ issued = <<>>
    /\ stage = [s \in Sid |-> "new"]
    /\ next = [w \in Sweeper |-> 0]
    /\ failures = 0

-----------------------------------------------------------------------------
(* Ages *)

\* created_at > now() - ttl
Within(at, ttl) == at # Never /\ now < at + ttl

\* created_at < now() - age
OlderThan(at, age) == at # Never /\ at + age < now

PairsOf(s) == {k \in DOMAIN issued : issued[k].sid = s}

\* LookupAccessToken and takeRefreshToken.
AccessAccepted(k) ==
    /\ k \in access /\ Within(issued[k].at, AccessTTL)
    /\ Within(session[issued[k].sid], SessionTTL)

RefreshAccepted(k) ==
    /\ k \in refresh \ used /\ Within(issued[k].at, RefreshTTL)
    /\ Within(session[issued[k].sid], SessionTTL)

Tick ==
    /\ now < MaxTime
    /\ now' = now + 1
    /\ UNCHANGED <<rowVars, stage, next, failures>>

-----------------------------------------------------------------------------
(* Requests *)

Moves(s, from, to) == stage[s] = from /\ stage' = [stage EXCEPT ![s] = to]

\* handleRegister
Register(c) ==
    /\ client[c] = Never /\ \A s \in Sid : ClientOf[s] = c => stage[s] = "new"
    /\ client' = [client EXCEPT ![c] = now]
    /\ UNCHANGED <<now, flow, session, code, access, refresh, used, issued, stage, next, failures>>

\* handleAuthorize reads the client, and later stores the flow.
ResolveClient(s) ==
    /\ client[ClientOf[s]] # Never
    /\ Moves(s, "new", "resolved")
    /\ UNCHANGED <<now, rowVars, next, failures>>

CreateFlow(s) ==
    /\ Moves(s, "resolved", "consent")
    /\ flow' = [flow EXCEPT ![s] = now]
    /\ UNCHANGED <<now, client, session, code, access, refresh, used, issued, next, failures>>

\* handleCallback: the flow is deleted as it is read, and the provider asked.
TakeApprovedFlow(s) ==
    /\ Within(flow[s], FlowTTL)
    /\ Moves(s, "consent", "exchange")
    /\ flow' = [flow EXCEPT ![s] = Never]
    /\ UNCHANGED <<now, client, session, code, access, refresh, used, issued, next, failures>>

CreateSession(s) ==
    /\ Moves(s, "exchange", "session")
    /\ session' = [session EXCEPT ![s] = now]
    /\ UNCHANGED <<now, client, flow, code, access, refresh, used, issued, next, failures>>

\* The foreign key refuses a code for a session that is gone.
CreateAuthCode(s) ==
    /\ Moves(s, "session", "over")
    /\ code' = [code EXCEPT ![s] = IF session[s] = Never THEN Never ELSE now]
    /\ UNCHANGED <<now, client, flow, session, access, refresh, used, issued, next, failures>>

\* The user declines, the provider refuses or a statement fails.
GivesUp(s) ==
    /\ stage[s] \notin {"new", "over"}
    /\ stage' = [stage EXCEPT ![s] = "over"]
    /\ flow' = [flow EXCEPT ![s] = IF stage[s] = "consent" THEN @ ELSE Never]
    /\ UNCHANGED <<now, client, session, code, access, refresh, used, issued, next, failures>>

IssuePair(s) ==
    /\ Len(issued) < MaxPairs
    /\ issued' = Append(issued, [at |-> now, sid |-> s])
    /\ access' = access \cup {Len(issued')}
    /\ refresh' = refresh \cup {Len(issued')}

\* tokenFromCode
RedeemCode(s) ==
    /\ Within(code[s], CodeTTL)
    /\ code' = [code EXCEPT ![s] = Never]
    /\ IssuePair(s)
    /\ UNCHANGED <<now, client, flow, session, used, stage, next, failures>>

\* tokenFromRefresh
RedeemRefresh(k) ==
    /\ RefreshAccepted(k)
    /\ used' = used \cup {k}
    /\ IssuePair(issued[k].sid)
    /\ UNCHANGED <<now, client, flow, session, code, stage, next, failures>>

\* A session's row goes and its codes and tokens with it.
DropSessions(S) ==
    /\ session' = [s \in Sid |-> IF s \in S THEN Never ELSE session[s]]
    /\ code' = [s \in Sid |-> IF s \in S THEN Never ELSE code[s]]
    /\ access' = {k \in access : issued[k].sid \notin S}
    /\ refresh' = {k \in refresh : issued[k].sid \notin S}

\* A replay that is recognised, or /revoke with any token there is a row for.
RevokeSession(k) ==
    /\ k \in access \cup refresh
    /\ DropSessions({issued[k].sid})
    /\ UNCHANGED <<now, client, flow, used, issued, stage, next, failures>>

-----------------------------------------------------------------------------
(* The sweep *)

\* Variant: an authorization code does not keep its session.
AbandonedSessions_IgnoringCodes ==
    {s \in Sid : OlderThan(session[s], Hour) /\ PairsOf(s) \cap (access \cup refresh) = {}}

\* A session nothing points at any more.
AbandonedSessions ==
    {s \in Sid : OlderThan(session[s], Hour) /\ code[s] = Never
                 /\ PairsOf(s) \cap (access \cup refresh) = {}}

\* Refresh tokens, used or not, a day past their lifetime.
SpentTokens == {k \in refresh : OlderThan(issued[k].at, RefreshTTL + Day)}

\* A registration no flow, code or token refers to.
UnusedClients ==
    {c \in Client :
        /\ OlderThan(client[c], UnusedClientTTL)
        /\ \A s \in Sid : ClientOf[s] = c =>
              /\ flow[s] = Never /\ code[s] = Never
              /\ PairsOf(s) \cap (access \cup refresh) = {}}

Deletes(statement) ==
    CASE statement = "flows" ->
            /\ flow' = [s \in Sid |-> IF OlderThan(flow[s], Hour) THEN Never ELSE flow[s]]
            /\ UNCHANGED <<client, session, code, access, refresh>>
      [] statement = "auth_codes" ->
            /\ code' = [s \in Sid |-> IF OlderThan(code[s], Hour) THEN Never ELSE code[s]]
            /\ UNCHANGED <<client, flow, session, access, refresh>>
      [] statement = "access_tokens" ->
            /\ access' = {k \in access : ~OlderThan(issued[k].at, AccessTTL + Day)}
            /\ UNCHANGED <<client, flow, session, code, refresh>>
      [] statement = "refresh_tokens" ->
            /\ refresh' = refresh \ SpentTokens
            /\ UNCHANGED <<client, flow, session, code, access>>
      [] statement = "sessions past their lifetime" ->
            /\ DropSessions({s \in Sid : OlderThan(session[s], SessionTTL)})
            /\ UNCHANGED <<client, flow>>
      [] statement = "sessions abandoned" ->
            /\ DropSessions(AbandonedSessions)
            /\ UNCHANGED <<client, flow>>
      [] statement = "clients" ->
            /\ client' = [c \in Client |-> IF c \in UnusedClients THEN Never ELSE client[c]]
            /\ UNCHANGED <<flow, session, code, access, refresh>>

StartSweep(w) ==
    /\ next[w] = 0
    /\ next' = [next EXCEPT ![w] = 1]
    /\ UNCHANGED <<now, rowVars, stage, failures>>

\* Variant: once a statement has failed, the failure is reported for ever.
Sweep_StickyError(w) ==
    /\ next[w] # 0
    /\ IF failures = 0 THEN Deletes(Statements[next[w]])
       ELSE UNCHANGED <<client, flow, session, code, access, refresh>>
    /\ next' = [next EXCEPT ![w] = (@ + 1) % (Len(Statements) + 1)]
    /\ UNCHANGED <<now, used, issued, stage, failures>>

\* Each statement is a transaction of its own.
Sweep(w) ==
    /\ next[w] # 0
    /\ Deletes(Statements[next[w]])
    /\ next' = [next EXCEPT ![w] = (@ + 1) % (Len(Statements) + 1)]
    /\ UNCHANGED <<now, used, issued, stage, failures>>

\* A statement that fails ends this sweep; the next one starts from the top.
SweepFails(w) ==
    /\ next[w] # 0 /\ failures < MaxFailures
    /\ failures' = failures + 1
    /\ next' = [next EXCEPT ![w] = 0]
    /\ UNCHANGED <<now, rowVars, stage>>

-----------------------------------------------------------------------------
SignIn(s) ==
    ResolveClient(s) \/ CreateFlow(s) \/ TakeApprovedFlow(s) \/ CreateSession(s)
        \/ CreateAuthCode(s) \/ GivesUp(s) \/ RedeemCode(s)

Next ==
    \/ Tick
    \/ \E c \in Client : Register(c)
    \/ \E s \in Sid : SignIn(s)
    \/ \E k \in DOMAIN issued : RedeemRefresh(k) \/ RevokeSession(k)
    \/ \E w \in Sweeper : StartSweep(w) \/ Sweep(w) \/ SweepFails(w)

Spec == Init /\ [][Next]_vars

\* Every replica sweeps every half hour for as long as it runs (Server.sweep).
FairSpec == Spec /\ \A w \in Sweeper : WF_vars(StartSweep(w) \/ Sweep(w))

-----------------------------------------------------------------------------
(* Properties *)

\* What a client can go on with: a page to approve, a code or a token.
Usable(s) ==
    \/ Within(flow[s], FlowTTL)
    \/ Within(code[s], CodeTTL) /\ Within(session[s], SessionTTL)
    \/ \E k \in PairsOf(s) : AccessAccepted(k) \/ RefreshAccepted(k)

\* No statement of a sweep, on any replica and between any two steps of a
\* sign-in, takes from a client what the lookups would still accept: the sweep
\* only deletes what is already refused, and no registration that a page, code
\* or token still needs.
SweepTakesNothingUsable ==
    [][next' # next =>
        \A s \in Sid : Usable(s) =>
            /\ Usable(s)'
            /\ client[ClientOf[s]] # Never => client'[ClientOf[s]] # Never]_vars

\* A session past its lifetime, and one nobody can reach any more, goes in the
\* end and the provider's token with it, whichever statements fail on the way.
ProviderTokensGo ==
    \A s \in Sid : (OlderThan(session[s], SessionTTL) \/ s \in AbandonedSessions)
        ~> (session[s] = Never \/ code[s] # Never)
==============================================================================
