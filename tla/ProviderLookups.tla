--------------------------- MODULE ProviderLookups ---------------------------
(***************************************************************************)
(* The two documents a request to /authorize waits for: the client's       *)
(* metadata document (cimd.go), when its client_id is a URL, and then the  *)
(* provider's discovery document (upstream.go), which every sign-in, page  *)
(* and token request needs too. Both are kept in memory, both remember a   *)
(* failure for a while, and both are fetched while other requests run.     *)
(*                                                                         *)
(* Times are ages: what matters of a document is how old it is. The clock  *)
(* ticks between any two steps, so a fetch may take any number of ticks.   *)
(***************************************************************************)
EXTENDS Integers, FiniteSets

CONSTANTS
    Caller,       \* requests under way at once
    ClientId,     \* client_ids that are URLs
    TTL,          \* discoveryTTL
    MaxStale,     \* discoveryMaxStale
    RetryAfter,   \* discoveryRetryAfter
    DocTTL,       \* cimdCacheTTL
    FailTTL,      \* cimdFailureTTL
    CacheSize,    \* cimdCacheSize
    MaxHangUps,   \* bound: clients that go away
    None

ASSUME LookupsAssumption ==
    /\ {TTL, MaxStale, RetryAfter, DocTTL, FailTTL, CacheSize} \subseteq Nat \ {0}
    /\ TTL < MaxStale /\ FailTTL < DocTTL
    /\ MaxHangUps \in Nat /\ None \notin Int

VARIABLES
    outage,     \* whether fetches fail: "never" did, "on" or "over"
    hangups,
    (* Upstream *)
    meta,       \* age of the document, None without one
    failed,     \* age of the last failure, None after a success
    fetching,   \* whether a fetch is under way
    (* cimdClient *)
    docs,       \* cache: time each entry has left, None without one
    refusals,   \* failures: the same
    (* the requests *)
    stage,
    asks,       \* the client_id
    seen,       \* age of the discovery document it has read, or answered with
    early       \* ghost: the requests there were when discovery last failed

upstreamVars == <<meta, failed, fetching>>
cimdVars     == <<docs, refusals>>
callerVars   == <<stage, asks, seen>>
vars == <<outage, hangups, upstreamVars, cimdVars, callerVars, early>>

-----------------------------------------------------------------------------
Age == 0..MaxStale

\* client, wait: a fetch is waited for. meta, join: on the way to the next step
\* of Meta. unknown: no client. refused, page: Meta's error or document, whatever
\* its caller makes of it.
Stages == {"idle", "client", "meta", "join", "wait", "unknown", "refused", "page"}

TypeOK ==
    /\ outage \in {"never", "on", "over"}
    /\ hangups \in 0..MaxHangUps
    /\ meta \in Age \cup {None}
    /\ failed \in 0..RetryAfter \cup {None}
    /\ fetching \in BOOLEAN
    /\ docs \in [ClientId -> 0..DocTTL \cup {None}]
    /\ refusals \in [ClientId -> 0..FailTTL \cup {None}]
    /\ stage \in [Caller -> Stages]
    /\ asks \in [Caller -> ClientId \cup {None}]
    /\ seen \in [Caller -> Age \cup {None}]
    /\ early \subseteq Caller
    /\ Cardinality({id \in ClientId : docs[id] # None}) <= CacheSize
    /\ Cardinality({id \in ClientId : refusals[id] # None}) <= CacheSize
    /\ (\E c \in Caller : stage[c] = "wait") => fetching

Init ==
    /\ outage \in {"never", "on"}
    /\ hangups = 0
    /\ meta = None /\ failed = None /\ fetching = FALSE
    /\ docs = [id \in ClientId |-> None]
    /\ refusals = [id \in ClientId |-> None]
    /\ stage = [c \in Caller |-> "idle"]
    /\ asks = [c \in Caller |-> None]
    /\ seen = [c \in Caller |-> None]
    /\ early = {}

Goes(c, from, to) == stage[c] = from /\ stage' = [stage EXCEPT ![c] = to]

Older(age, cap) == IF age = None \/ age = cap THEN age ELSE age + 1
Shorter(left) == IF left = None \/ left = 0 THEN left ELSE left - 1

Tick ==
    /\ meta' = Older(meta, MaxStale)
    /\ failed' = Older(failed, RetryAfter)
    /\ docs' = [id \in ClientId |-> Shorter(docs[id])]
    /\ refusals' = [id \in ClientId |-> Shorter(refusals[id])]
    /\ seen' = [c \in Caller |-> IF stage[c] \in {"join", "wait"} THEN Older(seen[c], MaxStale) ELSE seen[c]]
    /\ UNCHANGED <<outage, hangups, fetching, stage, asks, early>>

\* The network and the hosts on it work again, for good.
Mend ==
    /\ outage = "on"
    /\ outage' = "over"
    /\ UNCHANGED <<hangups, upstreamVars, cimdVars, callerVars, early>>

-----------------------------------------------------------------------------
(* The client's metadata document: cimdClient.Fetch *)

Live(left) == left # None /\ left > 0

\* Variant: a failure is remembered until its entry goes.
Ask_UntilEvicted(c, id) ==
    /\ stage[c] = "idle"
    /\ stage' = [stage EXCEPT ![c] = IF Live(docs[id]) THEN "meta"
                                     ELSE IF refusals[id] # None THEN "unknown" ELSE "client"]
    /\ asks' = [asks EXCEPT ![c] = id]
    /\ UNCHANGED <<outage, hangups, upstreamVars, cimdVars, seen, early>>

\* A document is looked for first, then a failure; without either it is fetched.
Ask(c, id) ==
    /\ stage[c] = "idle"
    /\ stage' = [stage EXCEPT ![c] = IF Live(docs[id]) THEN "meta"
                                     ELSE IF Live(refusals[id]) THEN "unknown" ELSE "client"]
    /\ asks' = [asks EXCEPT ![c] = id]
    /\ UNCHANGED <<outage, hangups, upstreamVars, cimdVars, seen, early>>

\* A full map, lapsed entries included, is cleared before the next one goes in.
Put(entries, id, ttl) ==
    IF Cardinality({i \in ClientId : entries[i] # None}) >= CacheSize
    THEN [i \in ClientId |-> IF i = id THEN ttl ELSE None]
    ELSE [entries EXCEPT ![id] = ttl]

StoreDocument(c) ==
    /\ Goes(c, "client", "meta")
    /\ docs' = Put(docs, asks[c], DocTTL)
    /\ UNCHANGED <<outage, hangups, upstreamVars, refusals, asks, seen, early>>

\* Failures are held apart from documents.
StoreFailure(c) ==
    /\ refusals' = Put(refusals, asks[c], FailTTL)
    /\ UNCHANGED docs

FetchFails(c) ==
    /\ outage = "on"
    /\ Goes(c, "client", "unknown")
    /\ StoreFailure(c)
    /\ UNCHANGED <<outage, hangups, upstreamVars, asks, seen, early>>

-----------------------------------------------------------------------------
(* The provider's document: Upstream.Meta *)

Usable(age) == age # None /\ age < MaxStale

Holds(c, to) ==
    /\ stage' = [stage EXCEPT ![c] = to]
    /\ seen' = [seen EXCEPT ![c] = meta]

\* Variant: the back-off answers with the failure, whatever is held.
Read_BackOffFirst(c) ==
    /\ stage[c] = "meta"
    /\ Holds(c, IF meta # None /\ meta < TTL THEN "page"
                ELSE IF failed # None /\ failed < RetryAfter THEN "refused" ELSE "join")
    /\ UNCHANGED <<outage, hangups, upstreamVars, cimdVars, asks, early>>

\* Variant: no back-off.
Read_Always(c) ==
    /\ stage[c] = "meta"
    /\ Holds(c, IF meta # None /\ meta < TTL THEN "page" ELSE "join")
    /\ UNCHANGED <<outage, hangups, upstreamVars, cimdVars, asks, early>>

\* Under the read lock: a document within its time is used; for a while after
\* a failure the one that is held is, or the failure; otherwise it is fetched.
Read(c) ==
    /\ stage[c] = "meta"
    /\ Holds(c, IF meta # None /\ meta < TTL THEN "page"
                ELSE IF failed # None /\ failed < RetryAfter
                     THEN IF Usable(meta) THEN "page" ELSE "refused"
                ELSE "join")
    /\ UNCHANGED <<outage, hangups, upstreamVars, cimdVars, asks, early>>

\* Singleflight: the caller joins the fetch under way, or starts one.
Join(c) ==
    /\ Goes(c, "join", "wait")
    /\ fetching' = TRUE
    /\ UNCHANGED <<outage, hangups, meta, failed, cimdVars, asks, seen, early>>

Waiting == {c \in Caller : stage[c] = "wait"}

\* One of the two well-known paths has a usable document: it goes to all.
Fetched ==
    /\ fetching
    /\ fetching' = FALSE
    /\ meta' = 0 /\ failed' = None
    /\ stage' = [c \in Caller |-> IF c \in Waiting THEN "page" ELSE stage[c]]
    /\ seen' = [c \in Caller |-> IF c \in Waiting THEN 0 ELSE seen[c]]
    /\ UNCHANGED <<outage, hangups, cimdVars, asks, early>>

\* Neither has: who holds a document that is not too old goes on with it.
DiscoveryFailed ==
    /\ fetching' = FALSE
    /\ stage' = [c \in Caller |-> IF c \notin Waiting THEN stage[c]
                                  ELSE IF Usable(seen[c]) THEN "page" ELSE "refused"]
    /\ failed' = 0
    /\ early' = {c \in Caller : stage[c] # "idle"}

DiscoveryFails ==
    /\ outage = "on" /\ fetching
    /\ DiscoveryFailed
    /\ UNCHANGED <<outage, hangups, meta, cimdVars, asks, seen>>

-----------------------------------------------------------------------------
(* Clients that go away, and answers *)

\* Variant: the fetch runs in the context of the callers.
HangUp_EndsFetch(c) ==
    /\ hangups < MaxHangUps /\ hangups' = hangups + 1
    /\ \/ /\ Goes(c, "client", "idle")
          /\ StoreFailure(c)
          /\ UNCHANGED <<failed, fetching, early>>
       \/ /\ stage[c] = "wait"
          /\ DiscoveryFailed
          /\ UNCHANGED cimdVars
    /\ UNCHANGED <<outage, meta, asks, seen>>

\* The client's document is fetched in the request's own context, and what ends
\* it is remembered like any failure. The provider's is fetched for everyone.
HangUp(c) ==
    /\ hangups < MaxHangUps /\ hangups' = hangups + 1
    /\ \/ Goes(c, "client", "idle") /\ StoreFailure(c)
       \/ Goes(c, "wait", "idle") /\ UNCHANGED cimdVars
    /\ asks' = [asks EXCEPT ![c] = None]
    /\ seen' = [seen EXCEPT ![c] = None]
    /\ early' = early \ {c}
    /\ UNCHANGED <<outage, upstreamVars>>

Answer(c) ==
    /\ stage[c] \in {"unknown", "refused", "page"}
    /\ stage' = [stage EXCEPT ![c] = "idle"]
    /\ asks' = [asks EXCEPT ![c] = None]
    /\ seen' = [seen EXCEPT ![c] = None]
    /\ early' = early \ {c}
    /\ UNCHANGED <<outage, hangups, upstreamVars, cimdVars>>

Step(c) == Read(c) \/ Join(c) \/ Answer(c)

FetchEnds(c) == StoreDocument(c) \/ FetchFails(c)

Next ==
    \/ Tick \/ Mend \/ Fetched \/ DiscoveryFails
    \/ \E c \in Caller : Step(c) \/ FetchEnds(c) \/ HangUp(c) \/ \E id \in ClientId : Ask(c, id)

Spec == Init /\ [][Next]_vars

\* A request runs on, a fetch ends within its client's timeout, time passes.
FairSpec ==
    /\ Spec
    /\ WF_vars(Tick) /\ WF_vars(Fetched \/ DiscoveryFails)
    /\ \A c \in Caller : WF_vars(Step(c)) /\ WF_vars(FetchEnds(c))

-----------------------------------------------------------------------------
(* Properties *)

\* An outage does not take a request down while a document that is not too old
\* is held, whether the request finds the back-off, waits for a fetch that
\* fails or comes after one; and no request goes on with one that is (Meta).
OutagesAreSurvived ==
    \A c \in Caller :
        /\ stage[c] = "refused" => ~Usable(seen[c])
        /\ stage[c] = "page" => Usable(seen[c])

\* A caller that goes away fails nobody else's sign-in: without an outage no
\* request is refused for the provider's sake (WithoutCancel in Meta).
NobodyPaysForAHangUp ==
    outage = "never" => \A c \in Caller : stage[c] # "refused"

\* For a while after a failed discovery only requests that were under way when
\* it failed can cause another attempt: callers that keep coming do not multiply
\* the load on a provider that is down (discoveryRetryAfter).
BackOffHolds ==
    [][~fetching /\ fetching' /\ failed # None /\ failed < RetryAfter =>
          \E c \in early : stage[c] = "join" /\ stage'[c] = "wait"]_vars

\* When an outage is over, so are its consequences, and those of clients that
\* hung up: remembered failures, back-offs and stale documents all run out, and
\* from some time on no request is refused.
OutagesEnd ==
    (outage # "on") ~> [](\A c \in Caller : stage[c] \notin {"unknown", "refused"})
=============================================================================
