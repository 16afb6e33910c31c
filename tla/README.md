# mcp-oauth-proxy: specification

TLA+ models of the proxy under `src/`, the TLC configurations that check them,
and TLAPS proofs about them. Line references such as `store.go:741` are to files
under `src/`.

The proxy stands between MCP clients and MCP servers ("targets"). To clients it
is an OAuth authorization server: they register, send their user through a
consent page and an OpenID provider, and get access and refresh tokens. It then
forwards their requests to a target with one of three credentials: the user's
provider token, a value an administrator sealed (`static`), or values the user
typed into a settings page (`per_user`). Several replicas run side by side and
share nothing but a PostgreSQL database.

Contents: [inventory](#inventory) · [modules](#modules) ·
[runs](#runs-and-bounds) · [fairness](#fairness) · [proofs](#proofs) ·
[findings](#findings) · [what is left out](#what-is-left-out) · [plan](#plan)

## Inventory

| component | where | state | modelled in |
|---|---|---|---|
| Stamps and snapshots | `stamp.go`, `registry.go` | one immutable snapshot per replica | `Stamps`, `ServedTargets` |
| Target registry | `registry.go`, `store.go`, `admin.go` | tables `targets`, `targets_version`; `registry.cur`, `buildMu`; admin pages | `TargetRegistry` |
| Stamped rows | `store.go`, `oauth.go`, `settings.go` | tables `flows`, `sessions`, `user_credentials` | `StampedCredentials` |
| Proxied requests | `proxy.go`, `settings.go` | what one request has read | `StampedCredentials` |
| Token endpoint, revocation | `oauth.go`, `store.go` | `auth_codes`, `access_tokens`, `refresh_tokens`, `sessions`; open transactions | `TokenGrants` |
| Retention | `store.go`, `main.go` | the age of every row | `Retention` |
| Provider token refresh | `proxy.go`, `upstream.go`, `store.go` | `refreshLocks`, `sessions.upstream_token`, the provider's current pair | `UpstreamRefresh` |
| Consent, browser binding | `oauth.go`, `consent.go`, `store.go` | `flows` with approval and browser hash, the browser's cookie | `LoginFlows`, `ConsentPromise` |
| Settings and admin logins | `settings.go`, `admin.go` | `settings_flows`, session cookies, admin forms | `LoginFlows` |
| Provider discovery | `upstream.go` | cached document, back-off, single flight | `ProviderLookups` |
| Client metadata documents | `cimd.go` | caches of documents and failures | `ProviderLookups` |
| Stray credential sweep | `store.go`, `main.go` | tables `stamp_seen`, `user_credentials` | `StraySweep` |
| Rate limiter, in-flight bound | `ratelimit.go`, `proxy.go` | windows per key, slots per target | planned |
| Configuration, dial guard, redirect rules, sealing, pages, migration | `config.go`, `dialguard.go`, `redirect.go`, `crypto.go`, `ui.go`, `store.go` | none that changes while serving | not planned |

### The parts and what makes them correct

**Stamps and snapshots.** A stamp is a hash over a target's name, URL,
credential mode, per-user fields and *generation*, a random value re-rolled with
every change of definition. Rows written for a target carry its stamp, so they
end with the definition they belong to. A replica serves from one snapshot:
the targets of its own configuration merged with the admin targets of the
database; a database row outranks a configured target of its name, even one this
deployment refuses to serve. *Correct* means: a snapshot is exactly one version
of the table, never older than the one before it, and a stamp that was replaced
is never used again.

**Target registry.** Administrators edit through pages rendered earlier, from
any replica. A page names its row by `row_id` and `revision` (the target key);
an edit that would change the stamp must go through a confirmation page. The
edit's transaction locks the row, checks the key, re-rolls the generation if the
stamp moves, bumps `targets_version`. Replicas poll that version, and rebuild
under `buildMu`. *Hard*: stale pages, two administrators, a slow rebuild beside
a fast one, a failed rebuild, a restart with another configuration between the
commit and the rebuild. *Correct*: no lost update, no unconfirmed replacement,
a sealed value never moves to another URL, every replica converges.

**Stamped rows.** Sign-ins and the settings page write rows under a stamp they
looked up in a snapshot that may be old. `Store.fenced` locks the target's row
`FOR SHARE`, only if it still carries that stamp, for as long as it writes; an
edit waits for it. Groups are not part of the stamp, so the fence also reads
`allowed_groups`. After an edit, and in each sweep, `purgeStaleAdminRows`
deletes rows of stamps no row carries. *Hard*: the edit that commits between a
check and a write; a purge that fails half-way. *Correct*: nothing is written
under a dead stamp, nobody is admitted by old groups, stale rows go.

**Proxied requests.** A request takes one snapshot entry and keeps it. The token
lookup reads the session and, in the same query, what the database has under the
target's name; a replica that is behind says "try again" (503) and never ends a
session for its own staleness. *Correct*: a credential goes only to the
definition it was meant for, and only to one that lived while the request did.

**Token endpoint.** A grant is a transaction: consume a code or refresh token,
check, write the new pair. A refresh token is marked used and kept, so that a
second presentation is recognised and ends the session. `RevokeSession` runs on
a connection of its own. *Hard*: racing presentations, failure after
consumption, revocation beside a grant, locks held by the very request that
revokes. *Correct*: one pair per code or token, a failed grant costs nothing, a
revoked session leaves no token, only a real replay or `/revoke` ends one, and
each of them does end it.

**Retention.** Every lookup demands an age; every half hour each replica deletes
in seven statements what is over age or no longer referred to. *Hard*: each
statement runs between any two steps of a sign-in. *Correct*: the sweep takes
nothing a lookup would still accept, and provider tokens do not outlive the
sessions that need them.

**Provider token refresh.** A provider token lives an hour or so and is
refreshed by the request that finds it expired. Providers that rotate spend the
old refresh token, so a burst of requests must make one refresh: they queue on a
mutex chosen by a hash of the session id, and look at the session again once
they have it. What comes back is the only copy of the pair; its write is tried
three times, in the request's context. *Hard*: the queue behind a refresh that
fails; a revocation or replacement while the provider answers; a client that
hangs up, or a commit that is not acknowledged, between rotation and record;
other replicas, whose mutexes are their own. *Correct*: nothing spent is
presented, the row is what the provider issued last, nothing is served that the
session never held.

**Consent and logins.** `/authorize` shows a consent page bound to the browser
by a cookie; the settings and admin pages bind their own logins by the same
cookie, which each new sign-in renews. *Hard*: tabs, reloads, answers that
arrive out of order, callback addresses opened twice or in another browser,
people who sign in over one another, an administrator who ceases to be one.
*Correct*: a request is decided by the browser it was answered to, whichever
submits its id, and leads to one session at most; a login ends in the browser it
began in; a form is accepted from whom it was shown to; losing the admin group
takes effect within a session.

**Discovery and metadata documents.** Both are cached, both remember a failure
for some seconds, both are fetched while other requests arrive. The provider's
document is fetched once for all who wait and outlives its time while the
provider is down. *Correct*: an outage, a hang-up or a flood of failures costs
only those it must, and only while it lasts.

**Stray credential sweep.** Credentials of configured targets have no lifetime.
Each process writes down what it serves at the start of a pass, and then deletes
credentials that nobody has saved, and no process has served, for a week.
*Hard*: rolling deploys and rollbacks, recordings that fail or are forgotten.
*Correct*: what is served or was just served is kept, what is not goes.

**Interactions.** A registry snapshot decides which stamp a handler uses
(`TargetRegistry` → `ServedTargets` → `StampedCredentials`). A sign-in ends in a
session and a code (`StampedCredentials`), which `TokenGrants` exchanges and
`Retention` ages. `LoginFlows` is the part of a sign-in that happens in the
browser, up to that session. `UpstreamRefresh` is what a proxied request does
between the checks and the forwarding of `StampedCredentials`; `ProviderLookups`
is the call to `Meta` in all of these. `RevokeSession` in the token endpoint removes the session a
proxied request may be using.

## Modules

`Stamps` ← `ServedTargets` ← `StampedCredentials`; `Stamps` ← `TargetRegistry`,
which is shown to implement `ServedTargets`; `LoginFlows` is shown to implement
`ConsentPromise`; `TokenGrants`, `Retention`, `UpstreamRefresh`, `StraySweep` and
`ProviderLookups` stand alone. An `MC…` module gives a specification's constants for TLC.
The proofs are in modules of their own, `…Proofs`, on top of the module they
are about. `StampedCredentialsProofs` extends `ServedTargetsProofs`, because
its handlers use the registry's variables; `TargetRegistryProofs` instantiates
it, under the refinement mapping. An operator named `X_Something` under
the comment "Variant" is `X` with a plausible mistake: it is not part of any
specification, and shows that a property notices that mistake.

### Stamps

Pure operators: the stamp as the tuple of what it hashes (a hash is injective
here), `Serves` (`merge` and `usable`), `Snapshot` (`newSnapshot`), `Behind`
(`entry.behind`). A *definition* stands for everything a stamp covers besides
name and generation; an *access rule* for what it leaves out. A *deployment* is
the validated configuration of a process: its targets, and the definitions its
policy refuses.

### ServedTargets: the abstract registry

State: the rows, their version, the history of versions, each replica's
configuration and snapshot. `Put` and `Remove` are the commits of
`CreateTarget`/`UpdateTarget`/`DeleteTarget`; `Serve` publishes some version no
older than the one served; `Restart` is a process that starts again. It says
what the registry promises and nothing of how.

### TargetRegistry: pages, transactions, rebuilds

Threads are goroutines: a poller per replica, and handlers.

| action | code |
|---|---|
| `OpenPage`, `PostNew`, `PostEdit`, `PostConfirm` | the admin handlers, `admin.go` |
| `Lock`, `Refuse`, `CreateTarget`, `UpdateTarget`, `DeleteTarget`, `Rollback` | the transactions of `store.go`, from first lock to commit or error |
| `StartRebuild`, `StartIfBehind` | `Rebuild`, `rebuildIfBehind` taking `buildMu` |
| `CheckVersion`, `LoadAdminTargets`, `Publish`, `RebuildFails` | `rebuildLocked` and its two reads |
| `Restart` | the process ends; its transactions roll back |

`LoadAdminTargets` is one step because it is one `REPEATABLE READ` transaction.
The bump of `targets_version` locks its single row, so commits have the order of
their versions, and write, bump and commit are one step. The form's once-a-second
throttle (`allowCheck`) only makes `StartIfBehind` rarer and is left out here.

### StampedCredentials: writers and readers of stamped rows

Extends `ServedTargets`: snapshots here lag in every way the registry allows. A
handler has a stage and what it has read so far. `Fence` … `FencedWrite` are two
steps with the `FOR SHARE` lock held between them; `Change` (an edit) needs the
row free of such locks. An edit is one step here: it holds the row lock from its
first statement, no fence can begin meanwhile, so a fence sees only its commit.
`PurgeStaleAdminRows` may run at any time, which includes right after the edit,
in a sweep, or never. A page may be rendered by one replica and posted to
another. `Credential.meantFor` and `since` are ghosts: what the user was shown,
and when the request began. Consent is folded into `Authorize`; the login of the
settings page into `ShowSettings`.

### TokenGrants: transactions and row locks

One action per statement of a grant, with the locks PostgreSQL takes under
`READ COMMITTED`: `DELETE … RETURNING` and `UPDATE` lock the code or token;
foreign keys of the inserts take `KEY SHARE` on the session; `DELETE FROM
sessions` locks it and then, by cascade, its children. An `UPDATE` that waited
looks at its conditions again, and keeps the lock also when they no longer hold
(`Unblock`). Access and refresh token are written together, so one pair stands
for both. The cascade takes its children's locks in one step; the grant is the
victim PostgreSQL picks when there is a cycle (`DeadlockVictim`).

### Retention: a clock beside a sign-in

Rows are the times they were created. `Tick` may happen between any two steps.
`Sweep` runs one of seven statements, on any replica. A grant is one step here
because it is one transaction (`TokenGrants`).

### UpstreamRefresh: a rotating token, beside everyone who needs it

State: what the provider honours, the row, the locks of each process, and for
each request its stage and the pair in its hands.

| action | code |
|---|---|
| `LoadToken` | the read without the lock; a good token is sent at once |
| `Lock`, `Reread` | `refreshLock`, and the second look at the session |
| `Accept`, `Refuse` | `Refresh` at the provider, which may rotate, keep, or refuse |
| `Persist`, `PersistRefused`, `PersistFails` | `persistRefreshed`: recorded; `ErrNotFound` or `ErrStaleTarget`; an attempt that fails, or commits unheard |
| `Fails`, `Restart` | an error or hang-up at any call; the process ends |
| `Expire`, `RevokeSession`, `Replace` | what happens to the session meanwhile |

The ghosts `lost` and `raced` name the sessions whose pair was issued and never
recorded, and those that two replicas were refreshing at once. For them the code
has no remedy but a new sign-in, and the properties say what holds for all
others. `kept` is every pair a session's row ever had.

### LoginFlows and ConsentPromise: the browser's side

State: the rows of `flows` and `settings_flows`, each browser's binding cookie,
session cookies, open pages and forms, and answers on their way. `Start` is
`handleAuthorize` or `startLogin`; its answer reaches the browser in `Arrives`,
in any order, or `GetsLost`. `Approve`, `Decline` and `Callback` are the consent
screen and its end, `FinishLogin` the callback of a page's login in any browser,
`AdminPost` any form of an admin page: what the form does is in `TargetRegistry`.
`Demote` takes a person out of the admin group, and `Logout` clears a session
cookie.

A flow id is a random number that leaves the proxy in a consent page, and
`handleConsent` does not take it for a secret (`oauth.go:426-434`). So any browser
submits the id of any page that was shown (`Shown`), and what decides is the
comparison of the row's `browser_hash` with the browser's cookie, in `ApproveFlow`
and `TakeFlow`. The model has no `sameOrigin`: what it refuses changes no state, and
a browser whose submission it lets through is modelled. An admin form, whose token
is made from the session's secret, is submitted by the browser it was shown in.

`ConsentPromise` says what this comes to in four variables. A request is asked,
approved and over; `asked` is the browser it was answered to, `decided` the one
that approved or declined it last, and a decision is a step only of the browser
that was asked; it ends in one session or none. `LoginFlows` records who submitted
each decision in the ghost `decider`, which its actions set and never read, and
where the flow was started in `origin`. Without the comparison in `ApproveFlow`, or
the one in `TakeFlow`, the refinement fails; so it does if `TakeApprovedFlow` leaves
the row.

### StraySweep: what is served, and what is recorded of it

`Boot` and `Stop` are processes that come and go with one of two configurations.
A pass is `Record`, `Sweep` (its statement on `stamp_seen`) and
`SweepStrayCredentials`; after `RecordFails` it has no stray sweep. `served` is a
ghost: when a process that has recorded itself last served a definition.

### ProviderLookups: two caches in front of a sign-in

A request asks for a client's document (`Ask`, `StoreDocument`, `FetchFails`) and
then for the provider's (`Read`, `Join`, `Fetched`, `DiscoveryFails`); `HangUp` is
a client that goes away while a fetch is waited for. Documents are ages. An
outage stands for whatever makes a fetch fail, a document that is not valid
included, and `Mend` ends it.

## Runs and bounds

| run | question | bounds |
|---|---|---|
| `registry_edits` | Do two administrators on stale pages lose, skip or misplace anything? | 1 name, 3 definitions over 2 URLs, 4 versions |
| `registry_rolling` | Does the registry implement `ServedTargets`, and do replicas converge? | 2 replicas, 2 configurations, 3 versions, 1 failed rebuild or restart |
| `credentials` | What is written under which stamp, what reaches an upstream, which refusals are honest? | 2 replicas, 3 definitions (one of each mode), 2 access rules, 2 versions |
| `cleanup` | Do stamps stay dead, and do stale rows go? | 3 versions, 1 restart with another configuration |
| `grants` | Do racing grants and revocations stay consistent, and end what they must? | 1 session, 2 + 1 requests, 3 pairs, 1 failure |
| `replay_race` | Does a replay end the session when two race? No: see findings | 2 requests, 2 pairs |
| `retention` | Does the sweep take only what is refused anyway, and everything it must? | 2 sweeping replicas, clock to 8, 2 pairs, 1 failed statement |
| `upstream_refresh` | Does a burst on a rotating token spend, lose or leak anything? | 2 requests on one replica and 1 on another, 1 session, 2 attempts, 3 tokens |
| `login_flows` | Do tabs, browsers and people get in one another's way? | 2 browsers, 2 people, 2 sign-ins, 3 secrets, clock to 4 |
| `login_race` | Is the first consent page always good? No: see findings | 1 browser, 2 sign-ins |
| `stray` | Are served credentials kept, and stray ones not? | 2 processes, 2 configurations, 1 failed recording in a row, clock to 5 |
| `lookups` | Are outages survived, shared fairly and over when they are over? | 2 requests, 2 clients, caches of one entry, 1 hang-up |

Why they are enough for what they show:

- *Versions.* Losing an update through a re-used revision takes create, remove,
  create, edit: four. A stamp returns at the earliest after put, replace, put
  back: three. A writer behind by one edit, and a second edit after it, takes
  three. Names interact in no operator but the version, hence one name where the
  question is not the version.
- *Threads.* Every race here is between two parties and a third that unblocks
  them: two administrators and a poller, two grants and a revocation, a writer,
  an editor and a sweep.
- *Definitions.* Two with the same URL and different modes, and one with another
  URL, tell the rules about stamps and about sealed values apart.
- *Times.* `Retention` uses lifetimes of 1, 3 and 5 ticks in the order the
  defaults have (codes and flows, access < refresh ≤ session), and a clock that
  goes beyond the longest of them. The real margins (`Hour`, `Day`) are 1 tick:
  the assumption `LifetimesAssumption` keeps the inequalities the code relies on
  (`config.go` requires the session to last as long as a refresh token).
- *Faults.* One failure is placed at every point where one can happen; the
  properties that speak of repair need no second one to be wrong.

- *Tokens.* A refresh token is spent wrongly at the second refresh of a session,
  and a row falls behind at the one after it: three access tokens. Two attempts
  have a first, a retried and a last write; the theorems have any number. A
  second session on the stripe adds only a wait.
- *Browsers.* Every property of `LoginFlows` is about two sign-ins, of one
  browser or two; a page submitted where it was not shown takes one flow and
  two browsers. Three secrets leave a new one when both are in use. The
  lifetimes are 1 and 2 ticks and the clock allows two of them in a row.
- *Configurations.* A credential is stray under one configuration and served
  under the other. `stray` has `Age` of 3 passes, which is more than the two
  passes (`Lag`) that recordings may be late, and `SeenKept` of 4: in the code
  they are 336 and 1440. Everything happens once between saving, stopping,
  `Age`, and forgetting within 5 ticks.
- *Caches.* A map with room for one entry is full at the second: every store
  meets the cap.

`grants` and `replay_race` do not check for deadlock: requests really can wait
for ever there, which is the first finding, and nobody has to send a request.
Nor do `login_flows`, `login_race` and `stray`, whose clocks end.
`login_flows` and `stray` use symmetry, which is sound for what they check:
invariants, action properties and a refinement without liveness.
All bounds are constants whose names start with `Max`.

The runs check the type invariants of `TargetRegistry`, `TokenGrants`,
`UpstreamRefresh` and `StampedCredentials`. They say what each variable ranges over
and, in two of them, one fact more: in `TokenGrants` a request that is over holds
no lock, and in `StampedCredentials` the row locks are those of the fences under
way. Who may hold which lock at which stage otherwise is in the inductive
invariants of the proofs. The type invariants of `ServedTargets` and `LoginFlows`
are proved only. `SnapshotIsItsVersion` and `SnapshotNeverOlder` are proved of
`ServedTargets`, and hold of `TargetRegistry` because it implements it, so no run
is spent on them; nor is one on `SessionsAreDecided`, which `LoginFlows` has from
`ConsentPromise` in the same way.

## Fairness

- `registry_rolling`: a goroutine that holds `buildMu` runs on (weak fairness of
  its steps); `sync.Mutex` hands the lock to waiters in turn, and the poller's
  ticker keeps firing, so a poller that can again and again start, does (strong
  fairness). Nothing is assumed of administrators. `MaxVersion` and `MaxFaults`
  make edits and faults end, which is the premise of "converges".
- `cleanup`, `retention`: each replica sweeps every half hour as long as it
  runs (`Server.sweep`): weak fairness of the sweep's statements.
- `grants`, `replay_race`: a handler runs on (weak fairness of its
  statements); PostgreSQL serves the waiters for a row in turn (strong fairness
  of the deletion and of its cascade). Failures and new requests are not fair.
- `upstream_refresh`: a request that is not waiting goes on, because every call it
  makes ends within a time limit (weak fairness of its steps). A waiter is handed
  the lock in the end, because `sync.Mutex` passes it to the first in the queue
  once that one has waited for a millisecond (strong fairness of `Lock`). Nothing
  is assumed of the provider, of revocations or of restarts.
- `lookups`: time passes, a request runs on, and a fetch ends within its client's
  timeout (weak fairness each). That an outage ends is a premise of `OutagesEnd`,
  not an assumption.

## Proofs

Every safety property of a passing run but one is proved, for every value of the
constants that their assumptions allow; so are both refinements. Each module has
an inductive invariant, called `IInv` (`FenceInv`, `LiveInv` and `MeantInv` for
the credentials), which TLC also checked on the runs' instances.

### The registry, abstract

`ServedTargetsProofs` proves, for every set of names, definitions, replicas and
deployments and any number of versions:

| theorem | statement |
|---|---|
| `TypeCorrect` | `Spec => []TypeOK` |
| `SnapshotsAreVersions` | every snapshot is exactly some version of the table merged with the replica's configuration |
| `StampsAreUsedOnce` | a stamp replaced or removed is no later version's stamp |
| `SnapshotsNeverOlder` | a running process never goes back to an older version |

The assumptions are those of `Stamps` and `ServedTargets`: constants have their
types, and the markers for "none" are none of the values they stand in for.

The properties are not inductive as they stand. `IInv` adds two facts: the
newest entry of the history *is* the table (`LastVersionIsRows`), and every
generation in the history was drawn before `fresh` (`GenerationsDrawn`).
`StampsNeverReturn` then follows step by step: an edit either keeps the
generation of the row it replaces, so it extends an unbroken run of versions, or
takes one no version has had (`GenerationIsKeptOrFresh`), so it starts a new
one. `RowStampInjective` is what makes a stamp tell generations apart. `Serve`
and `Restart` leave the history alone, and a snapshot is published from an entry
of the history that no later step changes.

### The registry, detailed

`TargetRegistryProofs` is about any threads, replicas, names and edits:

| theorem | statement |
|---|---|
| `EditsTypeCorrect` | `Spec => []TypeOK` |
| `EditsAreNotLost` | a transaction that holds its row's lock has read the row its page shows |
| `SealedValuesStayHome` | a sealed value stays with the URL it was entered for |
| `ReplacementsAreConfirmed` | a stamp changes only under an edit from the confirmation page |
| `RegistryImplementsServedTargets` | `Spec => Targets!Spec` |
| `AdminStampsNeverReturn`, `ServedIsOneVersion` | what `ServedTargetsProofs` proves of stamps and snapshots, of the detailed registry |

`EditsInvariant` is what they share. `row_id` and `revision` name one state of one
row: a row with a page's id has not been at the page's revision with anything
else in it (`KeysNameRows`), because ids are drawn from `fresh` and every update
counts the revision up. So an edit that passed the check of its key, and holds the
row's lock, has read what its administrator was shown (`EditsHold`); that a plain
edit keeps the stamp was checked against the page, before the transaction
(`DraftsAreChecked`), and is true of the row for that reason. A rebuild holds
`buildMu` from its read to its publication (`RebuildsHold`), so what it publishes is
one version and not older than what is served (`ViewsAreVersions`).

The refinement maps a row to what the rest of the proxy sees of it (`Seen`): an
update maps to `Put`, a removal to `Remove`, `Publish` to `Serve`, `Restart` to
`Restart`, and every other step to a stutter. It carries the theorems about
`ServedTargets` over: `Promised` instantiates their module under the mapping, and
its assumptions follow from those of `TargetRegistry`.

### Stamped credentials and proxied requests

`StampedCredentialsProofs` builds on it, for any number of handlers, sessions
and restarts. `RunsOnServedTargets` shows that every behaviour of the handlers
is one of `ServedTargets`, so the theorems about it hold there too.

| theorem | statement |
|---|---|
| `RunsOnServedTargets` | `CSpec => Spec`: a refinement by the identity mapping |
| `CredentialsTypeCorrect` | `CSpec => []CredentialsTypeOK` |
| `WritesAreCurrent` | nothing is written under an admin stamp that is not the target's at that step |
| `SignInsAreAdmitted` | nobody is signed in under groups the target no longer has |

Both action properties follow from `FenceInv`: a handler has what its stage
needs (`Equipped`), and while it holds a fence, the row it locked has the stamp
it checked and, for a sign-in, the groups it read (`FenceHolds`). `ChangeStep` is
where the lock earns its place: an edit needs the row free of `FOR SHARE` locks,
so it breaks no fence that is held. `HandlerStep` reduces every other step to the
one handler that moved. `WritesOrDeletes` then says that a step either only
deletes, or writes under a fence, or writes for a configured target.

Its second half is what a proxied request relies on:

| theorem | statement |
|---|---|
| `RefusalsAreHonest` | a replica that is behind never ends a session of the current definition |
| `ForwardsToLiveDefinitions` | the definition forwarded to lived at some moment since the request arrived |
| `CredentialsGoWhereMeant` | a credential goes only to the definition it was obtained or typed for |

`RefusalsAreHonest` needs the types and the order of the lookup's two
questions. For `ForwardsToLiveDefinitions` the version at which the lookup compared
the entry with the row is a witness that stays one (`LiveInv`, `HistoryGrows`).
For `CredentialsGoWhereMeant`, `MeantInv` says that what is kept under a stamp was
meant for it, that the session a request has passed the lookup with keeps its
stamp or is gone, and that nobody else uses the id of a session being created:
without that, a session deleted under a request could return under its id with
another target's token.

Assumptions beyond those named above: `HandlersAssumption`, that a handler is of
one kind and runs on one replica.

### The token endpoint

`TokenGrantsProofs` is about any sessions, requests and pairs:

| theorem | statement |
|---|---|
| `GrantsTypeCorrect` | `Spec => []TypeOK`: a request that is over holds no lock |
| `NothingBoughtTwice` | a code or refresh token buys one pair at most |
| `RevocationIsFinal` | no token outlives its session |
| `RetriesStayGood` | what a failed grant consumed can be presented again |
| `HonestRetriesEndNothing` | a session ends only for `/revoke` or for a token exchanged before |

The argument is about locks. A grant that has taken a code or refresh token holds
its row's lock, and what is locked is still unspent (`GrantsHold`): nothing but
the grant that holds the lock can spend it. A grant about to commit holds
`KEY SHARE` on its session (`WritesHold`), and a session with such a lock is not
being deleted (`DeletionsHold`), so what commits has a session to belong to. A pair
that was bought marks what bought it (`BoughtIsUsed`), which leaves no second
buyer. Who is about to revoke shows a token of that session that was used, or
came by `/revoke` (`RequestsPresent`), which is the last theorem.

### The refresh of provider tokens

`UpstreamRefreshProofs` is about any requests, replicas, sessions, lock stripes
and attempts:

| theorem | statement |
|---|---|
| `RefreshTypeCorrect` | `Spec => []TypeOK` |
| `NothingSpentTwice` | what a request is about to present is what the provider honours |
| `RowsFollowTheProvider` | between refreshes a row is what the provider issued last |
| `ForwardedWasRecorded` | what is forwarded was in the session's row |
| `OneRefreshPerExpiry` | a further token is issued only once the last one has expired |

The second, third and fifth except sessions of which a pair was lost or that two
replicas refreshed at once. `RefreshInvariant` is the inductive invariant they
share: a request inside the lock holds it, so two requests of one session inside
are on two replicas, and the session is then in `raced`; a request at the provider
presents what the row has, and one that is writing has in hand what the provider
issued last; the row differs from the provider only for a session that someone
is writing, or that is in `lost`. Assumptions: those of `RefreshAssumption`, that
constants have their types and there is at least one attempt.

### Sign-ins in the browser

`LoginFlowsProofs` is about any browsers, people, flows, secrets and lifetimes:

| theorem | statement |
|---|---|
| `LoginsStayInTheirBrowsers` | a login ends in the browser it was started from |
| `FormsAreAcceptedFromTheirOwn` | an admin form is accepted only from whom it was shown to |
| `RemovalsTakeEffect` | and at most `AdminTTL` after that person was last an administrator |
| `PagesStayGood` | a consent page stays good in a browser that was not given two secrets at once |
| `ConsentKeepsItsPromise` | `Spec => Promise!Spec` |
| `ConsentIsGivenWhereAsked` | one session per request at most, and none unless the browser that decided is the one that was asked |
| `LoginsTypeCorrect` | `Spec => []TypeOK` |

`LoginsInvariant` has two halves. `FlowInv`: a secret is one browser's as long as a
row, a cookie or an answer under way has it (`SecretsArePrivate`), which is why no
other browser's cookie opens a row; and outside `crossed` browsers a page's cookie
has its row's secret and outlives the row (`PagesHaveCookies`), which takes that
at most one secret is under way to a browser (`OneSecretUnderWay`). `LoginInv`: the
row a login is named by is spent (`LoginsAreSpent`), so no later login has the
same token and a form's token is its person's (`FormsFit`); a login's time is at most
`AdminTTL` past the moment its person was last in the group (`LoginsAreDated`).
For the refinement, a flow's status is read off its row (`Status`), and a row that
is gone does not come back. That a decision is a step of the promise takes
`SecretsArePrivate` again: whoever submits the id and passes the comparison of
secrets is the browser the row was started from (`BoundIsOrigin`).
`ConsentIsGivenWhereAsked` follows from the refinement and an invariant of the
promise alone (`PromiseHolds`).

### The stray credential sweep

`StraySweepProofs` is about any processes, definitions, deployments and lifetimes:

| theorem | statement |
|---|---|
| `ServedCredentialsAreKept` | what a process has served within `Age`, give or take the `Lag`, is kept |
| `StrayCredentialsGo` | where passes complete, what nobody saved or served for `Age` and an `Interval` is gone |

Both rest on the pace of the passes (`PassesArePaced`): none begins late or runs
into the next. So what a process serves was recorded no longer ago than its
failures in a row account for (`ServingIsRecorded`), and what was served is in
`stamp_seen` to within the `Lag`, or is longer ago than `SeenKept` (`SeenFollowsServed`).
The second theorem needs `Age + Interval <= SeenKept`, which is an assumption of
the module: with `SeenKept` between `Age` and that, a record is forgotten so soon
that what was seen late in one pass has no witness in the next, and TLC refutes
`StrayIsGone`. The code has it by far (`main.go:291`, `store.go:934`,
`store.go:1023`: 30 days against a week and half an hour).

### Discovery and client documents

`ProviderLookupsProofs` is about any requests, clients, lifetimes and cache sizes:

| theorem | statement |
|---|---|
| `DocumentsOutliveOutages` | a request is refused only without a usable document, and goes on only with one |
| `HangUpsHarmNobodyElse` | without an outage nobody is refused for the provider's sake |
| `OutagesAreNotHammered` | during the back-off, only requests from before it start a fetch |

The last is about a step; what carries it is `OnlyEarlyJoin`, that during the
back-off nobody is on the way to a fetch but who was under way when the last one
failed. `Read` sends nobody else there, a new failure marks everyone under way, and
time only ends a back-off.

### Assumptions on the constants

Besides types and bounds: what stands for nothing (`Nothing`, `NoRow`, `NoCookie` and
the like) is none of the values it stands in for; codes and pairs, which may both
be presented to a grant, are told apart (`RequestsAssumption`); handlers and
threads are finitely many, because a bound on what they write counts those under
way; a handler is of one kind and on one replica; and the order of the lifetimes,
as the code's constants and `config.go` have it. TLC evaluates each on the runs.

### Only model-checked

- `SweepTakesNothingUsable` of `Retention`: a safety property, proved next.
- Liveness, which the prover does not reach: `Converges`, `StaleRowsGo`,
  `ReplayEndsSession`, `ReplayEndsSessionUnlessKept`, `RevokeEndsSessionUnlessKept`,
  `ProviderTokensGo`, `WaitersAreAnswered`, `OutagesEnd`.

No module declares a `RECURSIVE` operator, and no proof needs induction over data.

## Findings

Disagreements between the code and what the repository says of it, each with a
run whose counterexample shows it.

1. **A racing replay does not end the session** (`replay_race`, `oauth.go:768`).
   `README.md:527-530` says that presenting a rotated refresh token revokes the
   session. When two requests present it at once, the second waits for the row,
   finds it used, and holds its lock in a grant that is rolled back only when
   `tokenFromRefresh` returns. `RevokeSession`, on another connection, waits for
   that lock. PostgreSQL sees no cycle, because the grant's connection waits for
   nothing, and no timeout bounds either side. The session stays, and so does
   the pair the first request got. `ReplayEndsSessionUnlessKept` says that this
   is the only way in which a replay fails to end it.
2. **Two clients opened at once in a new browser** (`login_race`, `oauth.go:51`).
   The comment above `browserSecret` says that reusing the value keeps the first
   client's consent page good. Two requests that leave before the first answer
   arrives carry no cookie, get a secret each, and the cookie that arrives last
   makes the other page one that cannot be approved. `PagesOutliveLaterSignIns`
   says that this is the only way.

Observations that no run is spent on:

- `store.go:936-938` says a used refresh token is kept for one refresh lifetime
  beyond its own; the statement keeps it for a day beyond its own, as
  `store.go:87-88` has it. A replay after that is an unknown token.
- `store.go:86-88` says a client that got as far as a token is not deleted as
  unused. Between `GetClient` and `CreateFlow`, and between `TakeApprovedFlow` and
  `CreateAuthCode`, no row refers to a client; a sweep there deletes one
  registered more than a day ago, and the sign-in still ends in tokens.
- `persistRefreshed` runs in the request's context: a client that hangs up after
  the provider has rotated takes the only copy of the pair with it (`lost`).
- A settings form carries the definition it was rendered for, and not whom for:
  it is saved for whoever is signed in when it arrives.
- A client that hangs up during the fetch of its metadata document leaves a
  failure behind that everyone who asks for it is given for 30 seconds.

## What is left out

- Data: hashing and sealing are injective and perfect; URLs, groups and
  redirect URIs are model values; pages, logging and wording are not modelled.
- `Retention` leaves out `settings_flows`, which lapse in `LoginFlows`, `stamp_seen`,
  which is in `StraySweep`, and the three statements on rows with an empty stamp,
  which only versions before stamps wrote. `StampedCredentials` leaves out
  lifetimes, which `Retention` has.
- The provider and the upstream are external: they answer or fail, and the
  provider honours the refresh token it issued last.
- The pool of database connections is unbounded in `TokenGrants`.
- A rebuild that fails while a process starts ends that process (`main.go:96-98`).
  In `TargetRegistry` it is a process that serves nothing yet, and its poller may
  try again, as a supervisor that restarts it would.
- `FinishLogin` takes the provider's answer about groups and the computation of
  `Expires` (`admin.go:103-108`) as one step: `RemovalTakesEffect` is exact up to the
  moment between the two.
- `StraySweep` assumes that a pass is over before the next is due (`Tick`).
- `LoginFlows` lets the person at the browser sign in at the provider as anyone
  the run has; what the settings form saves is in `StampedCredentials`.
- The rate limiter and the in-flight bound are one critical section and one
  channel, on which no other part of the state depends.
- `allowCheck`'s throttle: `TargetRegistry` has no clock.
- Configuration parsing, dial guard, redirect rules, cryptography, pages and the
  schema migration have no state that changes while serving.

## Plan

1. Done: the registry, abstract and detailed; stamped rows and proxied requests;
   the token endpoint; retention; the refresh of provider tokens; sign-ins in the
   browser; the stray sweep; the two lookups; the proofs about `ServedTargets`,
   `StampedCredentials` and `UpstreamRefresh`.
2. Done: theorems about `TargetRegistry`, `TokenGrants`, `LoginFlows`, `StraySweep`
   and `ProviderLookups`, and both refinements. Next: `Retention`,
   `SweepTakesNothingUsable` for all lifetimes that satisfy the assumption, from
   the ages that rows have relative to the rows they refer to.
3. `Limits`: the rate limiter's windows and cap, in-flight slots across a rebuild,
   the shared `allowCheck` throttle.
4. `TokenGrants` with a bounded pool: replays that hold one connection and ask
   for another.
