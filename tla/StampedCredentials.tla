------------------------- MODULE StampedCredentials -------------------------
(***************************************************************************)
(* What the proxy keeps under stamps - sign-in flows, sessions with their  *)
(* provider token, per-user credentials - and the handlers that write them *)
(* and send them upstream, on replicas whose snapshots may be behind.      *)
(*                                                                         *)
(* A commit of an admin edit is one step: it holds the row's lock from its *)
(* first statement on, during which no fence can begin, so all a fence can *)
(* see of it is the commit. A fence (Store.fenced) is not: it holds its    *)
(* FOR SHARE lock while it writes, and an edit waits for it.               *)
(***************************************************************************)
EXTENDS ServedTargets

CONSTANTS
    SigningIn,     \* handlers of /authorize and /callback
    Saving,        \* handlers of the settings page
    Proxying,      \* handlers of MCP requests
    On,            \* the replica each handler runs on
    Sid,           \* session ids
    Admitting,     \* the access rules that admit the user
    NoSession, Nothing,
    MaxRestarts    \* bound: restarts

Handler == SigningIn \cup Saving \cup Proxying

ASSUME HandlersAssumption ==
    /\ On \in [Handler -> Replica]
    /\ SigningIn \cap Saving = {} /\ SigningIn \cap Proxying = {} /\ Saving \cap Proxying = {}
    /\ Admitting \subseteq Access
    /\ MaxRestarts \in Nat

VARIABLES
    (* the database *)
    flows,      \* stamps of the approved flows waiting for their callback
    sessions,   \* table sessions, by id
    creds,      \* table user_credentials of the user
    shared,     \* holders of FOR SHARE on each targets row
    (* the handlers *)
    stage,      \* where each handler is
    entry,      \* the snapshot entry it works with
    sid,        \* the session it writes or serves
    held,       \* what it has read: the fence's allowed_groups, or a credential
    since,      \* ghost: the version at which it began
    restarts

tableVars   == <<flows, sessions, creds, shared>>
handlerVars == <<stage, entry, sid, held, since>>
vars        == <<targetVars, tableVars, handlerVars, restarts>>

-----------------------------------------------------------------------------
(* State *)

\* rotated: the provider token has been replaced by a refresh.
Session == [stamp : Stamp, rotated : BOOLEAN]

\* meantFor: the stamp of the definition shown to the person who typed it.
Credential == [stamp : Stamp, meantFor : Stamp]

\* A proxied request ends in one of these.
Answers == {"invalid", "behind", "not_enrolled", "sent"}

Stages == {"idle", "exchange", "form", "write", "fenced",
           "lookup", "credential", "token", "refresh", "send"} \cup Answers

\* The stamp and the target of what h works on.
StampOf(h)  == entry[h].stamp
TargetOf(h) == NameOf(entry[h].stamp)

CredentialsTypeOK ==
    /\ flows \subseteq Stamp
    /\ sessions \in [Sid -> Session \cup {NoSession}]
    /\ creds \subseteq Credential
    /\ shared \in [Name -> SUBSET Handler]
    /\ stage \in [Handler -> Stages]
    /\ entry \in [Handler -> Entry \cup {NoEntry}]
    /\ sid \in [Handler -> Sid \cup {Nothing}]
    /\ held \in [Handler -> Access \cup Stamp \cup {Nothing}]
    /\ since \in [Handler -> Nat]
    /\ restarts \in Nat
    \* the row locks are those of the fences under way
    /\ \A n \in Name : \A h \in shared[n] :
        stage[h] = "fenced" /\ entry[h] # NoEntry /\ TargetOf(h) = n

CInit ==
    /\ Init
    /\ flows = {}
    /\ sessions = [s \in Sid |-> NoSession]
    /\ creds = {}
    /\ shared = [n \in Name |-> {}]
    /\ stage = [h \in Handler |-> "idle"]
    /\ entry = [h \in Handler |-> NoEntry]
    /\ sid = [h \in Handler |-> Nothing]
    /\ held = [h \in Handler |-> Nothing]
    /\ since = [h \in Handler |-> 0]
    /\ restarts = 0

\* The entry a replica serves under a name.
Serving(r, n) == IF snap[r] = NoSnapshot THEN NoEntry ELSE snap[r].entries[n]

Current(stamp) ==
    LET row == rows[NameOf(stamp)] IN row # NoRow /\ RowStamp(NameOf(stamp), row) = stamp

\* A row no targets row accounts for: what purgeStaleAdminRows deletes.
Stale(stamp) == IsAdminStamp(stamp) /\ ~Current(stamp)

Goes(h, from, to) == stage[h] = from /\ stage' = [stage EXCEPT ![h] = to]

Unlock(h) == shared' = [n \in Name |-> shared[n] \ {h}]

Forget(h, to) ==
    /\ stage' = [stage EXCEPT ![h] = to]
    /\ entry' = [entry EXCEPT ![h] = NoEntry]
    /\ sid' = [sid EXCEPT ![h] = Nothing]
    /\ held' = [held EXCEPT ![h] = Nothing]
    /\ since' = [since EXCEPT ![h] = 0]

-----------------------------------------------------------------------------
(* Admin edits and replicas *)

\* An edit waits for the fences that hold its row.
Change(n) ==
    /\ shared[n] = {}
    /\ Remove(n) \/ \E def \in Def, access \in Access : Put(n, def, access)
    /\ UNCHANGED <<tableVars, handlerVars, restarts>>

Rebuild(r) ==
    /\ Serve(r)
    /\ UNCHANGED <<tableVars, handlerVars, restarts>>

\* Open transactions roll back with the process.
RestartReplica(r, d) ==
    LET Lost(h) == On[h] = r IN
    /\ restarts < MaxRestarts
    /\ restarts' = restarts + 1
    /\ Restart(r, d)
    /\ shared' = [n \in Name |-> {h \in shared[n] : ~Lost(h)}]
    /\ stage' = [h \in Handler |-> IF Lost(h) THEN "idle" ELSE stage[h]]
    /\ entry' = [h \in Handler |-> IF Lost(h) THEN NoEntry ELSE entry[h]]
    /\ sid' = [h \in Handler |-> IF Lost(h) THEN Nothing ELSE sid[h]]
    /\ held' = [h \in Handler |-> IF Lost(h) THEN Nothing ELSE held[h]]
    /\ since' = [h \in Handler |-> IF Lost(h) THEN 0 ELSE since[h]]
    /\ UNCHANGED <<flows, sessions, creds>>

\* Variant: a replaced target, whose name is still held, counts as current.
PurgeStaleAdminRows_ByName(table, N) ==
    LET Gone(stamp) == NameOf(stamp) \in N /\ IsAdminStamp(stamp) /\ rows[NameOf(stamp)] = NoRow IN
    /\ flows' = IF table = "flows" THEN {f \in flows : ~Gone(f)} ELSE flows
    /\ sessions' = IF table = "sessions"
                   THEN [s \in Sid |-> IF sessions[s] # NoSession /\ Gone(sessions[s].stamp)
                                       THEN NoSession ELSE sessions[s]]
                   ELSE sessions
    /\ creds' = IF table = "user_credentials" THEN {c \in creds : ~Gone(c.stamp)} ELSE creds
    /\ UNCHANGED <<targetVars, shared, handlerVars, restarts>>

\* One statement of purgeStaleAdminRows: after a change for its name, in each
\* sweep for all of them. Nothing ties it to the edit, and any statement of it
\* may fail, so it may run or not at any time.
PurgeStaleAdminRows(table, N) ==
    LET Gone(stamp) == NameOf(stamp) \in N /\ Stale(stamp) IN
    /\ flows' = IF table = "flows" THEN {f \in flows : ~Gone(f)} ELSE flows
    /\ sessions' = IF table = "sessions"
                   THEN [s \in Sid |-> IF sessions[s] # NoSession /\ Gone(sessions[s].stamp)
                                       THEN NoSession ELSE sessions[s]]
                   ELSE sessions
    /\ creds' = IF table = "user_credentials" THEN {c \in creds : ~Gone(c.stamp)} ELSE creds
    /\ UNCHANGED <<targetVars, shared, handlerVars, restarts>>

Tables == {"flows", "sessions", "user_credentials"}

\* RevokeSession, from /revoke or a replayed refresh token.
RevokeSession(s) ==
    /\ sessions[s] # NoSession
    /\ sessions' = [sessions EXCEPT ![s] = NoSession]
    /\ UNCHANGED <<targetVars, flows, creds, shared, handlerVars, restarts>>

-----------------------------------------------------------------------------
(* Signing in *)

\* handleAuthorize: the flow records the stamp the replica serves. Its approval
\* on the consent page is left out.
Authorize(h, n) ==
    LET e == Serving(On[h], n) IN
    /\ stage[h] = "idle"
    /\ e # NoEntry
    /\ flows' = flows \cup {e.stamp}
    /\ UNCHANGED <<targetVars, sessions, creds, shared, handlerVars, restarts>>

\* handleCallback up to the provider: the flow is spent, and goes no further
\* unless this replica serves the definition it was started for (targetForFlow).
Callback(h, stamp) ==
    LET e == Serving(On[h], NameOf(stamp)) IN
    /\ stage[h] = "idle" /\ stamp \in flows
    /\ flows' = flows \ {stamp}
    /\ IF e # NoEntry /\ e.stamp = stamp
       THEN /\ stage' = [stage EXCEPT ![h] = "exchange"]
            /\ entry' = [entry EXCEPT ![h] = e]
       ELSE UNCHANGED <<stage, entry>>
    /\ UNCHANGED <<targetVars, sessions, creds, shared, sid, held, since, restarts>>

\* The provider has answered. A config target's groups are checked here, against
\* the snapshot entry; an admin target's wait for the fence.
Exchange(h, s) ==
    /\ stage[h] = "exchange" /\ sessions[s] = NoSession
    /\ \A g \in Handler : sid[g] # s
    /\ IF FromAdmin(entry[h]) \/ entry[h].access \in Admitting
       THEN /\ stage' = [stage EXCEPT ![h] = "write"]
            /\ sid' = [sid EXCEPT ![h] = s]
            /\ UNCHANGED <<entry, held, since>>
       ELSE Forget(h, "idle")
    /\ UNCHANGED <<targetVars, tableVars, restarts>>

-----------------------------------------------------------------------------
(* The settings page *)

PerUser(e) == e # NoEntry /\ ModeOf[DefOf(e.stamp)] = "per_user"

\* The page is rendered by any replica and posted to this one.
ShowSettings(h, r, n) ==
    /\ PerUser(Serving(r, n))
    /\ Goes(h, "idle", "form")
    /\ entry' = [entry EXCEPT ![h] = Serving(r, n)]
    /\ UNCHANGED <<targetVars, tableVars, sid, held, since, restarts>>

\* Variant: the posted stamp not compared. What was typed for one definition is
\* stored under another.
Save_AnyStamp(h) ==
    LET e == Serving(On[h], TargetOf(h)) IN
    /\ stage[h] = "form"
    /\ IF PerUser(e)
       THEN /\ stage' = [stage EXCEPT ![h] = "write"]
            /\ held' = [held EXCEPT ![h] = StampOf(h)]
            /\ entry' = [entry EXCEPT ![h] = e]
            /\ UNCHANGED <<sid, since>>
       ELSE Forget(h, "idle")
    /\ UNCHANGED <<targetVars, tableVars, restarts>>

\* handleSettingsSave: what was typed is kept only if this replica serves the
\* definition the page showed.
Save(h) ==
    LET e == Serving(On[h], TargetOf(h)) IN
    /\ stage[h] = "form"
    /\ IF PerUser(e) /\ e.stamp = StampOf(h)
       THEN /\ stage' = [stage EXCEPT ![h] = "write"]
            /\ held' = [held EXCEPT ![h] = StampOf(h)]
            /\ entry' = [entry EXCEPT ![h] = e]
            /\ UNCHANGED <<sid, since>>
       ELSE Forget(h, "idle")
    /\ UNCHANGED <<targetVars, tableVars, restarts>>

\* The same form with action=clear.
Clear(h) ==
    LET e == Serving(On[h], TargetOf(h)) IN
    /\ stage[h] = "form"
    /\ creds' = IF PerUser(e) /\ e.stamp = StampOf(h)
                THEN {c \in creds : c.stamp # e.stamp} ELSE creds
    /\ Forget(h, "idle")
    /\ UNCHANGED <<targetVars, flows, sessions, shared, restarts>>

-----------------------------------------------------------------------------
(* Fenced writes: CreateSession, PutUserCredential, UpdateSessionToken *)

\* Variant: an EXISTS instead of FOR SHARE; an edit does not wait for it.
Fence_Exists(h) ==
    LET n == TargetOf(h) IN
    /\ stage[h] = "write" /\ FromAdmin(entry[h])
    /\ IF Current(StampOf(h))
       THEN /\ stage' = [stage EXCEPT ![h] = "fenced"]
            /\ held' = [held EXCEPT ![h] = IF h \in SigningIn THEN rows[n].access ELSE @]
            /\ UNCHANGED <<entry, sid, since>>
       ELSE Forget(h, IF h \in Proxying THEN "invalid" ELSE "idle")
    /\ UNCHANGED <<targetVars, tableVars, restarts>>

\* Variant: the groups of the snapshot entry instead of the row's.
Fence_SnapshotGroups(h) ==
    LET n == TargetOf(h) IN
    /\ stage[h] = "write" /\ FromAdmin(entry[h])
    /\ IF Current(StampOf(h)) /\ (h \in Proxying => sessions[sid[h]] # NoSession)
       THEN /\ shared' = [shared EXCEPT ![n] = @ \cup {h}]
            /\ stage' = [stage EXCEPT ![h] = "fenced"]
            /\ held' = [held EXCEPT ![h] = IF h \in SigningIn THEN entry[h].access ELSE @]
            /\ UNCHANGED <<entry, sid, since>>
       ELSE /\ Forget(h, IF h \in Proxying THEN "invalid" ELSE "idle")
            /\ UNCHANGED shared
    /\ UNCHANGED <<targetVars, flows, sessions, creds, restarts>>

\* The row is locked only if it still carries the stamp, and its allowed_groups
\* are read with it; otherwise ErrStaleTarget. A token write first looks its
\* session up, to learn the target.
Fence(h) ==
    LET n == TargetOf(h) IN
    /\ stage[h] = "write" /\ FromAdmin(entry[h])
    /\ IF Current(StampOf(h)) /\ (h \in Proxying => sessions[sid[h]] # NoSession)
       THEN /\ shared' = [shared EXCEPT ![n] = @ \cup {h}]
            /\ stage' = [stage EXCEPT ![h] = "fenced"]
            /\ held' = [held EXCEPT ![h] = IF h \in SigningIn THEN rows[n].access ELSE @]
            /\ UNCHANGED <<entry, sid, since>>
       ELSE /\ Forget(h, IF h \in Proxying THEN "invalid" ELSE "idle")
            /\ UNCHANGED shared
    /\ UNCHANGED <<targetVars, flows, sessions, creds, restarts>>

PutSession(h) ==
    /\ sessions' = [sessions EXCEPT ![sid[h]] = [stamp |-> StampOf(h), rotated |-> FALSE]]
    /\ UNCHANGED creds
    /\ Forget(h, "idle")

PutCredential(h) ==
    /\ creds' = {c \in creds : c.stamp # StampOf(h)} \cup {[stamp |-> StampOf(h), meantFor |-> held[h]]}
    /\ UNCHANGED sessions
    /\ Forget(h, "idle")

\* No row of that id and stamp: ErrNotFound, and nothing is sent.
PutToken(h) ==
    LET s == sid[h] IN
    /\ UNCHANGED creds
    /\ IF sessions[s] # NoSession /\ sessions[s].stamp = StampOf(h)
       THEN /\ sessions' = [sessions EXCEPT ![s].rotated = TRUE]
            /\ stage' = [stage EXCEPT ![h] = "send"]
            /\ held' = [held EXCEPT ![h] = sessions[s].stamp]
            /\ UNCHANGED <<entry, sid, since>>
       ELSE UNCHANGED sessions /\ Forget(h, "invalid")

Write(h) ==
    \/ h \in SigningIn /\ PutSession(h)
    \/ h \in Saving /\ PutCredential(h)
    \/ h \in Proxying /\ PutToken(h)

\* The write and the commit that ends the fence. A user the row's own access
\* rule does not admit gets no session, whatever the snapshot says.
FencedWrite(h) ==
    /\ stage[h] = "fenced"
    /\ IF h \in SigningIn /\ held[h] \notin Admitting
       THEN Forget(h, "idle") /\ UNCHANGED <<sessions, creds>>
       ELSE Write(h)
    /\ Unlock(h)
    /\ UNCHANGED <<targetVars, flows, restarts>>

\* A config stamp has no row to fence on.
DirectWrite(h) ==
    /\ stage[h] = "write" /\ ~FromAdmin(entry[h])
    /\ Write(h)
    /\ UNCHANGED <<targetVars, flows, shared, restarts>>

\* Variant: no rollback when the write fails.
Fails_KeepsLock(h) ==
    /\ stage[h] = "fenced"
    /\ Forget(h, IF h \in Proxying THEN "invalid" ELSE "idle")
    /\ UNCHANGED <<targetVars, tableVars, restarts>>

\* The database or the provider fails. A sign-in or a save is over; a rotated
\* token is tried again (persistRefreshed) or given up with its request.
Fails(h) ==
    /\ stage[h] \in {"exchange", "write", "fenced", "refresh"}
    /\ \/ h \in Proxying /\ stage[h] = "fenced"
          /\ stage' = [stage EXCEPT ![h] = "write"]
          /\ UNCHANGED <<entry, sid, held, since>>
       \/ Forget(h, IF h \in Proxying THEN "invalid" ELSE "idle")
    /\ Unlock(h)
    /\ UNCHANGED <<targetVars, flows, sessions, creds, restarts>>

-----------------------------------------------------------------------------
(* Proxied requests: handleMCP *)

\* The request resolves its target in one snapshot and keeps that entry.
Arrive(h, n, s) ==
    LET e == Serving(On[h], n) IN
    /\ e # NoEntry
    /\ Goes(h, "idle", "lookup")
    /\ entry' = [entry EXCEPT ![h] = e]
    /\ sid' = [sid EXCEPT ![h] = s]
    /\ since' = [since EXCEPT ![h] = version]
    /\ UNCHANGED <<targetVars, tableVars, held, restarts>>

\* Where a request goes whose session is good for the entry.
Proceeds(h) ==
    LET mode == ModeOf[DefOf(StampOf(h))] IN
    /\ stage' = [stage EXCEPT ![h] = CASE mode = "per_user"       -> "credential"
                                       [] mode = "provider_token" -> "token"
                                       [] mode = "static"         -> "send"]
    /\ held' = [held EXCEPT ![h] = IF mode = "static" THEN StampOf(h) ELSE Nothing]
    /\ UNCHANGED <<entry, sid, since>>

\* Variant: the session's stamp judged before the replica's own freshness.
LookupAccessToken_StampFirst(h) ==
    LET ses == sessions[sid[h]]  n == TargetOf(h) IN
    /\ stage[h] = "lookup"
    /\ IF ses = NoSession THEN Forget(h, "invalid")
       ELSE IF ses.stamp # StampOf(h) THEN Forget(h, "invalid")
       ELSE IF Behind(n, entry[h], rows[n]) THEN Forget(h, "behind")
       ELSE Proceeds(h)
    /\ UNCHANGED <<targetVars, tableVars, restarts>>

\* Variant: the database's stamp not compared with the entry's.
LookupAccessToken_NeverBehind(h) ==
    LET ses == sessions[sid[h]] IN
    /\ stage[h] = "lookup"
    /\ IF ses = NoSession \/ ses.stamp # StampOf(h) THEN Forget(h, "invalid")
       ELSE Proceeds(h)
    /\ UNCHANGED <<targetVars, tableVars, restarts>>

\* One query reads the session and the target's row: freshness first, then the
\* session's stamp, then the credential mode.
LookupAccessToken(h) ==
    LET ses == sessions[sid[h]]  n == TargetOf(h) IN
    /\ stage[h] = "lookup"
    /\ IF ses = NoSession THEN Forget(h, "invalid")
       ELSE IF NameOf(ses.stamp) = n /\ Behind(n, entry[h], rows[n]) THEN Forget(h, "behind")
       ELSE IF ses.stamp # StampOf(h) THEN Forget(h, "invalid")
       ELSE Proceeds(h)
    /\ UNCHANGED <<targetVars, tableVars, restarts>>

\* userHeadersFor: the credential saved under the session's own stamp, and the
\* target's row again, in one query.
UserCredential(h) ==
    LET ses == sessions[sid[h]]
        n == TargetOf(h)
        found == {c \in creds : ses # NoSession /\ c.stamp = ses.stamp} IN
    /\ stage[h] = "credential"
    /\ IF found = {} THEN Forget(h, "not_enrolled")
       ELSE IF Behind(n, entry[h], rows[n]) THEN Forget(h, "behind")
       ELSE /\ stage' = [stage EXCEPT ![h] = "send"]
            /\ \E c \in found : held' = [held EXCEPT ![h] = c.meantFor]
            /\ UNCHANGED <<entry, sid, since>>
    /\ UNCHANGED <<targetVars, tableVars, restarts>>

\* currentUpstreamToken: the token of that session and stamp, as it is or, when
\* it has expired, after a refresh at the provider.
SessionToken(h) ==
    LET ses == sessions[sid[h]] IN
    /\ stage[h] = "token"
    /\ IF ses = NoSession \/ ses.stamp # StampOf(h) THEN Forget(h, "invalid")
       ELSE /\ \/ stage' = [stage EXCEPT ![h] = "send"] /\ held' = [held EXCEPT ![h] = ses.stamp]
               \/ stage' = [stage EXCEPT ![h] = "refresh"] /\ UNCHANGED held
            /\ UNCHANGED <<entry, sid, since>>
    /\ UNCHANGED <<targetVars, tableVars, restarts>>

\* The provider has rotated the token; it must be recorded before it is used.
Refreshed(h) ==
    /\ Goes(h, "refresh", "write")
    /\ UNCHANGED <<targetVars, tableVars, entry, sid, held, since, restarts>>

\* The reverse proxy sends the credential to the entry's upstream.
Send(h) ==
    /\ stage[h] = "send"
    /\ Forget(h, "sent")
    /\ UNCHANGED <<targetVars, tableVars, restarts>>

\* The person leaves the page, or the answer has been written.
Done(h) ==
    /\ stage[h] \in Answers \cup {"form"}
    /\ Forget(h, "idle")
    /\ UNCHANGED <<targetVars, tableVars, restarts>>

-----------------------------------------------------------------------------
Writes(h) == Fence(h) \/ FencedWrite(h) \/ DirectWrite(h) \/ Fails(h)

SignIn(h) ==
    \/ \E n \in Name : Authorize(h, n)
    \/ \E stamp \in flows : Callback(h, stamp)
    \/ \E s \in Sid : Exchange(h, s)

Settings(h) ==
    \/ \E r \in Replica, n \in Name : ShowSettings(h, r, n)
    \/ Save(h) \/ Clear(h)

Proxy(h) ==
    \/ \E n \in Name, s \in Sid : Arrive(h, n, s)
    \/ LookupAccessToken(h) \/ UserCredential(h) \/ SessionToken(h) \/ Refreshed(h) \/ Send(h)

Sweep(table) == PurgeStaleAdminRows(table, Name)

CNext ==
    \/ \E n \in Name : Change(n) \/ \E table \in Tables : PurgeStaleAdminRows(table, {n})
    \/ \E r \in Replica : Rebuild(r) \/ \E d \in Deployment : RestartReplica(r, d)
    \/ \E table \in Tables : Sweep(table)
    \/ \E s \in Sid : RevokeSession(s)
    \/ \E h \in SigningIn : SignIn(h)
    \/ \E h \in Saving : Settings(h)
    \/ \E h \in Proxying : Proxy(h)
    \/ \E h \in Handler : Writes(h) \/ Done(h)

CSpec == CInit /\ [][CNext]_vars

\* Every replica sweeps every half hour for as long as it runs (Server.sweep).
FairCSpec == CSpec /\ \A table \in Tables : WF_vars(Sweep(table))

-----------------------------------------------------------------------------
(* Properties *)

\* A session or credential is created or rewritten under an admin stamp only in
\* a step at which the stamp is the target's, however old the writer's snapshot
\* and however long it has been working (fenced).
WrittenOnlyWhileCurrent ==
    [][/\ \A s \in Sid : sessions'[s] \notin {sessions[s], NoSession} /\ IsAdminStamp(sessions'[s].stamp)
              => Current(sessions'[s].stamp)
       /\ \A c \in creds' \ creds : IsAdminStamp(c.stamp) => Current(c.stamp)]_vars

\* A new session under an admin stamp is for a user the target's allowed groups
\* admit at that step, not as some snapshot had them (CreateSession's admits).
AdmittedByCurrentGroups ==
    [][\A s \in Sid : sessions[s] = NoSession /\ sessions'[s] # NoSession /\ IsAdminStamp(sessions'[s].stamp)
          => rows[NameOf(sessions'[s].stamp)].access \in Admitting]_vars

\* A credential is sent only to the definition it was obtained or typed for,
\* through every page, replica, session and rebuild in between.
SentOnlyWhereMeant == \A h \in Proxying : stage[h] = "send" => held[h] = StampOf(h)

\* A request is forwarded to a definition that the database held at some moment
\* since the request arrived; never to one replaced or removed before.
ForwardedToLiveDefinition ==
    \A h \in Proxying : stage[h] = "send" =>
        \E v \in since[h]..version : ~Behind(TargetOf(h), entry[h], history[v][TargetOf(h)])

\* A replica never calls a session unknown or expired because its own snapshot
\* is old: a session issued under the target's current definition is answered
\* with "try again" (refuseBehind), not with a challenge that ends it.
NeverFalselyInvalid ==
    [][\A h \in Proxying : stage[h] = "lookup" /\ stage'[h] = "invalid" =>
          ~ /\ sessions[sid[h]] # NoSession
            /\ NameOf(sessions[sid[h]].stamp) = TargetOf(h)
            /\ Current(sessions[sid[h]].stamp)]_vars

\* What an edit or a removal leaves behind is deleted in the end, although the
\* purge that follows it may fail.
StaleRowsGo ==
    /\ \A s \in Sid : sessions[s] # NoSession /\ Stale(sessions[s].stamp) ~> sessions[s] = NoSession
    /\ (\E c \in creds : Stale(c.stamp)) ~> (\A c \in creds : ~Stale(c.stamp))
=============================================================================
