----------------------- MODULE StampedCredentialsProofs -----------------------
(***************************************************************************)
(* What the fence and the freshness checks guarantee, for every set of     *)
(* names, definitions, replicas, handlers and sessions.                    *)
(***************************************************************************)
EXTENDS StampedCredentials, ServedTargetsProofs

\* A handler that is not under way.
Over == {"idle"} \cup Answers

\* The stages of each kind of handler.
StagesOf(h) ==
    {"idle", "write", "fenced"} \cup
        (IF h \in SigningIn THEN {"exchange"}
         ELSE IF h \in Saving THEN {"form"}
         ELSE {"lookup", "credential", "token", "refresh", "send"} \cup Answers)

NeedsSession(h) ==
    \/ h \in Proxying /\ stage[h] \notin Over
    \/ h \in SigningIn /\ stage[h] \in {"write", "fenced"}

\* A handler that is under way has what its stage needs.
Equipped(h) ==
    /\ stage[h] \in StagesOf(h)
    /\ stage[h] \notin Over => entry[h] \in Entry
    /\ NeedsSession(h) => sid[h] \in Sid
    /\ h \in Saving /\ stage[h] \in {"write", "fenced"} => held[h] = StampOf(h)

\* A fence that is held: the row is locked and carries the stamp and the groups
\* that were read with it.
FenceHolds(h) ==
    stage[h] = "fenced" =>
        /\ FromAdmin(entry[h]) /\ Current(StampOf(h))
        /\ h \in shared[TargetOf(h)]
        /\ h \in SigningIn => held[h] = rows[TargetOf(h)].access

FenceInv ==
    /\ IInv
    /\ CredentialsTypeOK
    /\ \A h \in Handler : Equipped(h) /\ FenceHolds(h)

-----------------------------------------------------------------------------
(* The registry underneath *)

\* Whatever handlers do, the table and the snapshots move as the registry moves
\* them.
LEMMA StepIsRegistryStep == [CNext]_vars => [Next]_targetVars
<1> SUFFICES ASSUME CNext PROVE [Next]_targetVars
  BY DEF vars
<1>1. ASSUME NEW n \in Name, Change(n) PROVE Next
  BY <1>1 DEF Change, Next
<1>2. ASSUME NEW r \in Replica, Rebuild(r) PROVE Next
  BY <1>2 DEF Rebuild, Next
<1>3. ASSUME NEW r \in Replica, NEW d \in Deployment, RestartReplica(r, d) PROVE Next
  BY <1>3 DEF RestartReplica, Next
<1>4. ASSUME NEW table, NEW N, PurgeStaleAdminRows(table, N) PROVE UNCHANGED targetVars
  BY <1>4 DEF PurgeStaleAdminRows
<1>5. ASSUME NEW h \in Handler, Writes(h) \/ Done(h) PROVE UNCHANGED targetVars
  BY <1>5 DEF Writes, Done, Fence, FencedWrite, DirectWrite, Fails
<1>6. ASSUME NEW h \in Handler, SignIn(h) \/ Settings(h) PROVE UNCHANGED targetVars
  BY <1>6 DEF SignIn, Authorize, Callback, Exchange, Settings, ShowSettings, Save, Clear
<1>7. ASSUME NEW h \in Handler, Proxy(h) PROVE UNCHANGED targetVars
  BY <1>7 DEF Proxy, Arrive, LookupAccessToken, UserCredential, SessionToken, Refreshed, Send
<1>8. ASSUME NEW s \in Sid, RevokeSession(s) PROVE UNCHANGED targetVars
  BY <1>8 DEF RevokeSession
<1>9. Handler = SigningIn \cup Saving \cup Proxying
  BY DEF Handler
<1> QED BY <1>1, <1>2, <1>3, <1>4, <1>5, <1>6, <1>7, <1>8, <1>9 DEF CNext, Sweep

\* The handlers, their credentials and their locks run on the registry that
\* ServedTargets specifies, so all that is proved of it holds here.
THEOREM RunsOnServedTargets == CSpec => Spec
<1>1. CInit => Init
  BY DEF CInit
<1> QED BY <1>1, StepIsRegistryStep, PTL DEF CSpec, Spec

-----------------------------------------------------------------------------
(* Entries and stamps *)

\* A stamp names a target and says what it is (Target.Stamp).
LEMMA StampType ==
    ASSUME NEW stamp \in Stamp
    PROVE  NameOf(stamp) \in Name /\ DefOf(stamp) \in Def
BY DEF Stamp, NameOf, DefOf

\* A handler finds an entry under a name of its snapshot, or nothing.
LEMMA ServingType ==
    ASSUME TypeOK, NEW r \in Replica, NEW n \in Name
    PROVE  Serving(r, n) \in Entry \cup {NoEntry}
BY DEF TypeOK, Serving, Snapshots

-----------------------------------------------------------------------------
(* The fence *)

\* No handler is under way when the first process starts.
LEMMA InitFenceInv == CInit => FenceInv
<1> SUFFICES ASSUME CInit PROVE FenceInv
  OBVIOUS
<1>1. IInv
  BY InitInvariant DEF CInit
<1>2. CredentialsTypeOK
  BY DEF CInit, CredentialsTypeOK, Stages
<1> QED BY <1>1, <1>2 DEF CInit, FenceInv, Equipped, FenceHolds, StagesOf, NeedsSession, Over

\* The entry of a handler under way is one of a name.
LEMMA EntryType ==
    ASSUME FenceInv, NEW h \in Handler, stage[h] \notin Over
    PROVE  entry[h] \in Entry /\ StampOf(h) \in Stamp /\ TargetOf(h) \in Name
BY StampType DEF FenceInv, Equipped, Entry, StampOf, TargetOf

\* A step of one handler, or of none, takes nothing another handler relies on.
Apart(h) ==
    /\ UNCHANGED rows
    /\ \A g \in Handler \ {h} :
        /\ stage'[g] = stage[g] /\ entry'[g] = entry[g] /\ sid'[g] = sid[g] /\ held'[g] = held[g]
        /\ \A n \in Name : g \in shared[n] => g \in shared'[n]

\* So an invariant about each handler needs proof for the one that moved.
LEMMA HandlerStep ==
    ASSUME FenceInv, NEW h, Apart(h), IInv', CredentialsTypeOK',
           h \in Handler => Equipped(h)' /\ FenceHolds(h)'
    PROVE  FenceInv'
<1> SUFFICES ASSUME NEW g \in Handler, g # h PROVE Equipped(g)' /\ FenceHolds(g)'
  BY DEF FenceInv
<1>1. /\ stage'[g] = stage[g] /\ entry'[g] = entry[g] /\ sid'[g] = sid[g] /\ held'[g] = held[g]
      /\ \A n \in Name : g \in shared[n] => g \in shared'[n]
      /\ rows' = rows
  BY DEF Apart
<1>2. Equipped(g)'
  BY <1>1 DEF FenceInv, Equipped, StagesOf, NeedsSession, StampOf
<1>3. stage[g] = "fenced" => TargetOf(g) \in Name
  BY EntryType DEF Over, Answers
<1>4. FenceHolds(g)'
  BY <1>1, <1>3 DEF FenceInv, FenceHolds, Current, StampOf, TargetOf
<1> QED BY <1>2, <1>4

\* An edit takes its row's lock only when no fence holds it (UpdateTarget,
\* DeleteTarget): what a fence found stays true until it ends.
LEMMA ChangeStep ==
    ASSUME FenceInv, IInv', NEW n \in Name, Change(n)
    PROVE  FenceInv'
<1>1. UNCHANGED <<tableVars, handlerVars, restarts>>
  BY DEF Change
<1>2. \A m \in Name \ {n} : rows'[m] = rows[m]
  BY DEF Change, Remove, Put, Install, FenceInv, IInv, TypeOK, Rows
<1>3. ASSUME NEW h \in Handler PROVE FenceHolds(h)'
  <2> SUFFICES ASSUME stage[h] = "fenced"
               PROVE  /\ FromAdmin(entry[h]) /\ Current(StampOf(h))'
                      /\ h \in shared[TargetOf(h)]
                      /\ h \in SigningIn => held[h] = rows'[TargetOf(h)].access
    BY <1>1 DEF FenceHolds, tableVars, handlerVars, StampOf, TargetOf
  <2>1. TargetOf(h) \in Name /\ TargetOf(h) # n
    BY EntryType DEF Change, FenceInv, FenceHolds, Over, Answers
  <2>2. rows'[TargetOf(h)] = rows[TargetOf(h)]
    BY <1>2, <2>1
  <2>3. Current(StampOf(h))'
    BY <1>1, <2>2 DEF FenceInv, FenceHolds, Current, StampOf, TargetOf, handlerVars
  <2> QED BY <2>2, <2>3 DEF FenceInv, FenceHolds
<1>4. CredentialsTypeOK' /\ \A h \in Handler : Equipped(h)'
  BY <1>1 DEF FenceInv, CredentialsTypeOK, Equipped, StagesOf, NeedsSession,
              tableVars, handlerVars, StampOf, TargetOf
<1> QED BY <1>3, <1>4 DEF FenceInv

\* A process that ends takes its transactions, and so its locks, with it.
LEMMA RestartStep ==
    ASSUME FenceInv, IInv', NEW r \in Replica, NEW d \in Deployment, RestartReplica(r, d)
    PROVE  FenceInv'
<1>1. UNCHANGED <<rows, flows, sessions, creds>>
  BY DEF RestartReplica, Restart
<1>2. CredentialsTypeOK'
  BY <1>1 DEF RestartReplica, FenceInv, CredentialsTypeOK, TargetOf, Stages
<1>3. ASSUME NEW h \in Handler PROVE Equipped(h)' /\ FenceHolds(h)'
  <2>1. CASE stage'[h] = "idle"
    BY <2>1 DEF Equipped, FenceHolds, StagesOf, NeedsSession, Over
  <2>2. CASE stage'[h] # "idle"
    <3>1. /\ stage'[h] = stage[h] /\ entry'[h] = entry[h] /\ sid'[h] = sid[h] /\ held'[h] = held[h]
          /\ \A n \in Name : h \in shared[n] => h \in shared'[n]
      BY <2>2 DEF RestartReplica
    <3>2. stage[h] = "fenced" => TargetOf(h) \in Name
      BY EntryType DEF Over, Answers
    <3> QED BY <1>1, <3>1, <3>2 DEF FenceInv, Equipped, FenceHolds, StagesOf, NeedsSession,
                                    Current, StampOf, TargetOf
  <2> QED BY <2>1, <2>2
<1> QED BY <1>2, <1>3 DEF FenceInv

\* handleAuthorize and handleCallback up to the fence.
LEMMA SignInStep ==
    ASSUME FenceInv, IInv', NEW h \in SigningIn, SignIn(h)
    PROVE  FenceInv'
<1>0. h \in Handler /\ h \notin Proxying /\ h \notin Saving /\ On[h] \in Replica /\ TypeOK
  BY HandlersAssumption DEF Handler, FenceInv, IInv
<1>1. ASSUME NEW n \in Name, Authorize(h, n) PROVE FenceInv'
  <2>1. Serving(On[h], n) \in Entry
    BY <1>0, <1>1, ServingType DEF Authorize
  <2>2. CredentialsTypeOK'
    BY <1>1, <2>1 DEF Authorize, FenceInv, CredentialsTypeOK, handlerVars, Entry, TargetOf
  <2>3. Apart(h) /\ Equipped(h)' /\ FenceHolds(h)'
    BY <1>0, <1>1 DEF Authorize, Apart, FenceInv, Equipped, FenceHolds, StagesOf, NeedsSession,
                      handlerVars, targetVars, Current, StampOf, TargetOf
  <2> QED BY <1>0, <2>2, <2>3, HandlerStep
<1>2. ASSUME NEW stamp \in flows, Callback(h, stamp) PROVE FenceInv'
  <2>1. NameOf(stamp) \in Name
    BY StampType DEF FenceInv, CredentialsTypeOK
  <2>2. Serving(On[h], NameOf(stamp)) \in Entry \cup {NoEntry}
    BY <1>0, <2>1, ServingType
  <2>3. CredentialsTypeOK'
    BY <1>0, <1>2, <2>2 DEF Callback, FenceInv, CredentialsTypeOK, TargetOf, Stages
  <2>4. /\ Apart(h)
        /\ stage'[h] \in {"idle", "exchange"}
        /\ stage'[h] = "exchange" => entry'[h] = Serving(On[h], NameOf(stamp)) /\ entry'[h] # NoEntry
    BY <1>0, <1>2 DEF Callback, Apart, FenceInv, CredentialsTypeOK, targetVars
  <2>5. Equipped(h)' /\ FenceHolds(h)'
    BY <1>0, <2>2, <2>4 DEF Equipped, FenceHolds, StagesOf, NeedsSession, Over
  <2> QED BY <1>0, <2>3, <2>4, <2>5, HandlerStep
<1>3. ASSUME NEW s \in Sid, Exchange(h, s) PROVE FenceInv'
  <2>1. CredentialsTypeOK'
    BY <1>0, <1>3 DEF Exchange, Forget, FenceInv, CredentialsTypeOK, TargetOf, Stages, tableVars
  <2>2. /\ Apart(h)
        /\ \/ stage'[h] = "idle"
           \/ stage[h] = "exchange" /\ stage'[h] = "write" /\ entry'[h] = entry[h] /\ sid'[h] = s
    BY <1>0, <1>3 DEF Exchange, Forget, Apart, FenceInv, CredentialsTypeOK, targetVars, tableVars
  <2>3. Equipped(h)' /\ FenceHolds(h)'
    BY <1>0, <2>2, EntryType DEF Equipped, FenceHolds, StagesOf, NeedsSession, Over, Answers
  <2> QED BY <1>0, <2>1, <2>2, <2>3, HandlerStep
<1> QED BY <1>1, <1>2, <1>3 DEF SignIn

\* handleSettings and handleSettingsSave up to the fence.
LEMMA SettingsStep ==
    ASSUME FenceInv, IInv', NEW h \in Saving, Settings(h)
    PROVE  FenceInv'
<1>0. /\ h \in Handler /\ h \notin Proxying /\ h \notin SigningIn /\ On[h] \in Replica
      /\ TypeOK /\ CredentialsTypeOK
  BY HandlersAssumption DEF Handler, FenceInv, IInv
<1>1. ASSUME NEW r \in Replica, NEW n \in Name, ShowSettings(h, r, n) PROVE FenceInv'
  <2>1. Serving(r, n) \in Entry
    BY <1>0, <1>1, ServingType DEF ShowSettings, PerUser
  <2>2. CredentialsTypeOK'
    BY <1>0, <1>1, <2>1 DEF ShowSettings, Goes, CredentialsTypeOK, TargetOf, Stages, tableVars
  <2>3. Apart(h) /\ stage'[h] = "form" /\ entry'[h] = Serving(r, n)
    BY <1>0, <1>1 DEF ShowSettings, Goes, Apart, CredentialsTypeOK, targetVars, tableVars
  <2>4. Equipped(h)' /\ FenceHolds(h)'
    BY <1>0, <2>1, <2>3 DEF Equipped, FenceHolds, StagesOf, NeedsSession
  <2> QED BY <1>0, <2>2, <2>3, <2>4, HandlerStep
<1>2. CASE Save(h)
  <2>1. TargetOf(h) \in Name /\ StampOf(h) \in Stamp
    BY <1>0, <1>2, EntryType DEF Save, Over, Answers
  <2>2. Serving(On[h], TargetOf(h)) \in Entry \cup {NoEntry}
    BY <1>0, <2>1, ServingType
  <2>3. CredentialsTypeOK'
    BY <1>0, <1>2, <2>1, <2>2 DEF Save, PerUser, Forget, CredentialsTypeOK, TargetOf, Stages, tableVars
  <2>4. /\ Apart(h)
        /\ \/ stage'[h] = "idle"
           \/ /\ stage'[h] = "write"
              /\ entry'[h] = Serving(On[h], TargetOf(h)) /\ entry'[h] # NoEntry
              /\ held'[h] = entry'[h].stamp
    BY <1>0, <1>2 DEF Save, PerUser, Forget, Apart, CredentialsTypeOK, targetVars, tableVars
  <2>5. Equipped(h)' /\ FenceHolds(h)'
    BY <1>0, <2>2, <2>4 DEF Equipped, FenceHolds, StagesOf, NeedsSession, StampOf, Over
  <2> QED BY <1>0, <2>3, <2>4, <2>5, HandlerStep
<1>3. CASE Clear(h)
  <2>1. CredentialsTypeOK'
    BY <1>0, <1>3 DEF Clear, Forget, CredentialsTypeOK, TargetOf, Stages
  <2>2. Apart(h) /\ stage'[h] = "idle"
    BY <1>0, <1>3 DEF Clear, Forget, Apart, CredentialsTypeOK, targetVars
  <2>3. Equipped(h)' /\ FenceHolds(h)'
    BY <2>2 DEF Equipped, FenceHolds, StagesOf, NeedsSession, Over
  <2> QED BY <1>0, <2>1, <2>2, <2>3, HandlerStep
<1> QED BY <1>1, <1>2, <1>3 DEF Settings

\* A handler that has answered holds nothing.
LEMMA DoneStep ==
    ASSUME FenceInv, IInv', NEW h \in Handler, Done(h)
    PROVE  FenceInv'
<1>1. CredentialsTypeOK'
  BY DEF Done, Forget, FenceInv, CredentialsTypeOK, TargetOf, Stages, tableVars, Answers
<1>2. Apart(h) /\ stage'[h] = "idle"
  BY DEF Done, Forget, Apart, FenceInv, CredentialsTypeOK, targetVars, tableVars
<1>3. Equipped(h)' /\ FenceHolds(h)'
  BY <1>2 DEF Equipped, FenceHolds, StagesOf, NeedsSession, Over
<1> QED BY <1>1, <1>2, <1>3, HandlerStep

\* purgeStaleAdminRows deletes rows no fence is holding.
LEMMA PurgeStep ==
    ASSUME FenceInv, IInv', NEW table, NEW N, PurgeStaleAdminRows(table, N)
    PROVE  FenceInv'
<1>1. UNCHANGED <<rows, shared, handlerVars>>
  BY DEF PurgeStaleAdminRows, targetVars
<1>2. CredentialsTypeOK'
  <2>1. flows' \subseteq flows /\ creds' \subseteq creds /\ sessions' \in [Sid -> Session \cup {NoSession}]
    BY DEF PurgeStaleAdminRows, FenceInv, CredentialsTypeOK
  <2>2. UNCHANGED restarts
    BY DEF PurgeStaleAdminRows
  <2> QED BY <1>1, <2>1, <2>2 DEF FenceInv, CredentialsTypeOK, TargetOf, handlerVars
<1>3. \A h \in Handler : Equipped(h)' /\ FenceHolds(h)'
  BY <1>1 DEF FenceInv, Equipped, FenceHolds, StagesOf, NeedsSession, Current, StampOf, TargetOf,
              handlerVars
<1> QED BY <1>2, <1>3 DEF FenceInv

\* RevokeSession takes nothing a fence relies on.
LEMMA RevokeStep ==
    ASSUME FenceInv, IInv', NEW s \in Sid, RevokeSession(s)
    PROVE  FenceInv'
<1>1. UNCHANGED <<rows, shared, handlerVars>>
  BY DEF RevokeSession, targetVars
<1>2. CredentialsTypeOK'
  BY <1>1 DEF RevokeSession, FenceInv, CredentialsTypeOK, TargetOf, handlerVars
<1>3. \A h \in Handler : Equipped(h)' /\ FenceHolds(h)'
  BY <1>1 DEF FenceInv, Equipped, FenceHolds, StagesOf, NeedsSession, Current, StampOf, TargetOf,
              handlerVars
<1> QED BY <1>2, <1>3 DEF FenceInv

\* The write itself keeps the types, and is the end of the handler's fence.
LEMMA WriteTypes ==
    ASSUME FenceInv, NEW h \in Handler, stage[h] \in {"write", "fenced"}, Write(h)
    PROVE  /\ sessions' \in [Sid -> Session \cup {NoSession}]
           /\ creds' \subseteq Credential
           /\ stage'[h] \in {"idle", "invalid", "send"}
           /\ stage' = [stage EXCEPT ![h] = stage'[h]]
           /\ stage'[h] # "idle" => h \in Proxying
           /\ entry' = [entry EXCEPT ![h] = entry'[h]]
           /\ sid' = [sid EXCEPT ![h] = sid'[h]]
           /\ held' = [held EXCEPT ![h] = held'[h]]
           /\ since' = [since EXCEPT ![h] = since'[h]]
           /\ entry'[h] \in {entry[h], NoEntry} /\ sid'[h] \in {sid[h], Nothing}
           /\ since'[h] \in Nat /\ held'[h] \in Access \cup Stamp \cup {Nothing}
           /\ stage'[h] = "send" => entry'[h] = entry[h] /\ sid'[h] = sid[h]
<1>1. CredentialsTypeOK /\ StampOf(h) \in Stamp
  BY EntryType DEF FenceInv, Over, Answers
<1>2. CASE h \in SigningIn /\ PutSession(h)
  <2>1. sid[h] \in Sid
    BY <1>2 DEF FenceInv, Equipped, NeedsSession
  <2> QED BY <1>1, <1>2, <2>1 DEF PutSession, Forget, CredentialsTypeOK, Session
<1>3. CASE h \in Saving /\ PutCredential(h)
  <2>1. [stamp |-> StampOf(h), meantFor |-> held[h]] \in Credential
    BY <1>1, <1>3 DEF FenceInv, Equipped, Credential
  <2> QED BY <1>1, <1>3, <2>1 DEF PutCredential, Forget, CredentialsTypeOK
<1>4. CASE h \in Proxying /\ PutToken(h)
  <2>1. sid[h] \in Sid
    BY <1>4 DEF FenceInv, Equipped, NeedsSession, Over, Answers
  <2>2. CASE sessions[sid[h]] # NoSession /\ sessions[sid[h]].stamp = StampOf(h)
    <3>1. sessions[sid[h]] \in Session
      BY <1>1, <2>1, <2>2 DEF CredentialsTypeOK
    <3>2. [sessions[sid[h]] EXCEPT !.rotated = TRUE] \in Session
      BY <3>1 DEF Session
    <3>3. sessions' = [sessions EXCEPT ![sid[h]] = [sessions[sid[h]] EXCEPT !.rotated = TRUE]]
      BY <1>4, <2>2 DEF PutToken
    <3>4. sessions' \in [Sid -> Session \cup {NoSession}]
      BY <1>1, <3>2, <3>3 DEF CredentialsTypeOK
    <3> QED BY <1>1, <1>4, <2>2, <3>4 DEF PutToken, CredentialsTypeOK
  <2>3. CASE ~(sessions[sid[h]] # NoSession /\ sessions[sid[h]].stamp = StampOf(h))
    BY <1>1, <1>4, <2>3 DEF PutToken, Forget, CredentialsTypeOK
  <2> QED BY <2>2, <2>3
<1> QED BY <1>2, <1>3, <1>4 DEF Write

\* A write is the end of its handler's fence, if it had one, and disturbs no
\* other (CreateSession, PutUserCredential, UpdateSessionToken).
LEMMA WriteStep ==
    ASSUME FenceInv, IInv', NEW h \in Handler, stage[h] \in {"write", "fenced"}, Write(h),
           UNCHANGED <<rows, flows, restarts>>,
           shared' \in [Name -> SUBSET Handler],
           \A n \in Name : shared'[n] \subseteq shared[n] /\ shared[n] \ {h} \subseteq shared'[n],
           \A n \in Name : stage[h] = "fenced" => h \notin shared'[n]
    PROVE  FenceInv'
<1>1. CredentialsTypeOK
  BY DEF FenceInv
<1>2. CredentialsTypeOK'
  <2>1. ASSUME NEW n \in Name, NEW g \in shared'[n]
        PROVE  g # h /\ stage[g] = "fenced" /\ entry[g] # NoEntry /\ TargetOf(g) = n
    BY <1>1, <2>1 DEF CredentialsTypeOK
  <2>2. /\ stage' \in [Handler -> Stages] /\ entry' \in [Handler -> Entry \cup {NoEntry}]
        /\ sid' \in [Handler -> Sid \cup {Nothing}] /\ since' \in [Handler -> Nat]
        /\ held' \in [Handler -> Access \cup Stamp \cup {Nothing}]
    BY <1>1, WriteTypes DEF CredentialsTypeOK, Stages, Answers
  <2>3. ASSUME NEW n \in Name, NEW g \in shared'[n]
        PROVE  stage'[g] = "fenced" /\ entry'[g] # NoEntry /\ TargetOf(g)' = n
    BY <1>1, <2>1, WriteTypes DEF CredentialsTypeOK, TargetOf
  <2>4. sessions' \in [Sid -> Session \cup {NoSession}] /\ creds' \subseteq Credential
    BY WriteTypes
  <2> QED BY <1>1, <2>2, <2>3, <2>4 DEF CredentialsTypeOK
<1>3. Apart(h)
  BY <1>1, WriteTypes DEF Apart, CredentialsTypeOK
<1>4. Equipped(h)' /\ FenceHolds(h)'
  BY WriteTypes, EntryType, HandlersAssumption
  DEF FenceInv, Equipped, FenceHolds, StagesOf, NeedsSession, Over, Answers
<1> QED BY <1>2, <1>3, <1>4, HandlerStep

\* The fence locks a row that carries the stamp, or refuses (fenced).
LEMMA FenceStep ==
    ASSUME FenceInv, IInv', NEW h \in Handler, Fence(h)
    PROVE  FenceInv'
<1> DEFINE n == TargetOf(h)
           Good == Current(StampOf(h)) /\ (h \in Proxying => sessions[sid[h]] # NoSession)
<1>1. CredentialsTypeOK /\ stage[h] = "write" /\ FromAdmin(entry[h]) /\ UNCHANGED <<rows, restarts>>
  BY DEF FenceInv, Fence, targetVars
<1>2. entry[h] \in Entry /\ n \in Name
  BY <1>1, EntryType DEF Over, Answers
<1>3. CASE Good
  <2>1. /\ shared' = [shared EXCEPT ![n] = @ \cup {h}]
        /\ stage' = [stage EXCEPT ![h] = "fenced"]
        /\ held' = [held EXCEPT ![h] = IF h \in SigningIn THEN rows[n].access ELSE @]
        /\ UNCHANGED <<flows, sessions, creds, entry, sid, since>>
    BY <1>3 DEF Fence
  <2>2. rows[n].access \in Access
    <3>1. rows[n] \in Row \cup {NoRow} /\ rows[n] # NoRow
      BY <1>2, <1>3 DEF FenceInv, IInv, TypeOK, Rows, Current, StampOf, TargetOf
    <3> QED BY <3>1 DEF Row
  <2>3. CredentialsTypeOK'
    <3>1. /\ stage' \in [Handler -> Stages] /\ held' \in [Handler -> Access \cup Stamp \cup {Nothing}]
          /\ shared' \in [Name -> SUBSET Handler]
      BY <1>1, <1>2, <2>1, <2>2 DEF CredentialsTypeOK, Stages
    <3>2. ASSUME NEW m \in Name, NEW g \in shared'[m]
          PROVE  stage'[g] = "fenced" /\ entry'[g] # NoEntry /\ TargetOf(g)' = m
      <4>1. entry[h] # NoEntry
        BY <1>2, NoEntryAssumption
      <4>2. CASE g = h
        <5>1. m = n \/ h \in shared[m]
          BY <1>1, <1>2, <2>1, <3>2, <4>2 DEF CredentialsTypeOK
        <5>2. h \notin shared[m]
          BY <1>1 DEF CredentialsTypeOK
        <5> QED BY <1>1, <2>1, <4>1, <4>2, <5>1, <5>2 DEF CredentialsTypeOK, TargetOf
      <4>3. CASE g # h
        <5>1. g \in shared[m]
          BY <1>1, <1>2, <2>1, <3>2, <4>3 DEF CredentialsTypeOK
        <5> QED BY <1>1, <2>1, <4>3, <5>1 DEF CredentialsTypeOK, TargetOf
      <4> QED BY <4>2, <4>3
    <3> QED BY <1>1, <2>1, <3>1, <3>2 DEF CredentialsTypeOK
  <2>4. Apart(h)
    BY <1>1, <1>2, <2>1 DEF Apart, CredentialsTypeOK
  <2>5. /\ stage'[h] = "fenced" /\ entry'[h] = entry[h] /\ sid'[h] = sid[h] /\ h \in shared'[n]
        /\ held'[h] = IF h \in SigningIn THEN rows[n].access ELSE held[h]
    BY <1>2, <2>1 DEF CredentialsTypeOK, FenceInv
  <2>6. FenceHolds(h)'
    BY <1>1, <1>3, <2>5 DEF FenceHolds, Current, StampOf, TargetOf
  <2>7. Equipped(h)'
    BY <1>1, <1>2, <2>5, HandlersAssumption
    DEF FenceInv, Equipped, StagesOf, NeedsSession, StampOf, Over, Answers
  <2> QED BY <2>3, <2>4, <2>6, <2>7, HandlerStep
<1>4. CASE ~Good
  <2>1. Forget(h, IF h \in Proxying THEN "invalid" ELSE "idle") /\ UNCHANGED <<flows, sessions, creds, shared>>
    BY <1>4 DEF Fence
  <2>2. CredentialsTypeOK'
    BY <1>1, <2>1 DEF Forget, CredentialsTypeOK, TargetOf, Stages, Answers
  <2>3. Apart(h) /\ stage'[h] = IF h \in Proxying THEN "invalid" ELSE "idle"
    BY <1>1, <2>1 DEF Forget, Apart, CredentialsTypeOK
  <2>4. Equipped(h)' /\ FenceHolds(h)'
    BY <2>3, HandlersAssumption DEF Equipped, FenceHolds, StagesOf, NeedsSession, Over, Answers
  <2> QED BY <2>2, <2>3, <2>4, HandlerStep
<1> QED BY <1>3, <1>4

\* A fence ends with its write, or with the refusal of its user.
LEMMA FencedWriteStep ==
    ASSUME FenceInv, IInv', NEW h \in Handler, FencedWrite(h)
    PROVE  FenceInv'
<1>1. CredentialsTypeOK /\ stage[h] = "fenced" /\ Unlock(h) /\ UNCHANGED <<rows, flows, restarts>>
  BY DEF FenceInv, FencedWrite, targetVars
<1>2. CASE h \in SigningIn /\ held[h] \notin Admitting
  <2>1. Forget(h, "idle") /\ UNCHANGED <<sessions, creds>>
    BY <1>2 DEF FencedWrite
  <2>2. CredentialsTypeOK'
    BY <1>1, <2>1 DEF Forget, Unlock, CredentialsTypeOK, TargetOf, Stages
  <2>3. Apart(h) /\ stage'[h] = "idle"
    BY <1>1, <2>1 DEF Forget, Unlock, Apart, CredentialsTypeOK
  <2>4. Equipped(h)' /\ FenceHolds(h)'
    BY <2>3 DEF Equipped, FenceHolds, StagesOf, NeedsSession, Over
  <2> QED BY <2>2, <2>3, <2>4, HandlerStep
<1>3. CASE ~(h \in SigningIn /\ held[h] \notin Admitting)
  <2>1. Write(h)
    BY <1>3 DEF FencedWrite
  <2> QED BY <1>1, <2>1, WriteStep DEF Unlock, CredentialsTypeOK
<1> QED BY <1>2, <1>3

\* A config stamp's row is written without a fence.
LEMMA DirectWriteStep ==
    ASSUME FenceInv, IInv', NEW h \in Handler, DirectWrite(h)
    PROVE  FenceInv'
<1>1. stage[h] = "write" /\ Write(h) /\ UNCHANGED <<rows, flows, shared, restarts>>
  BY DEF DirectWrite, targetVars
<1> QED BY <1>1, WriteStep DEF FenceInv, CredentialsTypeOK

\* A failed fence rolls back; a token write may be tried again
\* (persistRefreshed).
LEMMA FailsStep ==
    ASSUME FenceInv, IInv', NEW h \in Handler, Fails(h)
    PROVE  FenceInv'
<1>1. /\ CredentialsTypeOK /\ stage[h] \in {"exchange", "write", "fenced", "refresh"}
      /\ Unlock(h) /\ UNCHANGED <<rows, flows, sessions, creds, restarts>>
  BY DEF FenceInv, Fails, targetVars
<1>2. CASE h \in Proxying /\ stage[h] = "fenced" /\ stage' = [stage EXCEPT ![h] = "write"]
                /\ UNCHANGED <<entry, sid, held, since>>
  <2>1. CredentialsTypeOK'
    BY <1>1, <1>2 DEF Unlock, CredentialsTypeOK, TargetOf, Stages
  <2>2. Apart(h) /\ stage'[h] = "write"
    BY <1>1, <1>2 DEF Unlock, Apart, CredentialsTypeOK
  <2>3. Equipped(h)' /\ FenceHolds(h)'
    BY <1>1, <1>2, <2>2, HandlersAssumption
    DEF FenceInv, Equipped, FenceHolds, StagesOf, NeedsSession, Over, Answers
  <2> QED BY <2>1, <2>2, <2>3, HandlerStep
<1>3. CASE Forget(h, IF h \in Proxying THEN "invalid" ELSE "idle")
  <2>1. CredentialsTypeOK'
    BY <1>1, <1>3 DEF Unlock, Forget, CredentialsTypeOK, TargetOf, Stages, Answers
  <2>2. Apart(h) /\ stage'[h] = IF h \in Proxying THEN "invalid" ELSE "idle"
    BY <1>1, <1>3 DEF Unlock, Forget, Apart, CredentialsTypeOK
  <2>3. Equipped(h)' /\ FenceHolds(h)'
    BY <2>2, HandlersAssumption DEF Equipped, FenceHolds, StagesOf, NeedsSession, Over, Answers
  <2> QED BY <2>1, <2>2, <2>3, HandlerStep
<1> QED BY <1>2, <1>3 DEF Fails

\* handleMCP from its arrival to what it sends.
LEMMA ProxyStep ==
    ASSUME FenceInv, IInv', NEW h \in Proxying, Proxy(h)
    PROVE  FenceInv'
<1>0. /\ h \in Handler /\ h \notin SigningIn /\ h \notin Saving /\ On[h] \in Replica
      /\ TypeOK /\ CredentialsTypeOK
  BY HandlersAssumption DEF Handler, FenceInv, IInv
<1>1. ASSUME CredentialsTypeOK', Apart(h), stage'[h] \in StagesOf(h) \ {"fenced"},
             stage'[h] \notin Over => entry'[h] \in Entry /\ sid'[h] \in Sid
      PROVE  FenceInv'
  <2>1. Equipped(h)' /\ FenceHolds(h)'
    BY <1>0, <1>1 DEF Equipped, FenceHolds, StagesOf, NeedsSession
  <2> QED BY <1>0, <1>1, <2>1, HandlerStep
<1>2. ASSUME NEW n \in Name, NEW s \in Sid, Arrive(h, n, s) PROVE FenceInv'
  <2>1. Serving(On[h], n) \in Entry
    BY <1>0, <1>2, ServingType DEF Arrive
  <2>2. CredentialsTypeOK'
    BY <1>0, <1>2, <2>1 DEF Arrive, Goes, FenceInv, IInv, TypeOK, CredentialsTypeOK, TargetOf,
                            Stages, tableVars
  <2>3. /\ Apart(h) /\ stage'[h] = "lookup" /\ entry'[h] = Serving(On[h], n) /\ sid'[h] = s
    BY <1>0, <1>2 DEF Arrive, Goes, Apart, CredentialsTypeOK, targetVars, tableVars
  <2> QED BY <1>0, <1>1, <2>1, <2>2, <2>3 DEF StagesOf
<1>3. CASE stage[h] \notin Over
  <2>1. /\ entry[h] \in Entry /\ StampOf(h) \in Stamp /\ sid[h] \in Sid
    BY <1>0, <1>3, EntryType DEF FenceInv, Equipped, NeedsSession
  <2>2. sessions[sid[h]] \in Session \cup {NoSession}
    BY <1>0, <2>1 DEF CredentialsTypeOK
  <2>3. ASSUME NEW to \in {"credential", "token", "send", "refresh", "write"},
               stage' = [stage EXCEPT ![h] = to],
               held' \in [Handler -> Access \cup Stamp \cup {Nothing}],
               \A g \in Handler \ {h} : held'[g] = held[g],
               UNCHANGED <<targetVars, tableVars, entry, sid, since, restarts>>,
               stage[h] # "fenced"
        PROVE  FenceInv'
    <3>1. CredentialsTypeOK'
      BY <1>0, <2>3 DEF CredentialsTypeOK, TargetOf, Stages, tableVars
    <3>2. Apart(h) /\ stage'[h] = to /\ entry'[h] = entry[h] /\ sid'[h] = sid[h]
      BY <1>0, <2>3 DEF Apart, CredentialsTypeOK, targetVars, tableVars
    <3> QED BY <1>0, <1>1, <2>1, <3>1, <3>2 DEF StagesOf
  <2>4. ASSUME NEW to \in Answers, Forget(h, to), stage[h] # "fenced",
               UNCHANGED <<targetVars, tableVars, restarts>>
        PROVE  FenceInv'
    <3>1. CredentialsTypeOK'
      BY <1>0, <2>4 DEF Forget, CredentialsTypeOK, TargetOf, Stages, tableVars
    <3>2. Apart(h) /\ stage'[h] = to
      BY <1>0, <2>4 DEF Forget, Apart, CredentialsTypeOK, targetVars, tableVars
    <3>3. stage'[h] \in StagesOf(h) \ {"fenced"} /\ stage'[h] \in Over
      BY <1>0, <2>4, <3>2 DEF StagesOf, Over, Answers
    <3> QED BY <1>1, <3>1, <3>2, <3>3
  <2>5. CASE LookupAccessToken(h)
    <3>1. CASE Proceeds(h)
      <4>1. ModeOf[DefOf(StampOf(h))] \in Mode
        BY <2>1, StampType, ConstantsAssumption DEF ConstantsAssumption
      <4>2. PICK to \in {"credential", "token", "send"} : stage' = [stage EXCEPT ![h] = to]
        BY <3>1, <4>1 DEF Proceeds, Mode
      <4> QED BY <1>0, <2>1, <2>3, <2>5, <3>1, <4>2 DEF LookupAccessToken, Proceeds, CredentialsTypeOK
    <3>2. CASE Forget(h, "invalid") \/ Forget(h, "behind")
      BY <2>4, <2>5, <3>2 DEF LookupAccessToken, Answers
    <3> QED BY <2>5, <3>1, <3>2 DEF LookupAccessToken
  <2>6. CASE UserCredential(h)
    <3>1. CASE Forget(h, "not_enrolled") \/ Forget(h, "behind")
      BY <2>4, <2>6, <3>1 DEF UserCredential, Answers
    <3>2. CASE ~(Forget(h, "not_enrolled") \/ Forget(h, "behind"))
      <4>1. PICK c \in creds : held' = [held EXCEPT ![h] = c.meantFor]
        BY <2>6, <3>2 DEF UserCredential
      <4>2. c.meantFor \in Stamp
        BY <1>0 DEF CredentialsTypeOK, Credential
      <4> QED BY <1>0, <2>3, <2>6, <3>2, <4>1, <4>2 DEF UserCredential, CredentialsTypeOK
    <3> QED BY <3>1, <3>2
  <2>7. CASE SessionToken(h)
    <3>1. CASE sessions[sid[h]] = NoSession \/ sessions[sid[h]].stamp # StampOf(h)
      BY <2>4, <2>7, <3>1 DEF SessionToken, Answers
    <3>2. CASE ~(sessions[sid[h]] = NoSession \/ sessions[sid[h]].stamp # StampOf(h))
      BY <1>0, <2>1, <2>3, <2>7, <3>2 DEF SessionToken, CredentialsTypeOK
    <3> QED BY <3>1, <3>2
  <2>8. CASE Refreshed(h)
    BY <1>0, <2>3, <2>8 DEF Refreshed, Goes, CredentialsTypeOK
  <2>9. CASE Send(h)
    BY <2>4, <2>9 DEF Send, Answers
  <2>10. ~ \E n \in Name, s \in Sid : Arrive(h, n, s)
    BY <1>3 DEF Arrive, Goes, Over
  <2> QED BY <2>5, <2>6, <2>7, <2>8, <2>9, <2>10 DEF Proxy
<1>4. CASE stage[h] \in Over
  BY <1>2, <1>4 DEF Proxy, LookupAccessToken, UserCredential, SessionToken, Refreshed, Send, Goes,
                    Over, Answers
<1> QED BY <1>3, <1>4

\* Every step keeps the invariant.
LEMMA NextFenceInv == FenceInv /\ [CNext]_vars => FenceInv'
<1> SUFFICES ASSUME FenceInv, [CNext]_vars PROVE FenceInv'
  OBVIOUS
<1>1. IInv'
  BY StepIsRegistryStep, NextInvariant DEF FenceInv
<1>2. CASE UNCHANGED vars
  BY <1>1, <1>2 DEF vars, targetVars, tableVars, handlerVars, FenceInv, CredentialsTypeOK, Equipped,
                    FenceHolds, StagesOf, NeedsSession, Current, StampOf, TargetOf
<1>3. ASSUME NEW h \in Handler, Writes(h) PROVE FenceInv'
  BY <1>1, <1>3, FenceStep, FencedWriteStep, DirectWriteStep, FailsStep DEF Writes
<1>4. CASE CNext
  <2>1. SigningIn \subseteq Handler /\ Saving \subseteq Handler /\ Proxying \subseteq Handler
    BY DEF Handler
  <2>2. ASSUME NEW r \in Replica, Rebuild(r) PROVE FenceInv'
    BY <1>1, <2>2 DEF Rebuild, Serve, tableVars, handlerVars, FenceInv, CredentialsTypeOK, Equipped,
                      FenceHolds, StagesOf, NeedsSession, Current, StampOf, TargetOf
  <2> QED BY <1>1, <1>3, <1>4, <2>1, <2>2, ChangeStep, RestartStep, PurgeStep, RevokeStep,
             SignInStep, SettingsStep, ProxyStep, DoneStep DEF CNext, Sweep
<1> QED BY <1>2, <1>4

\* The inductive invariant: types, what each stage of a handler needs, and that
\* a row under a fence carries the stamp and the groups the fence found.
THEOREM FenceInvariant == CSpec => []FenceInv
BY InitFenceInv, NextFenceInv, PTL DEF CSpec

\* The types of stamped rows, handlers and row locks; a row is share-locked
\* only by a fence that is under way.
THEOREM CredentialsTypeCorrect == CSpec => []CredentialsTypeOK
<1>1. FenceInv => CredentialsTypeOK
  BY DEF FenceInv
<1> QED BY <1>1, FenceInvariant, PTL

-----------------------------------------------------------------------------
(* What a fence is for *)

\* A step that writes no stamped row.
OnlyDeletes ==
    /\ \A s \in Sid : sessions'[s] \in {sessions[s], NoSession}
    /\ creds' \subseteq creds

\* What is written carries the stamp of the writer; only a sign-in makes a
\* session where there was none.
LEMMA WriteStamps ==
    ASSUME FenceInv, NEW h \in Handler, stage[h] \in {"write", "fenced"}, Write(h)
    PROVE  /\ \A s \in Sid : \/ sessions'[s] = sessions[s]
                             \/ /\ sessions'[s].stamp = StampOf(h)
                                /\ h \in SigningIn \/ sessions[s] # NoSession
           /\ \A c \in creds' \ creds : c.stamp = StampOf(h)
<1>1. CredentialsTypeOK
  BY DEF FenceInv
<1>2. CASE h \in SigningIn /\ PutSession(h)
  BY <1>1, <1>2 DEF PutSession, CredentialsTypeOK
<1>3. CASE h \in Saving /\ PutCredential(h)
  BY <1>3 DEF PutCredential
<1>4. CASE h \in Proxying /\ PutToken(h)
  <2>1. sessions' = sessions \/ /\ sessions[sid[h]] \in Session /\ sessions[sid[h]].stamp = StampOf(h)
                                /\ sessions[sid[h]] # NoSession
                                /\ sessions' = [sessions EXCEPT ![sid[h]].rotated = TRUE]
    <3>1. sid[h] \in Sid
      BY <1>4 DEF FenceInv, Equipped, NeedsSession, Over, Answers
    <3> QED BY <1>1, <1>4, <3>1 DEF PutToken, CredentialsTypeOK
  <2>2. \A s \in Sid : \/ sessions'[s] = sessions[s]
                       \/ sessions'[s].stamp = StampOf(h) /\ sessions[s] # NoSession
    BY <1>1, <2>1 DEF CredentialsTypeOK, Session
  <2> QED BY <1>4, <2>2 DEF PutToken
<1> QED BY <1>2, <1>3, <1>4 DEF Write

\* A step deletes at most, or is a write behind a fence that holds, or one for a
\* config target.
LEMMA WritesOrDeletes ==
    ASSUME FenceInv, CNext
    PROVE  \/ OnlyDeletes
           \/ \E h \in Handler :
                /\ stage[h] \in {"write", "fenced"} /\ Write(h)
                /\ FromAdmin(entry[h]) =>
                     stage[h] = "fenced" /\ (h \in SigningIn => held[h] \in Admitting)
<1>1. CredentialsTypeOK
  BY DEF FenceInv
<1>2. UNCHANGED <<sessions, creds>> => OnlyDeletes
  BY DEF OnlyDeletes
<1>3. ASSUME NEW n \in Name, Change(n) PROVE OnlyDeletes
  BY <1>2, <1>3 DEF Change, tableVars
<1>4. ASSUME NEW r \in Replica, Rebuild(r) \/ \E d \in Deployment : RestartReplica(r, d)
      PROVE  OnlyDeletes
  BY <1>2, <1>4 DEF Rebuild, RestartReplica, tableVars
<1>5. ASSUME NEW table, NEW N, PurgeStaleAdminRows(table, N) PROVE OnlyDeletes
  BY <1>1, <1>5 DEF PurgeStaleAdminRows, OnlyDeletes, CredentialsTypeOK
<1>6. ASSUME NEW s \in Sid, RevokeSession(s) PROVE OnlyDeletes
  BY <1>1, <1>6 DEF RevokeSession, OnlyDeletes, CredentialsTypeOK
<1>7. ASSUME NEW h \in Handler, SignIn(h) \/ Settings(h) PROVE OnlyDeletes
  <2>1. CASE Clear(h)
    BY <2>1 DEF Clear, OnlyDeletes
  <2> QED BY <1>2, <1>7, <2>1 DEF SignIn, Authorize, Callback, Exchange, Settings, ShowSettings, Save,
                                  tableVars
<1>8. ASSUME NEW h \in Handler, Proxy(h) \/ Done(h) PROVE OnlyDeletes
  BY <1>2, <1>8 DEF Proxy, Arrive, LookupAccessToken, UserCredential, SessionToken, Refreshed, Send,
                    Done, tableVars
<1>9. ASSUME NEW h \in Handler, Fence(h) \/ Fails(h) PROVE OnlyDeletes
  BY <1>2, <1>9 DEF Fence, Fails
<1>10. ASSUME NEW h \in Handler, FencedWrite(h)
       PROVE  OnlyDeletes \/ (stage[h] = "fenced" /\ Write(h) /\ (h \in SigningIn => held[h] \in Admitting))
  BY <1>2, <1>10 DEF FencedWrite
<1>11. ASSUME NEW h \in Handler, DirectWrite(h)
       PROVE  stage[h] = "write" /\ Write(h) /\ ~FromAdmin(entry[h])
  BY <1>11 DEF DirectWrite
<1>12. SigningIn \subseteq Handler /\ Saving \subseteq Handler /\ Proxying \subseteq Handler
  BY DEF Handler
<1>13. ASSUME NEW h \in Handler, Writes(h) PROVE
           \/ OnlyDeletes
           \/ /\ stage[h] \in {"write", "fenced"} /\ Write(h)
              /\ FromAdmin(entry[h]) =>
                   stage[h] = "fenced" /\ (h \in SigningIn => held[h] \in Admitting)
  BY <1>9, <1>10, <1>11, <1>13 DEF Writes
<1> QED BY <1>3, <1>4, <1>5, <1>6, <1>7, <1>8, <1>12, <1>13 DEF CNext, Sweep

\* Nothing is written under an admin stamp but at a moment at which it is the
\* target's, for any number of handlers, replicas and edits (fenced).
THEOREM WritesAreCurrent == CSpec => WrittenOnlyWhileCurrent
<1> DEFINE Step ==
      /\ \A s \in Sid : sessions'[s] \notin {sessions[s], NoSession} /\ IsAdminStamp(sessions'[s].stamp)
             => Current(sessions'[s].stamp)
      /\ \A c \in creds' \ creds : IsAdminStamp(c.stamp) => Current(c.stamp)
<1>1. FenceInv /\ [CNext]_vars => [Step]_vars
  <2> SUFFICES ASSUME FenceInv, CNext PROVE Step
    OBVIOUS
  <2>1. CASE OnlyDeletes
    BY <2>1 DEF OnlyDeletes
  <2>2. ASSUME NEW h \in Handler, stage[h] \in {"write", "fenced"}, Write(h),
               FromAdmin(entry[h]) => stage[h] = "fenced"
        PROVE  Step
    <3>1. IsAdminStamp(StampOf(h)) => Current(StampOf(h))
      BY <2>2 DEF FenceInv, FenceHolds, FromAdmin, StampOf
    <3> QED BY <2>2, <3>1, WriteStamps
  <2> QED BY <2>1, <2>2, WritesOrDeletes
<1> QED BY <1>1, FenceInvariant, PTL DEF CSpec, WrittenOnlyWhileCurrent

\* Nobody is signed in under groups a target no longer has (CreateSession).
THEOREM SignInsAreAdmitted == CSpec => AdmittedByCurrentGroups
<1> DEFINE Step ==
      \A s \in Sid : sessions[s] = NoSession /\ sessions'[s] # NoSession /\ IsAdminStamp(sessions'[s].stamp)
          => rows[NameOf(sessions'[s].stamp)].access \in Admitting
<1>1. FenceInv /\ [CNext]_vars => [Step]_vars
  <2> SUFFICES ASSUME FenceInv, CNext PROVE Step
    OBVIOUS
  <2>1. CASE OnlyDeletes
    BY <2>1 DEF OnlyDeletes
  <2>2. ASSUME NEW h \in Handler, stage[h] \in {"write", "fenced"}, Write(h),
               FromAdmin(entry[h]) => stage[h] = "fenced" /\ (h \in SigningIn => held[h] \in Admitting)
        PROVE  Step
    <3>1. IsAdminStamp(StampOf(h)) /\ h \in SigningIn => rows[NameOf(StampOf(h))].access \in Admitting
      BY <2>2 DEF FenceInv, FenceHolds, FromAdmin, StampOf, TargetOf
    <3> QED BY <2>2, <3>1, WriteStamps
  <2> QED BY <2>1, <2>2, WritesOrDeletes
<1> QED BY <1>1, FenceInvariant, PTL DEF CSpec, AdmittedByCurrentGroups

-----------------------------------------------------------------------------
(***************************************************************************)
(* What a proxied request may rely on once its token has been looked up:   *)
(* the definition it forwards to lived while the request did, its session  *)
(* is still one of that definition or gone, and the credential it sends    *)
(* was meant for it.                                                       *)
(***************************************************************************)

\* A request that has passed LookupAccessToken.
Passed(h) ==
    h \in Proxying /\ stage[h] \in {"credential", "token", "refresh", "write", "fenced", "send"}

\* A sign-in that is about to create its session.
Creating(h) == h \in SigningIn /\ stage[h] \in {"write", "fenced"}

-----------------------------------------------------------------------------
(* How requests and sign-ins move *)

Stays(h) ==
    /\ stage'[h] = stage[h] /\ entry'[h] = entry[h] /\ sid'[h] = sid[h]
    /\ held'[h] = held[h] /\ since'[h] = since[h]

\* Others' steps leave a handler alone, unless its process ends.
LEMMA Bystander ==
    ASSUME FenceInv, CNext, NEW h \in Handler
    PROVE  \/ Stays(h) \/ stage'[h] = "idle"
           \/ h \in SigningIn /\ SignIn(h)
           \/ h \in Saving /\ Settings(h)
           \/ h \in Proxying /\ Proxy(h)
           \/ Writes(h) \/ Done(h)
<1>1. CredentialsTypeOK
  BY DEF FenceInv
<1>2. UNCHANGED handlerVars => Stays(h)
  BY DEF handlerVars, Stays
<1>3. ASSUME NEW g \in Handler, g # h, SignIn(g) \/ Settings(g) \/ Proxy(g) PROVE Stays(h)
  BY <1>1, <1>2, <1>3
  DEF SignIn, Authorize, Callback, Exchange, Settings, ShowSettings, Save, Clear,
      Proxy, Arrive, LookupAccessToken, Proceeds, UserCredential, SessionToken,
      Refreshed, Send, Goes, Forget, CredentialsTypeOK, Stays
<1>4. ASSUME NEW g \in Handler, g # h, Writes(g) \/ Done(g) PROVE Stays(h)
  BY <1>1, <1>4
  DEF Writes, Fence, FencedWrite, DirectWrite, Fails, Done, Write, PutSession,
      PutCredential, PutToken, Forget, CredentialsTypeOK, Stays
<1>5. ASSUME NEW r \in Replica, Rebuild(r) \/ \E d \in Deployment : RestartReplica(r, d)
      PROVE  Stays(h) \/ stage'[h] = "idle"
  BY <1>1, <1>2, <1>5 DEF Rebuild, RestartReplica, Stays
<1>6. ASSUME NEW n \in Name, Change(n) PROVE Stays(h)
  BY <1>2, <1>6 DEF Change
<1>7. ASSUME NEW table, NEW N, PurgeStaleAdminRows(table, N) PROVE Stays(h)
  BY <1>2, <1>7 DEF PurgeStaleAdminRows
<1>8. ASSUME NEW s \in Sid, RevokeSession(s) PROVE Stays(h)
  BY <1>2, <1>8 DEF RevokeSession
<1>9. SigningIn \subseteq Handler /\ Saving \subseteq Handler /\ Proxying \subseteq Handler
  BY DEF Handler
<1> QED BY <1>3, <1>4, <1>5, <1>6, <1>7, <1>8, <1>9 DEF CNext, Sweep

\* A step leaves a request as it is, ends it, or is one of its own: it arrives,
\* passes the lookup, or goes on with the same entry and session.
LEMMA RequestMoves ==
    ASSUME FenceInv, CNext, NEW h \in Proxying
    PROVE  \/ Stays(h) \/ stage'[h] \in Over
           \/ \E n \in Name, s \in Sid : Arrive(h, n, s)
           \/ LookupAccessToken(h) /\ Proceeds(h)
           \/ /\ Passed(h) /\ entry'[h] = entry[h] /\ sid'[h] = sid[h] /\ since'[h] = since[h]
              /\ stage'[h] = "send" => UserCredential(h) \/ SessionToken(h) \/ PutToken(h)
<1>1. CredentialsTypeOK /\ h \in Handler /\ h \notin SigningIn /\ h \notin Saving
  BY HandlersAssumption DEF FenceInv, Handler
<1>2. CASE Writes(h) \/ Done(h)
  BY <1>1, <1>2
  DEF Writes, Fence, FencedWrite, DirectWrite, Fails, Done, Write, PutSession,
      PutCredential, PutToken, Forget, CredentialsTypeOK, Passed, Over, Answers
<1>3. CASE Proxy(h)
  BY <1>1, <1>3
  DEF Proxy, LookupAccessToken, UserCredential, SessionToken, Refreshed, Send, Goes, Forget,
      CredentialsTypeOK, Passed, Over, Answers
<1> QED BY <1>1, <1>2, <1>3, Bystander DEF Over

\* A sign-in keeps the session id it drew when the provider answered.
LEMMA SignInMoves ==
    ASSUME FenceInv, CNext, NEW h \in SigningIn, Creating(h)'
    PROVE  \/ Creating(h) /\ sid'[h] = sid[h]
           \/ \E s \in Sid : Exchange(h, s) /\ sid' = [sid EXCEPT ![h] = s]
<1>1. CredentialsTypeOK /\ h \in Handler /\ h \notin Proxying /\ h \notin Saving
  BY HandlersAssumption DEF FenceInv, Handler
<1>2. stage'[h] \in {"write", "fenced"}
  BY DEF Creating
<1>3. CASE Stays(h)
  BY <1>2, <1>3 DEF Stays, Creating
<1>4. CASE Writes(h) \/ Done(h)
  BY <1>1, <1>2, <1>4
  DEF Writes, Fence, FencedWrite, DirectWrite, Fails, Done, Write, PutSession,
      PutCredential, PutToken, Forget, CredentialsTypeOK, Creating
<1>5. CASE SignIn(h)
  BY <1>1, <1>2, <1>5
  DEF SignIn, Authorize, Callback, Exchange, Forget, CredentialsTypeOK, Creating, handlerVars
<1> QED BY <1>1, <1>2, <1>3, <1>4, <1>5, Bystander

-----------------------------------------------------------------------------
(* Refusals: the order of the lookup's two questions is all they need *)

\* In no state does a replica that is behind end a session of the target's
\* current definition (LookupAccessToken, refuseBehind).
THEOREM RefusalsAreHonest == CSpec => NeverFalselyInvalid
<1> DEFINE Step ==
      \A h \in Proxying : stage[h] = "lookup" /\ stage'[h] = "invalid" =>
          ~ /\ sessions[sid[h]] # NoSession
            /\ NameOf(sessions[sid[h]].stamp) = TargetOf(h)
            /\ Current(sessions[sid[h]].stamp)
<1>1. FenceInv /\ [CNext]_vars => [Step]_vars
  <2> SUFFICES ASSUME FenceInv, CNext, NEW h \in Proxying, stage[h] = "lookup", stage'[h] = "invalid"
               PROVE  ~ /\ sessions[sid[h]] # NoSession
                        /\ NameOf(sessions[sid[h]].stamp) = TargetOf(h)
                        /\ Current(sessions[sid[h]].stamp)
    OBVIOUS
  <2>1. CredentialsTypeOK /\ h \in Handler /\ h \notin SigningIn /\ h \notin Saving
    BY HandlersAssumption DEF FenceInv, Handler
  <2>2. ~Writes(h) /\ ~Done(h) /\ ~Stays(h)
    BY DEF Writes, Fence, FencedWrite, DirectWrite, Fails, Done, Stays, Answers
  <2>3. LookupAccessToken(h)
    BY <2>1, <2>2, Bystander
    DEF Proxy, Arrive, UserCredential, SessionToken, Refreshed, Send, Goes
  <2>4. ~Forget(h, "behind")
    BY <2>1 DEF Forget, CredentialsTypeOK
  <2>5. ~Proceeds(h)
    <3>1. ModeOf[DefOf(StampOf(h))] \in Mode
      BY <2>1, EntryType, StampType, ConstantsAssumption DEF Over, Answers
    <3> QED BY <2>1, <3>1 DEF Proceeds, Mode, CredentialsTypeOK
  <2>6. \/ sessions[sid[h]] = NoSession
        \/ /\ sessions[sid[h]].stamp # StampOf(h)
           /\ ~(NameOf(sessions[sid[h]].stamp) = TargetOf(h) /\ Behind(TargetOf(h), entry[h], rows[TargetOf(h)]))
    BY <2>3, <2>4, <2>5 DEF LookupAccessToken
  <2> QED BY <2>6 DEF Behind, Current, StampOf, TargetOf
<1> QED BY <1>1, FenceInvariant, PTL DEF CSpec, NeverFalselyInvalid

-----------------------------------------------------------------------------
(* The definition a request forwards to *)

\* The table had what the entry of h says at some version since h began.
LivedSince(h) ==
    \E v \in since[h]..version : ~Behind(TargetOf(h), entry[h], history[v][TargetOf(h)])

LiveInv ==
    \A h \in Proxying :
        /\ stage[h] \notin Over => since[h] <= version
        /\ Passed(h) => LivedSince(h)

\* The registry adds versions and changes none it had.
LEMMA HistoryGrows ==
    ASSUME IInv, [Next]_targetVars
    PROVE  /\ version \in Nat /\ version' \in Nat /\ version <= version'
           /\ \A v \in 0..version : history'[v] = history[v]
<1>1. version \in Nat /\ history \in [0..version -> Rows]
  BY DEF IInv, TypeOK
<1>2. ASSUME NEW n, NEW row, Install(n, row)
      PROVE  version' = version + 1 /\ \A v \in 0..version : history'[v] = history[v]
  BY <1>1, <1>2 DEF Install
<1>3. UNCHANGED <<version, history>> \/ \E n, row : Install(n, row)
  BY DEF Next, Put, Remove, Serve, Restart, targetVars
<1> QED BY <1>1, <1>2, <1>3

\* The lookup compares the entry with the row it reads, so the version at
\* that step is the witness from then on.
LEMMA LiveStep == FenceInv /\ LiveInv /\ [CNext]_vars => LiveInv'
<1> SUFFICES ASSUME FenceInv, LiveInv, [CNext]_vars, NEW h \in Proxying
             PROVE  /\ stage'[h] \notin Over => since'[h] <= version'
                    /\ Passed(h)' => LivedSince(h)'
  BY DEF LiveInv
<1>1. /\ version \in Nat /\ version' \in Nat /\ version <= version'
      /\ \A v \in 0..version : history'[v] = history[v]
  BY StepIsRegistryStep, HistoryGrows DEF FenceInv
<1>2. since \in [Handler -> Nat] /\ h \in Handler
  BY DEF FenceInv, CredentialsTypeOK, Handler
<1>3. ASSUME entry'[h] = entry[h], since'[h] = since[h], LivedSince(h) PROVE LivedSince(h)'
  <2>1. PICK v \in since[h]..version : ~Behind(TargetOf(h), entry[h], history[v][TargetOf(h)])
    BY <1>3 DEF LivedSince
  <2>2. v \in since[h]..version' /\ history'[v] = history[v]
    BY <1>1, <1>2, <2>1
  <2> QED BY <1>3, <2>1, <2>2 DEF LivedSince, TargetOf, Behind
<1>4. CASE Stays(h) \/ UNCHANGED vars
  <2>1. stage'[h] = stage[h] /\ entry'[h] = entry[h] /\ since'[h] = since[h]
    BY <1>4 DEF Stays, vars, handlerVars
  <2> QED BY <1>1, <1>2, <1>3, <2>1 DEF LiveInv, Passed
<1>5. CASE stage'[h] \in Over
  BY <1>5 DEF Passed, Over, Answers
<1>6. ASSUME NEW n \in Name, NEW s \in Sid, Arrive(h, n, s)
      PROVE  since'[h] <= version' /\ stage'[h] = "lookup"
  BY <1>1, <1>2, <1>6 DEF Arrive, Goes, FenceInv, CredentialsTypeOK
<1>7. CASE LookupAccessToken(h) /\ Proceeds(h)
  <2>1. since'[h] = since[h] /\ entry'[h] = entry[h] /\ since[h] <= version
    BY <1>7 DEF Proceeds, LookupAccessToken, LiveInv, Over, Answers
  <2>2. \/ ~Behind(TargetOf(h), entry[h], rows[TargetOf(h)])
        \/ Forget(h, "behind") \/ Forget(h, "invalid")
    BY <1>7 DEF LookupAccessToken, StampOf, TargetOf
  <2>3. ~Forget(h, "behind") /\ ~Forget(h, "invalid")
    <3>1. ModeOf[DefOf(StampOf(h))] \in Mode
      BY <1>2, <1>7, EntryType, StampType, ConstantsAssumption DEF LookupAccessToken, Over, Answers
    <3> QED BY <1>2, <1>7, <3>1 DEF Proceeds, Mode, Forget, FenceInv, CredentialsTypeOK
  <2>4. version \in since[h]..version /\ history[version] = rows
    BY <1>1, <1>2, <2>1 DEF FenceInv, IInv, LastVersionIsRows
  <2>5. LivedSince(h)
    BY <2>2, <2>3, <2>4 DEF LivedSince
  <2> QED BY <1>1, <1>2, <1>3, <2>1, <2>5
<1>8. CASE /\ Passed(h) /\ entry'[h] = entry[h] /\ since'[h] = since[h]
  BY <1>1, <1>2, <1>3, <1>8 DEF LiveInv, Passed, Over, Answers
<1> QED BY <1>4, <1>5, <1>6, <1>7, <1>8, RequestMoves DEF Passed

\* No request is forwarded to a definition that had been replaced or removed
\* before it arrived, however far its replica is behind (LookupAccessToken).
THEOREM ForwardsToLiveDefinitions == CSpec => []ForwardedToLiveDefinition
<1>1. CInit => LiveInv
  BY DEF CInit, LiveInv, Passed, Over, Handler
<1>2. LiveInv => ForwardedToLiveDefinition
  BY DEF LiveInv, ForwardedToLiveDefinition, Passed, LivedSince
<1> QED BY <1>1, <1>2, LiveStep, FenceInvariant, PTL DEF CSpec

-----------------------------------------------------------------------------
(* The credential a request sends *)

\* The session of a request that has passed the lookup.
SessionFits(h) ==
    Passed(h) => \/ sessions[sid[h]] = NoSession
                 \/ sessions[sid[h]].stamp = StampOf(h)

MeantInv ==
    /\ \A c \in creds : c.meantFor = c.stamp
    /\ \A h \in Handler :
        /\ SessionFits(h)
        /\ Passed(h) /\ stage[h] = "send" => held[h] = StampOf(h)
        /\ Creating(h) => sessions[sid[h]] = NoSession
    \* nobody else uses the id of a session that is being created
    /\ \A g, h \in Handler :
        g # h /\ Creating(g) /\ (Creating(h) \/ Passed(h)) => sid[g] # sid[h]

\* What each kind of handler does to the sessions.
LEMMA SessionWrites ==
    ASSUME FenceInv, NEW g \in Handler, stage[g] \in {"write", "fenced"}, Write(g)
    PROVE  /\ g \in Saving => sessions' = sessions
           /\ g \in Proxying => \A s \in Sid : \/ sessions'[s] = sessions[s]
                                               \/ /\ sessions[s] # NoSession
                                                  /\ sessions'[s].stamp = sessions[s].stamp
           /\ g \in SigningIn => \A s \in Sid : s # sid[g] => sessions'[s] = sessions[s]
<1>1. CredentialsTypeOK
  BY DEF FenceInv
<1>2. CASE g \in SigningIn /\ PutSession(g)
  BY <1>1, <1>2, HandlersAssumption DEF PutSession, CredentialsTypeOK
<1>3. CASE g \in Saving /\ PutCredential(g)
  BY <1>3, HandlersAssumption DEF PutCredential
<1>4. CASE g \in Proxying /\ PutToken(g)
  <2>1. sid[g] \in Sid
    BY <1>4 DEF FenceInv, Equipped, NeedsSession, Over, Answers
  <2>2. \A s \in Sid : sessions[s] # NoSession => sessions[s] \in Session
    BY <1>1 DEF CredentialsTypeOK
  <2>3. \A s \in Sid : \/ sessions'[s] = sessions[s]
                       \/ sessions[s] # NoSession /\ sessions'[s].stamp = sessions[s].stamp
    BY <1>1, <1>4, <2>1, <2>2 DEF PutToken, CredentialsTypeOK, Session
  <2> QED BY <1>4, <2>3, HandlersAssumption
<1> QED BY <1>2, <1>3, <1>4 DEF Write

\* Ids of sessions are not drawn twice, and what is read under a session's
\* stamp was written under it (userHeadersFor, currentUpstreamToken).
LEMMA MeantStep == FenceInv /\ MeantInv /\ [CNext]_vars => MeantInv'
<1> SUFFICES ASSUME FenceInv, MeantInv, CNext PROVE MeantInv'
  BY DEF MeantInv, SessionFits, Passed, Creating, StampOf, vars, tableVars, handlerVars
<1>1. CredentialsTypeOK /\ FenceInv'
  BY NextFenceInv DEF FenceInv
<1>2. /\ SigningIn \subseteq Handler /\ Saving \subseteq Handler /\ Proxying \subseteq Handler
      /\ SigningIn \cap Proxying = {} /\ SigningIn \cap Saving = {} /\ Saving \cap Proxying = {}
  BY HandlersAssumption DEF Handler
<1>3. ASSUME NEW h \in Handler, Passed(h) \/ Creating(h) PROVE sid[h] \in Sid
  BY <1>3 DEF FenceInv, Equipped, NeedsSession, Passed, Creating, Over, Answers
<1>4. \A c \in creds' : c.meantFor = c.stamp
  <2>1. ASSUME NEW h \in Handler, stage[h] \in {"write", "fenced"}, Write(h)
        PROVE  \A c \in creds' : c.meantFor = c.stamp
    BY <2>1 DEF Write, PutSession, PutCredential, PutToken, MeantInv, FenceInv, Equipped
  <2> QED BY <2>1, WritesOrDeletes DEF OnlyDeletes, MeantInv
\* Who passes or creates now did so before, or has just begun to.
<1>5. ASSUME NEW h \in Handler, Passed(h)'
      PROVE  \/ Passed(h) /\ sid'[h] = sid[h] /\ entry'[h] = entry[h]
             \/ LookupAccessToken(h) /\ Proceeds(h)
  BY <1>1, <1>5, RequestMoves DEF Passed, Stays, Arrive, Goes, CredentialsTypeOK, Over, Answers
<1>6. ASSUME NEW h \in Handler, Creating(h)'
      PROVE  \/ Creating(h) /\ sid'[h] = sid[h]
             \/ \E s \in Sid : Exchange(h, s) /\ sid' = [sid EXCEPT ![h] = s]
  BY <1>6, SignInMoves DEF Creating
<1>7. ASSUME NEW h \in Handler, Proceeds(h), LookupAccessToken(h)
      PROVE  /\ sessions[sid[h]] # NoSession /\ sessions[sid[h]].stamp = StampOf(h)
             /\ sid[h] \in Sid /\ UNCHANGED <<sessions, entry, sid>> /\ h \in Proxying
  <2>1. h \in Proxying /\ sid[h] \in Sid
    <3>1. stage[h] = "lookup" /\ stage[h] \in StagesOf(h)
      BY <1>7 DEF LookupAccessToken, FenceInv, Equipped
    <3>2. h \in Proxying
      BY <3>1 DEF StagesOf, Handler
    <3> QED BY <3>1, <3>2 DEF FenceInv, Equipped, NeedsSession, Over, Answers
  <2>2. ModeOf[DefOf(StampOf(h))] \in Mode
    BY <1>7, EntryType, StampType, ConstantsAssumption DEF LookupAccessToken, Over, Answers
  <2>3. ~Forget(h, "behind") /\ ~Forget(h, "invalid")
    BY <1>1, <1>7, <2>2 DEF Proceeds, Mode, Forget, CredentialsTypeOK
  <2> QED BY <1>7, <2>1, <2>3 DEF LookupAccessToken, Proceeds, tableVars
<1>8. ASSUME NEW h \in Handler, Passed(h) PROVE sessions'[sid[h]] = NoSession \/ sessions'[sid[h]].stamp = StampOf(h)
  <2>1. sid[h] \in Sid /\ (sessions[sid[h]] = NoSession \/ sessions[sid[h]].stamp = StampOf(h))
    BY <1>3, <1>8 DEF MeantInv, SessionFits
  <2>2. CASE OnlyDeletes
    BY <2>1, <2>2 DEF OnlyDeletes
  <2>3. ASSUME NEW g \in Handler, stage[g] \in {"write", "fenced"}, Write(g)
        PROVE  sessions'[sid[h]] = NoSession \/ sessions'[sid[h]].stamp = StampOf(h)
    <3>1. CASE g \in SigningIn
      <4>1. Creating(g) /\ g # h
        BY <1>2, <1>8, <2>3, <3>1 DEF Creating, Passed
      <4>2. sid[g] # sid[h]
        BY <1>8, <4>1 DEF MeantInv
      <4> QED BY <2>1, <2>3, <3>1, <4>2, SessionWrites
    <3>2. CASE g \in Saving \/ g \in Proxying
      BY <2>1, <2>3, <3>2, SessionWrites
    <3> QED BY <3>1, <3>2 DEF Handler
  <2> QED BY <2>2, <2>3, WritesOrDeletes
<1>9. ASSUME NEW h \in Handler PROVE SessionFits(h)'
  BY <1>5, <1>7, <1>8 DEF SessionFits, StampOf
<1>10. ASSUME NEW h \in Handler, Passed(h)', stage'[h] = "send" PROVE held'[h] = StampOf(h)'
  <2>1. h \in Proxying
    BY <1>10 DEF Passed
  <2>2. CASE Stays(h)
    BY <1>10, <2>2 DEF Stays, MeantInv, Passed, StampOf
  <2>3. CASE LookupAccessToken(h) /\ Proceeds(h)
    <3>1. ModeOf[DefOf(StampOf(h))] = "static"
      <4>1. ModeOf[DefOf(StampOf(h))] \in Mode
        BY <2>3, EntryType, StampType, ConstantsAssumption DEF LookupAccessToken, Over, Answers
      <4> QED BY <1>1, <1>10, <2>3, <4>1 DEF Proceeds, Mode, CredentialsTypeOK
    <3> QED BY <1>1, <2>3, <3>1 DEF Proceeds, StampOf, CredentialsTypeOK
  <2>4. CASE Passed(h) /\ entry'[h] = entry[h] /\ (UserCredential(h) \/ SessionToken(h) \/ PutToken(h))
    <3>1. sid[h] \in Sid /\ (sessions[sid[h]] = NoSession \/ sessions[sid[h]].stamp = StampOf(h))
      BY <1>3, <2>4 DEF MeantInv, SessionFits
    <3>2. \A to \in Over : ~Forget(h, to)
      BY <1>1, <1>10 DEF Forget, CredentialsTypeOK, Over, Answers
    <3>3. CASE UserCredential(h)
      <4>1. ~Forget(h, "not_enrolled") /\ ~Forget(h, "behind")
        BY <3>2 DEF Over, Answers
      <4>2. PICK c \in creds : /\ sessions[sid[h]] # NoSession /\ c.stamp = sessions[sid[h]].stamp
                               /\ held' = [held EXCEPT ![h] = c.meantFor]
        BY <3>3, <4>1 DEF UserCredential
      <4>3. held'[h] = c.meantFor /\ c.meantFor = c.stamp
        BY <1>1, <4>2 DEF MeantInv, CredentialsTypeOK
      <4> QED BY <2>4, <3>1, <4>2, <4>3 DEF StampOf
    <3>4. CASE SessionToken(h)
      BY <1>1, <1>10, <2>4, <3>2, <3>4 DEF SessionToken, StampOf, CredentialsTypeOK, Over, Answers
    <3>5. CASE PutToken(h)
      BY <1>1, <2>4, <3>2, <3>5 DEF PutToken, StampOf, CredentialsTypeOK, Over, Answers
    <3> QED BY <2>4, <3>3, <3>4, <3>5
  <2>5. ~ \E n \in Name, s \in Sid : Arrive(h, n, s)
    BY <1>1, <1>10 DEF Arrive, Goes, CredentialsTypeOK
  <2>6. stage'[h] \notin Over
    BY <1>10 DEF Over, Answers
  <2> QED BY <1>10, <2>1, <2>2, <2>3, <2>4, <2>5, <2>6, RequestMoves
<1>11. ASSUME NEW g \in Handler, NEW h \in Handler, g # h, Creating(g)', Creating(h)' \/ Passed(h)'
       PROVE  sid'[g] # sid'[h]
  <2>1. ASSUME NEW x \in Handler, NEW y \in Handler, x # y, NEW s \in Sid,
               Exchange(x, s), sid' = [sid EXCEPT ![x] = s]
        PROVE  sid'[x] # sid'[y]
    BY <1>1, <2>1 DEF Exchange, CredentialsTypeOK
  <2>2. CASE Creating(g) /\ sid'[g] = sid[g] /\ (Creating(h) \/ Passed(h)) /\ sid'[h] = sid[h]
    BY <1>11, <2>2 DEF MeantInv
  <2>3. CASE Creating(g) /\ sid'[g] = sid[g] /\ LookupAccessToken(h) /\ Proceeds(h)
    BY <1>3, <1>7, <2>3 DEF MeantInv
  <2>4. CASE \E s \in Sid : Exchange(g, s) /\ sid' = [sid EXCEPT ![g] = s]
    BY <1>11, <2>1, <2>4
  <2>5. CASE \E s \in Sid : Exchange(h, s) /\ sid' = [sid EXCEPT ![h] = s]
    BY <1>11, <2>1, <2>5
  <2> QED BY <1>5, <1>6, <1>11, <2>2, <2>3, <2>4, <2>5
<1>12. ASSUME NEW h \in Handler, Creating(h)' PROVE sessions'[sid'[h]] = NoSession
  <2>1. CASE \E s \in Sid : Exchange(h, s) /\ sid' = [sid EXCEPT ![h] = s]
    BY <1>1, <2>1 DEF Exchange, CredentialsTypeOK, tableVars
  <2>2. CASE Creating(h) /\ sid'[h] = sid[h]
    <3>1. sid[h] \in Sid /\ sessions[sid[h]] = NoSession
      BY <1>3, <2>2 DEF MeantInv
    <3>2. CASE OnlyDeletes
      BY <2>2, <3>1, <3>2 DEF OnlyDeletes
    <3>3. ASSUME NEW g \in Handler, stage[g] \in {"write", "fenced"}, Write(g)
          PROVE  sessions'[sid[h]] = NoSession
      <4>1. CASE g \in SigningIn
        <5>1. g # h
          BY <1>2, <1>12, <3>3, WriteTypes DEF Creating
        <5>2. sid[g] # sid[h]
          BY <2>2, <3>3, <4>1, <5>1 DEF MeantInv, Creating
        <5> QED BY <3>1, <3>3, <4>1, <5>2, SessionWrites
      <4>2. CASE g \in Saving \/ g \in Proxying
        BY <3>1, <3>3, <4>2, SessionWrites
      <4> QED BY <4>1, <4>2 DEF Handler
    <3> QED BY <2>2, <3>2, <3>3, WritesOrDeletes
  <2> QED BY <1>6, <1>12, <2>1, <2>2
<1> QED BY <1>4, <1>9, <1>10, <1>11, <1>12 DEF MeantInv

\* Whatever pages, replicas, sessions and rebuilds lie in between, a credential
\* goes only to the definition it was obtained or typed for (handleMCP).
THEOREM CredentialsGoWhereMeant == CSpec => []SentOnlyWhereMeant
<1>1. CInit => MeantInv
  BY DEF CInit, MeantInv, SessionFits, Passed, Creating
<1>2. MeantInv => SentOnlyWhereMeant
  BY DEF MeantInv, SentOnlyWhereMeant, Passed, Handler
<1> QED BY <1>1, <1>2, MeantStep, FenceInvariant, PTL DEF CSpec
=============================================================================
