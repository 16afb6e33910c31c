-------------------------- MODULE LoginFlowsProofs --------------------------
(***************************************************************************)
(* The sign-ins, for any number of browsers, people, flows and secrets:    *)
(* where a login ends, from whom an admin form is accepted and until when, *)
(* which consent pages stay good; and that the consent screen keeps its    *)
(* promise.                                                                *)
(*                                                                         *)
(* The argument: a browser secret is one browser's for as long as a row, a *)
(* cookie or an answer under way has it (SecretsArePrivate), a row that is *)
(* gone does not come back (RowsStayGone), and a login is dated by the     *)
(* groups it was granted on (LoginsAreDated).                              *)
(***************************************************************************)
EXTENDS LoginFlows, TLAPS

\* The browser has the secret: with a row started there, an answer, or its cookie.
Holds(b, s) ==
    \/ \E f \in Flow : flows[f] # NoFlow /\ origin[f] = b /\ flows[f].secret = s
    \/ \E a \in underWay : a.browser = b /\ a.secret = s
    \/ cookie[b] # NoCookie /\ cookie[b].secret = s

SecretsArePrivate ==
    \A b, c \in Browser, s \in Secret : Holds(b, s) /\ Holds(c, s) => b = c

\* A row was started somewhere and is of a flow that is not over.
RowsAreOpen ==
    \A f \in Flow :
        /\ flows[f] # NoFlow => origin[f] # NoBrowser /\ f \notin ended /\ flows[f].at <= now
        /\ f \in ended => origin[f] # NoBrowser

\* An answer goes where its row was started, with the row's secret.
AnswersFit ==
    \A a \in underWay :
        /\ origin[a.flow] = a.browser
        /\ flows[a.flow] # NoFlow => flows[a.flow].secret = a.secret

\* A page is shown where its flow was started, and is a client's.
PagesFit ==
    \A b \in Browser, f \in Flow : <<b, f>> \in pages =>
        origin[f] = b /\ (flows[f] # NoFlow => flows[f].kind = "client")

\* A browser that was not given two secrets at once has one under way at most:
\* its own, if it has one.
OneSecretUnderWay ==
    \A a, c \in underWay : a.browser \notin crossed =>
        /\ c.browser = a.browser => c.secret = a.secret
        /\ SecretOf(a.browser) # NoCookie => a.secret = SecretOf(a.browser)

\* The cookie that came with a page, or another with its secret, outlives the row.
PagesHaveCookies ==
    \A b \in Browser, f \in Flow : <<b, f>> \in pages /\ Alive(f) /\ b \notin crossed =>
        /\ cookie[b] # NoCookie /\ cookie[b].secret = flows[f].secret
        /\ flows[f].at + FlowTTL <= cookie[b].until

FlowInv ==
    /\ SecretsArePrivate /\ RowsAreOpen /\ AnswersFit /\ PagesFit
    /\ OneSecretUnderWay /\ PagesHaveCookies

\* The row a login or a form's token is named by is spent, and was the browser's.
Spends(b, f) == origin[f] = b /\ flows[f] = NoFlow

LoginsAreSpent ==
    \A b \in Browser, page \in Pages :
        logins[<<b, page>>] # NoSession => Spends(b, logins[<<b, page>>].csrf)

\* A form with the live session's token was shown to the session's person.
FormsFit ==
    \A form \in forms :
        /\ Spends(form.browser, form.csrf)
        /\ LET login == logins[<<form.browser, "admin">>] IN
           login # NoSession /\ login.csrf = form.csrf => login.person = form.person

\* An admin login lasts no longer than AdminTTL from when its person was an
\* administrator.
LoginsAreDated ==
    /\ \A p \in Person : demoted[p] <= now /\ (p \in admins => demoted[p] = now)
    /\ \A b \in Browser :
          LET login == logins[<<b, "admin">>] IN
          login # NoSession => login.until <= demoted[login.person] + AdminTTL

LoginInv ==
    /\ LoginsAreSpent /\ FormsFit /\ LoginsAreDated
    /\ AcceptedFromWhoSawIt /\ RemovalTakesEffect

IInv == TypeOK /\ FlowInv /\ LoginInv

-----------------------------------------------------------------------------
(* Types *)

LEMMA InitType == Init => TypeOK
BY LoginAssumption DEF Init, TypeOK, Time

\* The bounds of the clock leave room for every lifetime.
LEMMA Times ==
    ASSUME TypeOK
    PROVE  /\ now \in Time /\ now \in Nat /\ MaxTime \in Nat /\ Time \subseteq Nat
           /\ now < MaxTime => now + 1 \in Time /\ now + 1 \in 0..MaxTime
           /\ now + FlowTTL \in Time /\ now + AdminTTL \in Time /\ now + SettingsTTL \in Time
           /\ 0 \in Time /\ \A d \in Time : d <= now => now - d \in Time
BY LoginAssumption DEF TypeOK, Time

LEMMA TypeStays == ASSUME IInv, [Next]_vars PROVE TypeOK'
<1> USE DEF IInv
<1>1. CASE UNCHANGED vars
    BY <1>1 DEF TypeOK, vars, browserVars, ghosts
<1>2. CASE Tick
    BY <1>2, Times DEF Tick, TypeOK, browserVars, ghosts
<1>3. ASSUME NEW p \in Person, Demote(p) PROVE TypeOK'
    BY <1>3 DEF Demote, TypeOK, browserVars, ghosts
<1>4. ASSUME NEW b \in Browser, NEW f \in Flow, NEW kind \in Kinds, NEW secret \in SecretFor(b),
             Start(b, f, kind, secret)
      PROVE  TypeOK'
  <2>1. secret \in Secret
      BY NothingAssumption DEF SecretFor, SecretOf, TypeOK, Cookie
  <2>2. flows' \in [Flow -> Row \cup {NoFlow}]
    <3>1. [kind |-> kind, secret |-> secret, at |-> now, approved |-> FALSE] \in Row
        BY <2>1, Times DEF Row
    <3> QED BY <1>4, <3>1 DEF Start, TypeOK
  <2>3. underWay' \subseteq Answer
      BY <1>4, <2>1 DEF Start, TypeOK, Answer
  <2>4. origin' \in [Flow -> Browser \cup {NoBrowser}] /\ crossed' \subseteq Browser
      BY <1>4 DEF Start, TypeOK
  <2> QED BY <1>4, <2>2, <2>3, <2>4 DEF Start, TypeOK
<1>5. ASSUME NEW a \in underWay, Arrives(a) PROVE TypeOK'
  <2>1. a \in Answer
      BY DEF TypeOK
  <2>2. [secret |-> a.secret, until |-> now + FlowTTL] \in Cookie
      BY <2>1, Times DEF Cookie, Answer
  <2>3. cookie' \in [Browser -> Cookie \cup {NoCookie}]
      BY <1>5, <2>1, <2>2 DEF Arrives, TypeOK, Answer
  <2>4. pages' \subseteq Browser \X Flow /\ atProvider' \subseteq Flow
      BY <1>5, <2>1 DEF Arrives, TypeOK, Answer
  <2> QED BY <1>5, <2>3, <2>4 DEF Arrives, TypeOK, ghosts
<1>6. ASSUME NEW a \in underWay, GetsLost(a) PROVE TypeOK'
    BY <1>6 DEF GetsLost, TypeOK, ghosts
<1>7. ASSUME NEW b \in Browser, NEW f \in Flow, Consent(b, f) PROVE TypeOK'
  <2>1. CASE Approve(b, f)
    <3>1. [flows[f] EXCEPT !.approved = TRUE] \in Row
        BY <2>1 DEF Approve, ApproveFlow, Bound, Alive, TypeOK, Row
    <3> QED BY <2>1, <3>1 DEF Approve, TypeOK
  <2>2. CASE Decline(b, f)
      BY <2>2 DEF Decline, TypeOK, browserVars
  <2> QED BY <1>7, <2>1, <2>2 DEF Consent
<1>8. ASSUME NEW f \in Flow, Callback(f) PROVE TypeOK'
    BY <1>8 DEF Callback, TakeApprovedFlow, TypeOK, browserVars
<1>9. ASSUME NEW b \in Browser, NEW f \in Flow, NEW p \in Person, FinishLogin(b, f, p) PROVE TypeOK'
  <2>1. logins' \in [Browser \X Pages -> Login \cup {NoSession}]
    <3>1. flows[f].kind \in Pages /\ [person |-> p, until |-> now + TTLOf(flows[f].kind), csrf |-> f] \in Login
        BY <1>9, Times DEF FinishLogin, Login, TTLOf
    <3> QED BY <1>9, <3>1 DEF FinishLogin, TypeOK
  <2> QED BY <1>9, <2>1 DEF FinishLogin, TypeOK, ghosts
<1>10. ASSUME NEW b \in Browser, ShowAdmin(b) PROVE TypeOK'
  <2>1. logins[<<b, "admin">>] \in Login
      BY <1>10 DEF ShowAdmin, SignedIn, TypeOK, Pages
  <2> QED BY <1>10, <2>1 DEF ShowAdmin, TypeOK, Form, Login, ghosts
<1>11. ASSUME NEW b \in Browser, NEW page \in Pages, Logout(b, page) PROVE TypeOK'
    BY <1>11 DEF Logout, TypeOK, ghosts
<1>12. ASSUME NEW form \in forms, AdminPost(form) PROVE TypeOK'
  <2>1. form \in Form /\ logins[<<form.browser, "admin">>] \in Login
      BY <1>12 DEF AdminPost, Accepts, SignedIn, TypeOK, Pages, Form
  <2>2. ASSUME NEW p \in Person PROVE (IF p \in admins THEN 0 ELSE now - demoted[p]) \in Time
      BY Times DEF LoginInv, LoginsAreDated, TypeOK
  <2>3. posted' \in Post
      BY <1>12, <2>1, <2>2 DEF AdminPost, Post, Form, Login
  <2> QED BY <1>12, <2>3 DEF AdminPost, TypeOK, browserVars
<1> QED BY <1>1, <1>2, <1>3, <1>4, <1>5, <1>6, <1>7, <1>8, <1>9, <1>10, <1>11, <1>12 DEF Next

-----------------------------------------------------------------------------
(* Rows, pages and cookies *)

LEMMA InitInv == Init => FlowInv /\ LoginInv
<1> SUFFICES ASSUME Init PROVE FlowInv /\ LoginInv
    OBVIOUS
<1>1. SecretsArePrivate /\ RowsAreOpen /\ AnswersFit /\ PagesFit /\ OneSecretUnderWay /\ PagesHaveCookies
    BY DEF Init, SecretsArePrivate, Holds, RowsAreOpen, AnswersFit, PagesFit, OneSecretUnderWay, PagesHaveCookies
<1>2. LoginsAreSpent /\ FormsFit /\ LoginsAreDated /\ AcceptedFromWhoSawIt /\ RemovalTakesEffect
    BY DEF Init, LoginsAreSpent, FormsFit, LoginsAreDated, AcceptedFromWhoSawIt, RemovalTakesEffect, Pages
<1> QED BY <1>1, <1>2 DEF FlowInv, LoginInv

\* No step brings a row back, or starts a flow twice.
LEMMA RowsStayGone ==
    ASSUME IInv, [Next]_vars, NEW f \in Flow, origin[f] # NoBrowser
    PROVE  origin'[f] = origin[f] /\ (flows[f] = NoFlow => flows'[f] = NoFlow)
<1> USE DEF IInv, TypeOK
<1>1. ASSUME NEW b \in Browser, NEW g \in Flow, NEW kind \in Kinds, NEW secret \in SecretFor(b),
             Start(b, g, kind, secret)
      PROVE  origin'[f] = origin[f] /\ flows'[f] = flows[f]
    BY <1>1 DEF Start
<1>2. ASSUME NEW b \in Browser, NEW g \in Flow, Consent(b, g)
      PROVE  origin' = origin /\ (flows[f] = NoFlow => flows'[f] = NoFlow)
    BY <1>2 DEF Consent, Approve, Decline, ApproveFlow, Bound, Alive
<1>3. ASSUME NEW g \in Flow, Callback(g) PROVE origin' = origin /\ (flows[f] = NoFlow => flows'[f] = NoFlow)
    BY <1>3 DEF Callback, TakeApprovedFlow
<1>4. ASSUME NEW b \in Browser, NEW g \in Flow, NEW p \in Person, FinishLogin(b, g, p)
      PROVE  origin' = origin /\ (flows[f] = NoFlow => flows'[f] = NoFlow)
    BY <1>4 DEF FinishLogin, ghosts
<1>5. ASSUME UNCHANGED <<flows, origin>> PROVE origin'[f] = origin[f] /\ flows'[f] = flows[f]
    BY <1>5
<1> QED BY <1>1, <1>2, <1>3, <1>4, <1>5 DEF Next, vars, ghosts, browserVars, Tick, Demote, Arrives, GetsLost,
           ShowAdmin, Logout, AdminPost

\* Flows that are approved, decided, finished or lapse take nothing from others.
LEMMA RowsGo ==
    ASSUME IInv, TypeOK', UNCHANGED <<now, origin, cookie, underWay, pages, crossed>>,
           \A f \in Flow : flows'[f] # NoFlow =>
               /\ flows[f] # NoFlow /\ flows'[f].kind = flows[f].kind
               /\ flows'[f].secret = flows[f].secret /\ flows'[f].at = flows[f].at,
           \A f \in Flow : f \in ended' => f \in ended \/ (flows'[f] = NoFlow /\ origin[f] # NoBrowser)
    PROVE  FlowInv'
<1> USE DEF IInv, FlowInv
<1>1. SecretsArePrivate'
    BY DEF SecretsArePrivate, Holds
<1>2. RowsAreOpen' /\ AnswersFit' /\ PagesFit'
    BY DEF RowsAreOpen, AnswersFit, PagesFit, TypeOK, Answer
<1>3. OneSecretUnderWay'
    BY DEF OneSecretUnderWay, SecretOf
<1>4. PagesHaveCookies'
    BY DEF PagesHaveCookies, Alive
<1> QED BY <1>1, <1>2, <1>3, <1>4

LEMMA TickFlows == ASSUME IInv, TypeOK', Tick PROVE FlowInv'
<1> USE Times DEF IInv, FlowInv, Tick, browserVars, ghosts
<1>1. SecretsArePrivate' /\ AnswersFit' /\ PagesFit'
    BY DEF SecretsArePrivate, Holds, AnswersFit, PagesFit
<1>2. RowsAreOpen'
  <2>1. ASSUME NEW f \in Flow, flows[f] # NoFlow PROVE flows[f].at \in Nat
      BY <2>1 DEF TypeOK, Row
  <2> QED BY <2>1 DEF RowsAreOpen
<1>3. ASSUME NEW b \in Browser, SecretOf(b)' # NoCookie PROVE SecretOf(b)' = SecretOf(b)
    BY <1>3 DEF SecretOf, TypeOK, Cookie
<1>4. OneSecretUnderWay'
    BY <1>3 DEF OneSecretUnderWay, TypeOK, Answer
<1>5. PagesHaveCookies'
    BY LoginAssumption DEF PagesHaveCookies, Alive, TypeOK, Row
<1> QED BY <1>1, <1>2, <1>4, <1>5

\* A sign-in takes over the browser's secret or draws one that nobody holds.
LEMMA SecretIsOwn ==
    ASSUME IInv, NEW b \in Browser, NEW secret \in SecretFor(b)
    PROVE  /\ secret \in Secret /\ (SecretOf(b) # NoCookie => secret = SecretOf(b))
           /\ \A c \in Browser : Holds(c, secret) => c = b
<1> USE DEF IInv
<1>1. CASE SecretOf(b) # NoCookie
  <2>1. secret = SecretOf(b) /\ Holds(b, secret)
      BY <1>1 DEF SecretFor, SecretOf, Holds
  <2>2. secret \in Secret
      BY <1>1, <2>1 DEF SecretOf, TypeOK, Cookie
  <2> QED BY <2>1, <2>2 DEF FlowInv, SecretsArePrivate
<1>2. CASE SecretOf(b) = NoCookie
    BY <1>2 DEF SecretFor, Spent, Holds
<1> QED BY <1>1, <1>2

LEMMA StartFlows ==
    ASSUME IInv, TypeOK', NEW b \in Browser, NEW f \in Flow, NEW kind \in Kinds,
           NEW secret \in SecretFor(b), Start(b, f, kind, secret)
    PROVE  FlowInv'
<1> DEFINE new == [browser |-> b, flow |-> f, secret |-> secret]
<1> USE DEF IInv, FlowInv
<1>0. /\ origin[f] = NoBrowser /\ origin' = [origin EXCEPT ![f] = b]
      /\ flows[f] = NoFlow
      /\ flows'[f] \in {NoFlow, [kind |-> kind, secret |-> secret, at |-> now, approved |-> FALSE]}
      /\ \A g \in Flow : g # f => flows'[g] = flows[g] /\ origin'[g] = origin[g]
      /\ origin'[f] = b /\ underWay' = underWay \cup {new}
      /\ UNCHANGED <<now, cookie, pages, ended>>
      /\ secret \in Secret /\ (SecretOf(b) # NoCookie => secret = SecretOf(b))
      /\ \A c \in Browser : Holds(c, secret) => c = b
    BY SecretIsOwn DEF Start, RowsAreOpen, TypeOK
<1>1. SecretsArePrivate'
  <2>1. ASSUME NEW c \in Browser, NEW s \in Secret, Holds(c, s)'
        PROVE  Holds(c, s) \/ (c = b /\ s = secret)
      BY <1>0, <2>1 DEF Holds
  <2> QED BY <1>0, <2>1 DEF SecretsArePrivate
<1>2. RowsAreOpen'
    BY <1>0, NothingAssumption, Times DEF RowsAreOpen
<1>3. AnswersFit'
  <2>1. ASSUME NEW a \in underWay PROVE a.flow # f /\ a.flow \in Flow
      BY <1>0, NothingAssumption DEF AnswersFit, TypeOK, Answer
  <2> QED BY <1>0, <2>1 DEF AnswersFit
<1>4. ASSUME NEW c \in Browser, NEW g \in Flow, <<c, g>> \in pages PROVE g # f
    BY <1>0, <1>4, NothingAssumption DEF PagesFit
<1>5. PagesFit'
    BY <1>0, <1>4 DEF PagesFit
<1>6. OneSecretUnderWay'
  <2> SUFFICES ASSUME NEW a \in underWay', NEW c \in underWay', a.browser \notin crossed'
               PROVE  /\ c.browser = a.browser => c.secret = a.secret
                      /\ SecretOf(a.browser) # NoCookie => a.secret = SecretOf(a.browser)
      BY <1>0 DEF OneSecretUnderWay, SecretOf
  <2>1. a.browser \notin crossed
      BY DEF Start
  <2>2. ASSUME NEW e \in underWay, e.browser = b, b \notin crossed' PROVE e.secret = secret
    <3>1. SecretOf(b) # NoCookie
        BY <2>2 DEF Start
    <3>2. b \notin crossed
        BY <2>2 DEF Start
    <3> QED BY <1>0, <2>2, <3>1, <3>2 DEF OneSecretUnderWay
  <2> QED BY <1>0, <2>1, <2>2 DEF OneSecretUnderWay
<1>7. PagesHaveCookies'
  <2>1. crossed \subseteq crossed'
      BY DEF Start
  <2> QED BY <1>0, <1>4, <2>1 DEF PagesHaveCookies, Alive
<1> QED BY <1>1, <1>2, <1>3, <1>5, <1>6, <1>7

LEMMA ArrivesFlows == ASSUME IInv, TypeOK', NEW a \in underWay, Arrives(a) PROVE FlowInv'
<1> DEFINE b == a.browser
           f == a.flow
<1> USE DEF IInv, FlowInv
<1>0. /\ a \in Answer /\ b \in Browser /\ f \in Flow /\ underWay' \subseteq underWay
      /\ cookie'[b] = [secret |-> a.secret, until |-> now + FlowTTL]
      /\ \A c \in Browser : c # b => cookie'[c] = cookie[c]
      /\ UNCHANGED <<now, flows, origin, ended, crossed>>
      /\ origin[f] = b /\ (flows[f] # NoFlow => flows[f].secret = a.secret)
    BY DEF Arrives, TypeOK, Answer, ghosts, AnswersFit
<1>1. SecretsArePrivate'
  <2>1. ASSUME NEW c \in Browser, NEW s \in Secret, Holds(c, s)' PROVE Holds(c, s)
      BY <1>0, <2>1 DEF Holds
  <2> QED BY <2>1 DEF SecretsArePrivate
<1>2. RowsAreOpen' /\ AnswersFit'
    BY <1>0 DEF RowsAreOpen, AnswersFit
<1>3. ASSUME NEW c \in Browser, NEW g \in Flow, <<c, g>> \in pages'
      PROVE  <<c, g>> \in pages \/ (c = b /\ g = f /\ (flows[f] # NoFlow => flows[f].kind = "client"))
    BY <1>3 DEF Arrives
<1>4. PagesFit'
    BY <1>0, <1>3 DEF PagesFit
<1>5. ASSUME NEW c \in Browser
      PROVE  SecretOf(c)' = IF c = b THEN a.secret ELSE SecretOf(c)
  <2>1. cookie'[b] # NoCookie
      BY <1>0, Times, NothingAssumption DEF Cookie, Answer
  <2>2. now < now + FlowTTL
      BY Times, LoginAssumption
  <2>3. cookie'[b].secret = a.secret /\ cookie'[b].until = now + FlowTTL /\ now' = now
      BY <1>0
  <2>4. CASE c = b
      BY <2>1, <2>2, <2>3, <2>4 DEF SecretOf
  <2>5. CASE c # b
      BY <1>0, <2>5 DEF SecretOf
  <2> QED BY <2>4, <2>5
<1>6. OneSecretUnderWay'
  <2>1. ASSUME NEW e \in underWay PROVE e.browser \in Browser
      BY DEF TypeOK, Answer
  <2> QED BY <1>0, <1>5, <2>1 DEF OneSecretUnderWay
<1>7. PagesHaveCookies'
  <2> SUFFICES ASSUME NEW c \in Browser, NEW g \in Flow, <<c, g>> \in pages', Alive(g), c \notin crossed
               PROVE  /\ cookie'[c] # NoCookie /\ cookie'[c].secret = flows[g].secret
                      /\ flows[g].at + FlowTTL <= cookie'[c].until
      BY <1>0 DEF PagesHaveCookies, Alive
  <2>1. flows[g].at \in Nat /\ flows[g].at <= now /\ now < flows[g].at + FlowTTL /\ flows[g] # NoFlow
      BY DEF Alive, TypeOK, Row, RowsAreOpen, Time
  <2>2. flows[g].at + FlowTTL <= now + FlowTTL
      BY <2>1, Times, LoginAssumption
  <2>3. cookie'[b] # NoCookie
      BY <1>0, Times, NothingAssumption DEF Cookie, Answer
  <2>4. CASE c = b /\ g = f
      BY <1>0, <2>1, <2>2, <2>3, <2>4
  <2>5. CASE <<c, g>> \in pages /\ c # b
      BY <1>0, <2>5 DEF PagesHaveCookies
  <2>6. CASE <<c, g>> \in pages /\ c = b
    <3>1. cookie[b] # NoCookie /\ cookie[b].secret = flows[g].secret /\ flows[g].at + FlowTTL <= cookie[b].until
        BY <2>6 DEF PagesHaveCookies
    <3>2. now < cookie[b].until
      <4>1. cookie[b].until \in Nat
          BY <1>0, <3>1, Times DEF TypeOK, Cookie
      <4> QED BY <2>1, <3>1, <4>1, Times, LoginAssumption
    <3>3. SecretOf(b) = cookie[b].secret /\ SecretOf(b) # NoCookie
        BY <3>1, <3>2, LoginAssumption, <1>0 DEF SecretOf, TypeOK, Cookie
    <3>4. a.secret = flows[g].secret
        BY <2>6, <3>1, <3>3 DEF OneSecretUnderWay
    <3> QED BY <1>0, <2>2, <2>3, <2>6, <3>4
  <2> QED BY <1>3, <2>4, <2>5, <2>6
<1> QED BY <1>1, <1>2, <1>4, <1>6, <1>7

LEMMA GetsLostFlows == ASSUME IInv, TypeOK', NEW a \in underWay, GetsLost(a) PROVE FlowInv'
<1> USE DEF IInv, FlowInv, GetsLost, ghosts
<1>1. SecretsArePrivate'
    BY DEF SecretsArePrivate, Holds
<1>2. RowsAreOpen' /\ AnswersFit' /\ PagesFit' /\ PagesHaveCookies'
    BY DEF RowsAreOpen, AnswersFit, PagesFit, PagesHaveCookies, Alive
<1>3. OneSecretUnderWay'
    BY DEF OneSecretUnderWay, SecretOf
<1> QED BY <1>1, <1>2, <1>3

LEMMA FlowsStay == ASSUME IInv, [Next]_vars PROVE FlowInv'
<1>0. TypeOK' /\ TypeOK /\ RowsAreOpen
    BY TypeStays DEF IInv, FlowInv
<1>1. ASSUME UNCHANGED <<now, flows, origin, ended, cookie, underWay, pages, crossed>> PROVE FlowInv'
    BY <1>0, <1>1, RowsGo
<1>2. ASSUME NEW b \in Browser, NEW f \in Flow, Consent(b, f) PROVE FlowInv'
  <2>1. flows[f] # NoFlow /\ flows[f] \in Row /\ origin[f] # NoBrowser
      BY <1>0, <1>2 DEF Consent, Approve, Decline, ApproveFlow, TakeFlow, Bound, Alive, TypeOK, RowsAreOpen
  <2>2. CASE Approve(b, f)
      BY <1>0, <2>1, <2>2, RowsGo DEF Approve, TypeOK, Row
  <2>3. CASE Decline(b, f)
      BY <1>0, <2>1, <2>3, RowsGo DEF Decline, browserVars, TypeOK
  <2> QED BY <1>2, <2>2, <2>3 DEF Consent
<1>3. ASSUME NEW f \in Flow, Callback(f) PROVE FlowInv'
  <2>1. origin[f] # NoBrowser
      BY <1>0, <1>3 DEF Callback, Alive, RowsAreOpen
  <2> QED BY <1>0, <1>3, <2>1, RowsGo DEF Callback, TakeApprovedFlow, browserVars, TypeOK
<1>4. ASSUME NEW b \in Browser, NEW f \in Flow, NEW p \in Person, FinishLogin(b, f, p) PROVE FlowInv'
    BY <1>0, <1>4, RowsGo DEF FinishLogin, ghosts, TypeOK
<1>5. ASSUME NEW b \in Browser, ShowAdmin(b) \/ \E page \in Pages : Logout(b, page) PROVE FlowInv'
    BY <1>1, <1>5 DEF ShowAdmin, Logout, ghosts
<1>6. ASSUME NEW form \in forms, AdminPost(form) PROVE FlowInv'
    BY <1>1, <1>6 DEF AdminPost, browserVars
<1>7. ASSUME NEW p \in Person, Demote(p) PROVE FlowInv'
    BY <1>1, <1>7 DEF Demote, browserVars, ghosts
<1>8. CASE UNCHANGED vars
    BY <1>1, <1>8 DEF vars, browserVars, ghosts
<1> QED BY <1>0, <1>2, <1>3, <1>4, <1>5, <1>6, <1>7, <1>8, TickFlows, StartFlows, ArrivesFlows, GetsLostFlows
        DEF Next

-----------------------------------------------------------------------------
(* Logins and forms *)

LEMMA SpendsStays ==
    ASSUME IInv, [Next]_vars, NEW b \in Browser, NEW f \in Flow, Spends(b, f) PROVE Spends(b, f)'
BY RowsStayGone, NothingAssumption DEF Spends

\* What is spent stays spent, so a step that leaves logins, forms and
\* administrators alone keeps what is known of them.
LEMMA LoginsAlone ==
    ASSUME IInv, [Next]_vars, TypeOK', UNCHANGED <<now, admins, demoted, logins, forms, posted>>
    PROVE  LoginInv'
<1> USE DEF IInv, LoginInv
<1>1. ASSUME NEW b \in Browser, NEW page \in Pages, logins[<<b, page>>] # NoSession
      PROVE  logins[<<b, page>>].csrf \in Flow
    BY <1>1 DEF TypeOK, Login
<1>2. LoginsAreSpent'
    BY <1>1, SpendsStays DEF LoginsAreSpent
<1>3. ASSUME NEW form \in forms PROVE form.browser \in Browser /\ form.csrf \in Flow
    BY DEF TypeOK, Form
<1>4. FormsFit'
    BY <1>3, SpendsStays DEF FormsFit
<1>5. LoginsAreDated' /\ AcceptedFromWhoSawIt' /\ RemovalTakesEffect'
    BY DEF LoginsAreDated, AcceptedFromWhoSawIt, RemovalTakesEffect
<1> QED BY <1>2, <1>4, <1>5

LEMMA TickLogins == ASSUME IInv, TypeOK', Tick PROVE LoginInv'
<1> USE Times DEF IInv, LoginInv, Tick, browserVars, ghosts
<1>1. LoginsAreSpent' /\ FormsFit' /\ AcceptedFromWhoSawIt' /\ RemovalTakesEffect'
    BY DEF LoginsAreSpent, FormsFit, Spends, AcceptedFromWhoSawIt, RemovalTakesEffect
<1>2. ASSUME NEW p \in Person
      PROVE  /\ demoted[p] \in Nat /\ demoted'[p] \in Nat /\ demoted[p] <= demoted'[p]
             /\ demoted'[p] <= now' /\ (p \in admins' => demoted'[p] = now')
  <2>1. demoted[p] \in Nat /\ demoted[p] <= now /\ demoted'[p] = IF p \in admins THEN now + 1 ELSE demoted[p]
      BY DEF LoginsAreDated, TypeOK
  <2> QED BY <2>1
<1>3. ASSUME NEW b \in Browser, logins[<<b, "admin">>] # NoSession
      PROVE  logins[<<b, "admin">>].until <= demoted'[logins[<<b, "admin">>].person] + AdminTTL
  <2> DEFINE login == logins[<<b, "admin">>]
  <2>1. login.person \in Person /\ login.until \in Nat
      BY <1>3 DEF TypeOK, Pages, Login
  <2>2. login.until <= demoted[login.person] + AdminTTL
      BY <1>3 DEF LoginsAreDated
  <2> QED BY <1>2, <2>1, <2>2, LoginAssumption
<1>4. LoginsAreDated'
    BY <1>2, <1>3 DEF LoginsAreDated
<1> QED BY <1>1, <1>4

LEMMA DemoteLogins == ASSUME IInv, TypeOK', NEW p \in Person, Demote(p) PROVE LoginInv'
<1> USE DEF IInv, LoginInv, Demote, browserVars, ghosts
<1>1. LoginsAreSpent' /\ FormsFit' /\ AcceptedFromWhoSawIt' /\ RemovalTakesEffect'
    BY DEF LoginsAreSpent, FormsFit, Spends, AcceptedFromWhoSawIt, RemovalTakesEffect
<1>2. LoginsAreDated'
    BY DEF LoginsAreDated
<1> QED BY <1>1, <1>2

\* The browser whose cookie has a row's secret is the one it was started from.
LEMMA BoundIsOrigin ==
    ASSUME IInv, NEW b \in Browser, NEW f \in Flow, Bound(b, f) PROVE origin[f] = b
<1> USE DEF IInv
<1>1. /\ flows[f] # NoFlow /\ flows[f].secret \in Secret /\ origin[f] \in Browser
      /\ SecretOf(b) = flows[f].secret
    BY DEF Bound, Alive, TypeOK, Row, FlowInv, RowsAreOpen
<1>2. Holds(b, flows[f].secret)
    BY <1>1, LoginAssumption DEF SecretOf, Holds
<1>3. Holds(origin[f], flows[f].secret)
    BY <1>1 DEF Holds
<1> QED BY <1>1, <1>2, <1>3 DEF FlowInv, SecretsArePrivate

\* A callback is taken in the browser its row was started from.
LEMMA FinishLogins ==
    ASSUME IInv, TypeOK', NEW b \in Browser, NEW f \in Flow, NEW p \in Person, FinishLogin(b, f, p)
    PROVE  LoginInv'
<1> DEFINE page == flows[f].kind
           new == [person |-> p, until |-> now + TTLOf(page), csrf |-> f]
<1> USE DEF IInv, LoginInv
<1>0. /\ page \in Pages /\ flows[f] # NoFlow /\ flows' = [flows EXCEPT ![f] = NoFlow]
      /\ UNCHANGED <<now, admins, demoted, forms, origin, posted>>
      /\ logins' = logins \/ (MaySignIn(page, p) /\ logins' = [logins EXCEPT ![<<b, page>>] = new])
    BY DEF FinishLogin, ghosts
<1>1. origin[f] = b
    BY BoundIsOrigin DEF FinishLogin, TakeSettingsFlow
<1>2. ASSUME NEW c \in Browser, NEW g \in Flow, Spends(c, g) PROVE g # f /\ Spends(c, g)'
    BY <1>0, <1>2 DEF Spends, TypeOK
<1>3. Spends(b, f)'
    BY <1>0, <1>1 DEF Spends, TypeOK
<1>4. ASSUME NEW c \in Browser, NEW q \in Pages
      PROVE  \/ logins'[<<c, q>>] = logins[<<c, q>>]
             \/ c = b /\ q = page /\ logins'[<<c, q>>] = new /\ MaySignIn(page, p)
    BY <1>0 DEF TypeOK
<1>5. LoginsAreSpent'
  <2>1. ASSUME NEW c \in Browser, NEW q \in Pages, logins[<<c, q>>] # NoSession
        PROVE  logins[<<c, q>>].csrf \in Flow /\ Spends(c, logins[<<c, q>>].csrf)
      BY <2>1 DEF LoginsAreSpent, TypeOK, Login
  <2>2. ASSUME NEW c \in Browser, NEW q \in Pages, logins'[<<c, q>>] # NoSession
        PROVE  origin'[logins'[<<c, q>>].csrf] = c /\ flows'[logins'[<<c, q>>].csrf] = NoFlow
      BY <1>2, <1>3, <1>4, <2>1, <2>2 DEF Spends
  <2> QED BY <2>2 DEF LoginsAreSpent, Spends
<1>6. FormsFit'
  <2> SUFFICES ASSUME NEW form \in forms
               PROVE  /\ Spends(form.browser, form.csrf)'
                      /\ LET login == logins'[<<form.browser, "admin">>] IN
                         login # NoSession /\ login.csrf = form.csrf => login.person = form.person
      BY <1>0 DEF FormsFit
  <2>1. form.browser \in Browser /\ form.csrf \in Flow /\ "admin" \in Pages
      BY DEF TypeOK, Form, Pages
  <2>2. Spends(form.browser, form.csrf)' /\ form.csrf # f
      BY <1>2, <2>1 DEF FormsFit
  <2> QED BY <1>4, <2>1, <2>2 DEF FormsFit
<1>7. LoginsAreDated'
  <2>1. ASSUME p \in admins, page = "admin" PROVE new.until <= demoted[new.person] + AdminTTL
    <3>1. demoted[p] = now
        BY <2>1 DEF LoginsAreDated
    <3> QED BY <2>1, <3>1, Times, LoginAssumption DEF TTLOf
  <2>2. "admin" \in Pages
      BY DEF Pages
  <2> QED BY <1>0, <1>4, <2>1, <2>2 DEF LoginsAreDated, MaySignIn
<1>8. AcceptedFromWhoSawIt' /\ RemovalTakesEffect'
    BY <1>0 DEF AcceptedFromWhoSawIt, RemovalTakesEffect
<1> QED BY <1>5, <1>6, <1>7, <1>8

LEMMA ShowAdminLogins == ASSUME IInv, TypeOK', NEW b \in Browser, ShowAdmin(b) PROVE LoginInv'
<1> DEFINE login == logins[<<b, "admin">>]
           new == [browser |-> b, csrf |-> login.csrf, person |-> login.person]
<1> USE DEF IInv, LoginInv
<1>0. /\ login # NoSession /\ forms' = forms \cup {new}
      /\ UNCHANGED <<now, admins, demoted, flows, origin, logins, posted>>
    BY DEF ShowAdmin, SignedIn, ghosts
<1>1. LoginsAreSpent' /\ LoginsAreDated' /\ AcceptedFromWhoSawIt' /\ RemovalTakesEffect'
    BY <1>0 DEF LoginsAreSpent, Spends, LoginsAreDated, AcceptedFromWhoSawIt, RemovalTakesEffect
<1>2. FormsFit'
  <2>1. Spends(b, login.csrf)
      BY <1>0 DEF LoginsAreSpent, Pages
  <2>2. ASSUME NEW form \in forms'
        PROVE  /\ origin'[form.csrf] = form.browser /\ flows'[form.csrf] = NoFlow
               /\ LET l == logins'[<<form.browser, "admin">>] IN
                  l # NoSession /\ l.csrf = form.csrf => l.person = form.person
    <3>1. CASE form \in forms
        BY <1>0, <3>1 DEF FormsFit, Spends
    <3>2. CASE form = new
        BY <1>0, <2>1, <3>2 DEF Spends
    <3> QED BY <1>0, <3>1, <3>2
  <2> QED BY <2>2 DEF FormsFit, Spends
<1> QED BY <1>1, <1>2

LEMMA LogoutLogins ==
    ASSUME IInv, TypeOK', NEW b \in Browser, NEW page \in Pages, Logout(b, page) PROVE LoginInv'
<1> USE DEF IInv, LoginInv
<1>0. /\ UNCHANGED <<now, admins, demoted, flows, origin, forms, posted>>
      /\ \A c \in Browser, q \in Pages : logins'[<<c, q>>] \in {logins[<<c, q>>], NoSession}
    BY DEF Logout, ghosts, TypeOK
<1>1. LoginsAreSpent'
    BY <1>0 DEF LoginsAreSpent, Spends
<1>2. FormsFit' /\ LoginsAreDated'
  <2>1. "admin" \in Pages /\ \A form \in forms : form.browser \in Browser
      BY DEF Pages, TypeOK, Form
  <2>2. FormsFit'
      BY <1>0, <2>1 DEF FormsFit, Spends
  <2>3. LoginsAreDated'
      BY <1>0, <2>1 DEF LoginsAreDated
  <2> QED BY <2>2, <2>3
<1>3. AcceptedFromWhoSawIt' /\ RemovalTakesEffect'
    BY <1>0 DEF AcceptedFromWhoSawIt, RemovalTakesEffect
<1> QED BY <1>1, <1>2, <1>3

\* A form is accepted under the session whose token it carries, which is live.
LEMMA AdminPostLogins == ASSUME IInv, TypeOK', NEW form \in forms, AdminPost(form) PROVE LoginInv'
<1> DEFINE login == logins[<<form.browser, "admin">>]
           p == login.person
<1> USE DEF IInv, LoginInv
<1>0. /\ UNCHANGED <<now, admins, demoted, flows, origin, logins, forms>>
      /\ posted' = [form |-> form.person, person |-> p, age |-> IF p \in admins THEN 0 ELSE now - demoted[p]]
      /\ login # NoSession /\ now <= login.until /\ login.csrf = form.csrf
    BY DEF AdminPost, Accepts, SignedIn, browserVars
<1>1. LoginsAreSpent' /\ FormsFit' /\ LoginsAreDated'
    BY <1>0 DEF LoginsAreSpent, FormsFit, Spends, LoginsAreDated
<1>2. form.person = p
    BY <1>0 DEF FormsFit
<1>3. posted'.age <= AdminTTL
  <2>1. form.browser \in Browser /\ login \in Login
      BY <1>0 DEF TypeOK, Form, Pages
  <2>2. p \in Person /\ login.until \in Nat /\ demoted[p] \in Nat /\ now \in Nat
      BY <2>1, Times DEF Login, TypeOK
  <2>3. login.until <= demoted[p] + AdminTTL
      BY <1>0, <2>1 DEF LoginsAreDated
  <2>4. now - demoted[p] <= AdminTTL
      BY <1>0, <2>2, <2>3, LoginAssumption
  <2> QED BY <1>0, <2>4, LoginAssumption
<1> QED BY <1>0, <1>1, <1>2, <1>3 DEF AcceptedFromWhoSawIt, RemovalTakesEffect

LEMMA LoginsStay == ASSUME IInv, [Next]_vars PROVE LoginInv'
<1>0. TypeOK'
    BY TypeStays
<1>1. ASSUME UNCHANGED <<now, admins, demoted, logins, forms, posted>> PROVE LoginInv'
    BY <1>0, <1>1, LoginsAlone
<1>2. ASSUME NEW b \in Browser, NEW f \in Flow, NEW kind \in Kinds, NEW secret \in SecretFor(b),
             Start(b, f, kind, secret)
      PROVE  LoginInv'
    BY <1>1, <1>2 DEF Start
<1>3. ASSUME NEW a \in underWay, Arrives(a) \/ GetsLost(a) PROVE LoginInv'
    BY <1>1, <1>3 DEF Arrives, GetsLost, ghosts
<1>4. ASSUME NEW b \in Browser, NEW f \in Flow, Consent(b, f) PROVE LoginInv'
    BY <1>1, <1>4 DEF Consent, Approve, Decline, browserVars
<1>5. ASSUME NEW f \in Flow, Callback(f) PROVE LoginInv'
    BY <1>1, <1>5 DEF Callback, browserVars
<1>6. CASE UNCHANGED vars
    BY <1>1, <1>6 DEF vars, browserVars, ghosts
<1> QED BY <1>0, <1>2, <1>3, <1>4, <1>5, <1>6, TickLogins, DemoteLogins, FinishLogins, ShowAdminLogins,
           LogoutLogins, AdminPostLogins DEF Next

-----------------------------------------------------------------------------
(* Theorems *)

\* Every reachable state satisfies the inductive invariant.
THEOREM LoginsInvariant == Spec => []IInv
<1>1. Init => IInv
    BY InitType, InitInv DEF IInv
<1>2. IInv /\ [Next]_vars => IInv'
    BY TypeStays, FlowsStay, LoginsStay DEF IInv
<1> QED BY <1>1, <1>2, PTL DEF Spec

\* LoginFlows.TypeOK, for every number of browsers, people, flows and secrets.
THEOREM LoginsTypeCorrect == Spec => []TypeOK
<1>1. IInv => TypeOK
    BY DEF IInv
<1> QED BY <1>1, LoginsInvariant, PTL

\* However many sign-ins are under way and wherever a callback address is
\* opened, a login ends in the browser it was started from (TakeSettingsFlow).
THEOREM LoginsStayInTheirBrowsers == Spec => []LoginStaysInItsBrowser
<1>1. IInv => LoginStaysInItsBrowser
    BY DEF IInv, LoginInv, LoginsAreSpent, Spends, LoginStaysInItsBrowser
<1> QED BY <1>1, LoginsInvariant, PTL

\* No order of sign-ins, pages and logouts makes an admin form good for another
\* person than the one it was shown to (adminPOST, csrfToken).
THEOREM FormsAreAcceptedFromTheirOwn == Spec => []AcceptedFromWhoSawIt
<1>1. IInv => AcceptedFromWhoSawIt
    BY DEF IInv, LoginInv
<1> QED BY <1>1, LoginsInvariant, PTL

\* An admin form is accepted at most AdminTTL after its person was last an
\* administrator, however old its page and sign-in are (adminSessionTTL).
THEOREM RemovalsTakeEffect == Spec => []RemovalTakesEffect
<1>1. IInv => RemovalTakesEffect
    BY DEF IInv, LoginInv
<1> QED BY <1>1, LoginsInvariant, PTL

\* A consent page can be approved until its flow is decided or lapses, in every
\* browser that was not given two secrets at once (browserSecret).
THEOREM PagesStayGood == Spec => []PagesOutliveLaterSignIns
<1>1. ASSUME IInv PROVE PagesOutliveLaterSignIns
  <2> SUFFICES ASSUME NEW b \in Browser, NEW f \in Flow, b \notin crossed, <<b, f>> \in pages, Alive(f)
               PROVE  SecretOf(b) = flows[f].secret
      BY DEF PagesOutliveLaterSignIns, PageStaysGood, Bound
  <2>1. cookie[b] # NoCookie /\ cookie[b].secret = flows[f].secret /\ flows[f].at + FlowTTL <= cookie[b].until
      BY <1>1 DEF IInv, FlowInv, PagesHaveCookies
  <2>2. now \in Nat /\ flows[f].at \in Nat /\ cookie[b].until \in Nat
      BY <1>1, <2>1, Times DEF IInv, TypeOK, Alive, Row, Cookie
  <2>3. now < cookie[b].until
      BY <2>1, <2>2, LoginAssumption DEF Alive
  <2> QED BY <2>1, <2>3 DEF SecretOf
<1> QED BY <1>1, LoginsInvariant, PTL

-----------------------------------------------------------------------------
(* The sign-ins keep the promise of the consent screen *)

LEMMA InitPromises == Init => Promise!Init
BY DEF Init, Promise!Init, Status, Asked, StatusOf

\* A step that changes one flow at most changes its status at most.
LEMMA OneFlowMoves ==
    ASSUME NEW f \in Flow,
           \A g \in Flow \ {f} :
               flows'[g] = flows[g] /\ origin'[g] = origin[g] /\ (g \in ended' <=> g \in ended)
    PROVE  /\ Status' = [Status EXCEPT ![f] = StatusOf(f)']
           /\ Asked' = [Asked EXCEPT ![f] = IF StatusOf(f)' = "unused" THEN NoBrowser ELSE origin'[f]]
<1>1. \A g \in Flow \ {f} : StatusOf(g)' = StatusOf(g)
    BY DEF StatusOf
<1>2. Status' = [Status EXCEPT ![f] = StatusOf(f)']
    BY <1>1 DEF Status
<1>3. Asked' = [Asked EXCEPT ![f] = IF StatusOf(f)' = "unused" THEN NoBrowser ELSE origin'[f]]
    BY <1>1 DEF Asked
<1> QED BY <1>2, <1>3

LEMMA NothingMoves ==
    ASSUME UNCHANGED <<flows, origin, decider, ended, sessions>> PROVE UNCHANGED Promise!vars
BY DEF Promise!vars, Status, Asked, StatusOf

LEMMA StartPromises ==
    ASSUME IInv, NEW b \in Browser, NEW f \in Flow, NEW kind \in Kinds,
           NEW secret \in SecretFor(b), Start(b, f, kind, secret)
    PROVE  [Promise!Next]_(Promise!vars)
<1>0. /\ TypeOK /\ origin[f] = NoBrowser /\ flows[f] = NoFlow /\ f \notin ended /\ secret \in Secret
    BY SecretIsOwn DEF IInv, FlowInv, RowsAreOpen, Start
<1>1. /\ origin' = [origin EXCEPT ![f] = b] /\ UNCHANGED <<decider, ended, sessions>>
      /\ flows' \in {flows, [flows EXCEPT ![f] = [kind |-> kind, secret |-> secret, at |-> now, approved |-> FALSE]]}
    BY DEF Start
<1>2. StatusOf(f) = "unused" /\ Status[f] = "unused" /\ Asked[f] = NoBrowser
    BY <1>0 DEF StatusOf, Status, Asked
<1>3. /\ Status' = [Status EXCEPT ![f] = StatusOf(f)']
      /\ Asked' = [Asked EXCEPT ![f] = IF StatusOf(f)' = "unused" THEN NoBrowser ELSE origin'[f]]
    BY <1>0, <1>1, OneFlowMoves DEF TypeOK
<1>4. CASE flows' = flows \/ kind # "client"
  <2>1. StatusOf(f)' = "unused"
      BY <1>0, <1>1, <1>4 DEF TypeOK, StatusOf
  <2> QED BY <1>1, <1>2, <1>3, <2>1 DEF Promise!vars, Status, Asked
<1>5. CASE flows' # flows /\ kind = "client"
  <2>1. /\ flows'[f] = [kind |-> kind, secret |-> secret, at |-> now, approved |-> FALSE]
        /\ origin'[f] = b
      BY <1>0, <1>1, <1>5 DEF TypeOK
  <2>2. flows'[f] # NoFlow
    <3>1. flows'[f] \in Row
        BY <1>0, <2>1, Times DEF Row
    <3> QED BY <3>1, NothingAssumption
  <2>3. StatusOf(f)' = "asked"
      BY <1>0, <1>1, <1>5, <2>1, <2>2, NothingAssumption DEF StatusOf
  <2>4. Promise!Ask(f, b)
      BY <1>1, <1>2, <1>3, <2>1, <2>3 DEF Promise!Ask, Promise!Goes
  <2> QED BY <2>4 DEF Promise!Next
<1> QED BY <1>4, <1>5

LEMMA ConsentPromises ==
    ASSUME IInv, NEW b \in Browser, NEW f \in Flow, Consent(b, f) PROVE Promise!Next
<1>0. /\ TypeOK /\ Bound(b, f) /\ flows[f] # NoFlow /\ flows[f] \in Row /\ flows[f].kind = "client"
      /\ f \notin ended /\ UNCHANGED <<origin, sessions>> /\ decider' = [decider EXCEPT ![f] = b]
    BY DEF Consent, Approve, Decline, ApproveFlow, TakeFlow, Shown, Bound, Alive, IInv, FlowInv, TypeOK,
           RowsAreOpen, PagesFit
<1>1. origin[f] = b /\ Asked[f] = b /\ Asked = [Asked EXCEPT ![f] = origin[f]]
    BY <1>0, BoundIsOrigin, NothingAssumption DEF Asked, StatusOf
<1>2. CASE Approve(b, f)
  <2>1. /\ flows'[f] = [flows[f] EXCEPT !.approved = TRUE] /\ ~flows[f].approved /\ ended' = ended
      BY <1>0, <1>2 DEF Approve, ApproveFlow, TypeOK
  <2>2. flows'[f] # NoFlow /\ flows'[f].kind = "client" /\ flows'[f].approved
    <3>1. flows'[f] \in Row
        BY <1>0, <2>1 DEF Row
    <3> QED BY <1>0, <2>1, <3>1, NothingAssumption DEF Row
  <2>3. Status[f] = "asked" /\ StatusOf(f)' = "approved"
      BY <1>0, <1>1, <2>1, <2>2, NothingAssumption DEF StatusOf, Status
  <2>4. Status' = [Status EXCEPT ![f] = "approved"] /\ Asked' = Asked
      BY <1>0, <1>1, <1>2, <2>3, OneFlowMoves DEF Approve, TypeOK
  <2>5. Promise!Approve(f, b)
      BY <1>0, <1>1, <2>3, <2>4 DEF Promise!Approve, Promise!Goes, Promise!Decides
  <2> QED BY <2>5 DEF Promise!Next
<1>3. CASE Decline(b, f)
  <2>1. Status[f] \in {"asked", "approved"} /\ StatusOf(f)' = "over"
      BY <1>0, <1>1, <1>3, NothingAssumption DEF StatusOf, Status, Decline
  <2>2. Status' = [Status EXCEPT ![f] = "over"] /\ Asked' = Asked
      BY <1>0, <1>1, <1>3, <2>1, OneFlowMoves DEF Decline, TypeOK
  <2>3. Promise!Decline(f, b)
      BY <1>0, <1>1, <2>1, <2>2 DEF Promise!Decline, Promise!Goes, Promise!Decides
  <2> QED BY <2>3 DEF Promise!Next
<1> QED BY <1>2, <1>3 DEF Consent

LEMMA CallbackPromises == ASSUME IInv, NEW f \in Flow, Callback(f) PROVE Promise!Next
<1>0. /\ TypeOK /\ flows[f] # NoFlow /\ flows[f].kind = "client" /\ flows[f].approved
      /\ origin[f] # NoBrowser /\ f \notin ended /\ UNCHANGED <<origin, decider>> /\ ended' = ended \cup {f}
      /\ flows' = [flows EXCEPT ![f] = NoFlow]
      /\ sessions' = sessions \/ sessions' = [sessions EXCEPT ![f] = @ + 1]
    BY DEF Callback, TakeApprovedFlow, Alive, IInv, FlowInv, RowsAreOpen
<1>1. Asked = [Asked EXCEPT ![f] = origin[f]]
    BY <1>0 DEF Asked, StatusOf
<1>2. Status[f] = "approved" /\ StatusOf(f)' = "over"
    BY <1>0 DEF StatusOf, Status
<1>3. Status' = [Status EXCEPT ![f] = "over"] /\ Asked' = Asked
    BY <1>0, <1>1, <1>2, OneFlowMoves DEF TypeOK
<1>4. Promise!Fail(f) \/ Promise!Grant(f)
    BY <1>0, <1>2, <1>3 DEF Promise!Fail, Promise!Grant, Promise!Goes
<1> QED BY <1>4 DEF Promise!Next

\* A page's own login is no part of the consent screen.
LEMMA FinishPromises ==
    ASSUME IInv, NEW b \in Browser, NEW f \in Flow, NEW p \in Person, FinishLogin(b, f, p)
    PROVE  UNCHANGED Promise!vars
<1>0. /\ TypeOK /\ flows[f].kind # "client" /\ flows[f] # NoFlow /\ f \notin ended
      /\ flows' = [flows EXCEPT ![f] = NoFlow] /\ UNCHANGED <<origin, decider, ended, sessions>>
    BY DEF FinishLogin, Pages, IInv, FlowInv, RowsAreOpen, ghosts
<1>1. \A g \in Flow : StatusOf(g)' = StatusOf(g)
    BY <1>0 DEF StatusOf, TypeOK
<1> QED BY <1>0, <1>1 DEF Promise!vars, Status, Asked

LEMMA StepPromises == ASSUME IInv, [Next]_vars PROVE [Promise!Next]_(Promise!vars)
<1>1. ASSUME NEW b \in Browser, ShowAdmin(b) \/ \E page \in Pages : Logout(b, page)
      PROVE  UNCHANGED Promise!vars
    BY <1>1, NothingMoves DEF ShowAdmin, Logout, ghosts
<1>2. ASSUME NEW form \in forms, AdminPost(form) PROVE UNCHANGED Promise!vars
    BY <1>2, NothingMoves DEF AdminPost
<1>3. ASSUME NEW a \in underWay, Arrives(a) \/ GetsLost(a) PROVE UNCHANGED Promise!vars
    BY <1>3, NothingMoves DEF Arrives, GetsLost, ghosts
<1>4. CASE Tick \/ (\E p \in Person : Demote(p)) \/ UNCHANGED vars
    BY <1>4, NothingMoves DEF Tick, Demote, vars, ghosts
<1> QED BY <1>1, <1>2, <1>3, <1>4, StartPromises, ConsentPromises, CallbackPromises, FinishPromises DEF Next

\* Whatever tabs, reloads and failures do, and whichever browsers submit its id,
\* a client's request is asked once, decided in the browser that was asked and in
\* no other, ends once, and in a session only when approved (ApproveFlow, TakeFlow,
\* TakeApprovedFlow).
THEOREM ConsentKeepsItsPromise == Spec => KeepsPromise
<1>1. IInv /\ [Next]_vars => [Promise!Next]_(Promise!vars)
    BY StepPromises
<1> QED BY <1>1, InitPromises, LoginsInvariant, PTL DEF Spec, KeepsPromise, Promise!Spec

-----------------------------------------------------------------------------
(* What the promise comes to *)

\* How far a request is tells where it was decided, and in how many sessions.
PromiseInv ==
    /\ Asked \in [Flow -> Browser \cup {NoBrowser}] /\ decider \in [Flow -> Browser \cup {NoBrowser}]
    /\ Status \in [Flow -> {"unused", "asked", "approved", "over"}] /\ sessions \in [Flow -> Nat]
    /\ \A f \in Flow :
          /\ Status[f] # "over" => sessions[f] = 0
          /\ Status[f] \in {"approved", "over"} => decider[f] = Asked[f] /\ Asked[f] # NoBrowser
    /\ Promise!SessionsAreDecided

LEMMA PromiseHolds == ASSUME PromiseInv, [Promise!Next]_(Promise!vars) PROVE PromiseInv'
<1> USE DEF PromiseInv, Promise!SessionsAreDecided
<1>1. ASSUME NEW f \in Flow, NEW b \in Browser, Promise!Ask(f, b) PROVE PromiseInv'
    BY <1>1 DEF Promise!Ask, Promise!Goes
<1>2. ASSUME NEW f \in Flow, NEW b \in Browser, Promise!Approve(f, b) \/ Promise!Decline(f, b)
      PROVE  PromiseInv'
    BY <1>2, NothingAssumption DEF Promise!Approve, Promise!Decline, Promise!Goes, Promise!Decides
<1>3. ASSUME NEW f \in Flow, Promise!Fail(f) \/ Promise!Grant(f) PROVE PromiseInv'
    BY <1>3 DEF Promise!Fail, Promise!Grant, Promise!Goes
<1>4. CASE UNCHANGED Promise!vars
    BY <1>4 DEF Promise!vars
<1> QED BY <1>1, <1>2, <1>3, <1>4 DEF Promise!Next

\* A request leads to one session at most, and to none unless the browser that
\* was asked is the one that decided, however many browsers submit it.
THEOREM ConsentIsGivenWhereAsked == Spec => []Promise!SessionsAreDecided
<1>1. Init => PromiseInv
    BY InitPromises DEF Promise!Init, PromiseInv, Promise!SessionsAreDecided
<1>2. PromiseInv /\ [Promise!Next]_(Promise!vars) => PromiseInv'
    BY PromiseHolds
<1>3. PromiseInv => Promise!SessionsAreDecided
    BY DEF PromiseInv
<1>4. Spec => Promise!Spec
    BY ConsentKeepsItsPromise DEF KeepsPromise
<1> QED BY <1>1, <1>2, <1>3, <1>4, PTL DEF Spec, Promise!Spec
=============================================================================
