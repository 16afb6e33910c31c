----------------------------- MODULE LoginFlows -----------------------------
(***************************************************************************)
(* Sign-ins through a browser: the consent screen of /authorize with its   *)
(* callback, and the logins of the settings and admin pages. All three tie *)
(* a row to the browser by one cookie, whose secret each new sign-in takes *)
(* over. Browsers have several tabs, reload, go back, and open an address  *)
(* in another browser; any replica serves each request, so all that is     *)
(* common is the database.                                                 *)
(***************************************************************************)
EXTENDS Naturals

CONSTANTS
    Browser, Person,
    Flow,         \* ids of flows and settings_flows
    Secret,       \* browser secrets
    NoCookie, NoFlow, NoSession, NoBrowser, Nobody,
    FlowTTL,      \* flowTTL, also the cookie's Max-Age
    AdminTTL,     \* adminSessionTTL
    SettingsTTL,  \* settingsSession
    MaxTime       \* bound: the clock

ASSUME LoginAssumption ==
    /\ FlowTTL \in Nat \ {0} /\ AdminTTL \in Nat /\ SettingsTTL \in Nat
    /\ MaxTime \in Nat
    /\ NoCookie \notin Secret

VARIABLES
    now,
    admins,     \* who is an administrator, according to the provider
    demoted,    \* ghost: when a person last was one
    (* the database *)
    flows,      \* tables flows and settings_flows, by id
    (* the browsers *)
    cookie,     \* consentCookie
    logins,     \* settingsCookie and adminCookie
    pages,      \* consent pages that are open, and where
    forms,      \* admin pages that are open, and where
    underWay,   \* answers to a first request that have not arrived
    atProvider, \* sign-ins the provider has been asked for
    (* ghosts *)
    origin,     \* the browser each flow was started from
    decider,    \* the browser that last decided it
    ended,      \* flows of clients that are decided and done
    sessions,   \* sessions each flow ended in
    crossed,    \* browsers that were given two secrets at once
    posted      \* the last form that was accepted

browserVars == <<cookie, logins, pages, forms, underWay, atProvider>>
ghosts      == <<origin, decider, ended, sessions, crossed, posted>>
vars        == <<now, admins, demoted, flows, browserVars, ghosts>>

-----------------------------------------------------------------------------
(* State *)

Pages == {"settings", "admin"}
Kinds == {"client"} \cup Pages

Time == 0..(MaxTime + FlowTTL + AdminTTL + SettingsTTL)

Row    == [kind : Kinds, secret : Secret, at : Time, approved : BOOLEAN]
Cookie == [secret : Secret, until : Time]

\* csrf: the secret of an admin session, named by the flow it was drawn for.
Login  == [person : Person, until : Time, csrf : Flow]

Answer == [browser : Browser, flow : Flow, secret : Secret]
Form   == [browser : Browser, csrf : Flow, person : Person]

\* age: how long ago the person had last been an administrator.
Post   == [form : Person, person : Person, age : Time]

\* What stands for nothing is not mistaken for something.
ASSUME NothingAssumption ==
    /\ NoCookie \notin Cookie /\ NoFlow \notin Row /\ NoSession \notin Login
    /\ NoBrowser \notin Browser /\ Nobody \notin Post

TypeOK ==
    /\ now \in 0..MaxTime
    /\ admins \subseteq Person
    /\ demoted \in [Person -> Time]
    /\ flows \in [Flow -> Row \cup {NoFlow}]
    /\ cookie \in [Browser -> Cookie \cup {NoCookie}]
    /\ logins \in [Browser \X Pages -> Login \cup {NoSession}]
    /\ pages \subseteq Browser \X Flow
    /\ forms \subseteq Form
    /\ underWay \subseteq Answer
    /\ atProvider \subseteq Flow
    /\ origin \in [Flow -> Browser \cup {NoBrowser}]
    /\ decider \in [Flow -> Browser \cup {NoBrowser}]
    /\ ended \subseteq Flow
    /\ sessions \in [Flow -> Nat]
    /\ crossed \subseteq Browser
    /\ posted \in Post \cup {Nobody}

Init ==
    /\ now = 0
    /\ admins = Person
    /\ demoted = [p \in Person |-> 0]
    /\ flows = [f \in Flow |-> NoFlow]
    /\ cookie = [b \in Browser |-> NoCookie]
    /\ logins = [l \in Browser \X Pages |-> NoSession]
    /\ pages = {} /\ forms = {} /\ underWay = {} /\ atProvider = {}
    /\ origin = [f \in Flow |-> NoBrowser]
    /\ decider = [f \in Flow |-> NoBrowser]
    /\ ended = {}
    /\ sessions = [f \in Flow |-> 0]
    /\ crossed = {}
    /\ posted = Nobody

Alive(f) == flows[f] # NoFlow /\ now < flows[f].at + FlowTTL

\* readBrowserSecret: what the browser sends.
SecretOf(b) ==
    IF cookie[b] # NoCookie /\ now < cookie[b].until THEN cookie[b].secret ELSE NoCookie

\* The row is the browser's own.
Bound(b, f) == Alive(f) /\ SecretOf(b) = flows[f].secret

SignedIn(b, page) == logins[<<b, page>>] # NoSession /\ now <= logins[<<b, page>>].until

-----------------------------------------------------------------------------
Tick ==
    /\ now < MaxTime
    /\ now' = now + 1
    /\ demoted' = [p \in Person |-> IF p \in admins THEN now + 1 ELSE demoted[p]]
    /\ UNCHANGED <<admins, flows, browserVars, ghosts>>

\* The provider takes a person out of the admin group.
Demote(p) ==
    /\ p \in admins
    /\ admins' = admins \ {p}
    /\ UNCHANGED <<now, demoted, flows, browserVars, ghosts>>

-----------------------------------------------------------------------------
(* Starting: handleAuthorize, startLogin *)

Spent == {flows[f].secret : f \in {g \in Flow : flows[g] # NoFlow}}
            \cup {a.secret : a \in underWay} \cup {cookie[b].secret : b \in {c \in Browser : cookie[c] # NoCookie}}

\* Variant: every sign-in gets a secret of its own.
SecretFor_AlwaysNew(b) == Secret \ Spent

\* browserSecret: the one the browser has, or a new one.
SecretFor(b) == IF SecretOf(b) # NoCookie THEN {SecretOf(b)} ELSE Secret \ Spent

\* A page is asked for that takes a sign-in. The row is stored, or that fails;
\* the answer with the cookie is on its way, as a page or an error.
Start(b, f, kind, secret) ==
    /\ origin[f] = NoBrowser
    /\ kind \in Pages => ~SignedIn(b, kind)
    /\ flows' \in {flows, [flows EXCEPT ![f] = [kind |-> kind, secret |-> secret,
                                              at |-> now, approved |-> FALSE]]}
    /\ underWay' = underWay \cup {[browser |-> b, flow |-> f, secret |-> secret]}
    /\ origin' = [origin EXCEPT ![f] = b]
    /\ crossed' = IF SecretOf(b) = NoCookie /\ \E a \in underWay : a.browser = b
                  THEN crossed \cup {b} ELSE crossed
    /\ UNCHANGED <<now, admins, demoted, cookie, logins, pages, forms, atProvider, decider, ended, sessions, posted>>

\* The answer arrives, perhaps after one that was asked for later: the cookie
\* is set, with a consent page, a redirect to the provider, or an error.
Arrives(a) ==
    /\ a \in underWay
    /\ underWay' = underWay \ {a}
    /\ cookie' = [cookie EXCEPT ![a.browser] = [secret |-> a.secret, until |-> now + FlowTTL]]
    /\ IF flows[a.flow] = NoFlow THEN UNCHANGED <<pages, atProvider>>
       ELSE IF flows[a.flow].kind = "client"
       THEN pages' = pages \cup {<<a.browser, a.flow>>} /\ UNCHANGED atProvider
       ELSE atProvider' = atProvider \cup {a.flow} /\ UNCHANGED pages
    /\ UNCHANGED <<now, admins, demoted, flows, logins, forms, ghosts>>

\* Or it does not.
GetsLost(a) ==
    /\ a \in underWay
    /\ underWay' = underWay \ {a}
    /\ UNCHANGED <<now, admins, demoted, flows, cookie, logins, pages, forms, atProvider, ghosts>>

-----------------------------------------------------------------------------
(* The consent screen: handleConsent, handleCallback *)

\* A flow id leaves the proxy in a page, and is no secret from then on: any
\* browser may submit it. Ids of settings_flows are not looked for here.
Shown(f) == \E c \in Browser : <<c, f>> \in pages

\* Variant: the row is found by its id alone.
ApproveFlow_AnyBrowser(b, f) == Alive(f) /\ ~flows[f].approved

\* The browser's own row, not yet approved.
ApproveFlow(b, f) == Bound(b, f) /\ ~flows[f].approved

\* The browser's own row, whatever its state: a page approved before may still be
\* open in another tab.
TakeFlow(b, f) == Bound(b, f)

\* The browser goes to the provider, unless discovery fails (AuthorizeURL): then
\* the client is told, and the row stays approved.
Approve(b, f) ==
    /\ Shown(f)
    /\ ApproveFlow(b, f)
    /\ flows' = [flows EXCEPT ![f].approved = TRUE]
    /\ atProvider' \in {atProvider, atProvider \cup {f}}
    /\ decider' = [decider EXCEPT ![f] = b]
    /\ UNCHANGED <<now, admins, demoted, cookie, logins, pages, forms, underWay,
                   origin, ended, sessions, crossed, posted>>

Decline(b, f) ==
    /\ Shown(f)
    /\ TakeFlow(b, f)
    /\ flows' = [flows EXCEPT ![f] = NoFlow]
    /\ decider' = [decider EXCEPT ![f] = b]
    /\ ended' = ended \cup {f}
    /\ UNCHANGED <<now, admins, demoted, browserVars, origin, sessions, crossed, posted>>

\* Variant: the row is deleted in a sweep, not with the read.
TakeApprovedFlow_Kept(f) == flows' = flows

\* DELETE ... RETURNING.
TakeApprovedFlow(f) == flows' = [flows EXCEPT ![f] = NoFlow]

\* The provider has sent some browser back, or it opens that address again. The
\* flow ends in a session, or something on the way fails and it ends in none.
Callback(f) ==
    /\ f \in atProvider
    /\ Alive(f) /\ flows[f].kind = "client" /\ flows[f].approved
    /\ TakeApprovedFlow(f)
    /\ ended' = ended \cup {f}
    /\ \/ sessions' = [sessions EXCEPT ![f] = @ + 1]
       \/ UNCHANGED sessions
    /\ UNCHANGED <<now, admins, demoted, browserVars, origin, decider, crossed, posted>>

-----------------------------------------------------------------------------
(* The settings and admin pages: finishLogin, adminGET, adminPOST *)

\* Variant: the row is found by its id alone.
TakeSettingsFlow_AnyBrowser(b, f) == Alive(f)

\* TakeSettingsFlow: the browser's own row.
TakeSettingsFlow(b, f) == Bound(b, f)

TTLOf(page) == IF page = "admin" THEN AdminTTL ELSE SettingsTTL

\* Variant: whoever signs in gets the session; the groups are looked at later.
MaySignIn_Anyone(page, p) == TRUE

\* isAdmin, with the groups the provider states now.
MaySignIn(page, p) == page = "admin" => p \in admins

\* The callback of a page's login, in any browser. The flow is spent; whoever is
\* signed in at the provider is signed in here, unless a step fails.
FinishLogin(b, f, p) ==
    LET page == flows[f].kind IN
    /\ f \in atProvider /\ flows[f] # NoFlow /\ page \in Pages
    /\ TakeSettingsFlow(b, f)
    /\ flows' = [flows EXCEPT ![f] = NoFlow]
    /\ \/ /\ MaySignIn(page, p)
          /\ logins' = [logins EXCEPT ![<<b, page>>] =
                          [person |-> p, until |-> now + TTLOf(page), csrf |-> f]]
       \/ UNCHANGED logins
    /\ UNCHANGED <<now, admins, demoted, cookie, pages, forms, underWay, atProvider, ghosts>>

\* An admin page is shown, its forms with tokens of the session.
ShowAdmin(b) ==
    LET login == logins[<<b, "admin">>] IN
    /\ SignedIn(b, "admin")
    /\ forms' = forms \cup {[browser |-> b, csrf |-> login.csrf, person |-> login.person]}
    /\ UNCHANGED <<now, admins, demoted, flows, cookie, logins, pages, underWay, atProvider, ghosts>>

\* Variant: a form is good for any admin session of the browser.
Accepts_AnySession(form) == SignedIn(form.browser, "admin")

\* adminPOST: a live session, and a token that was derived from it.
Accepts(form) ==
    /\ SignedIn(form.browser, "admin")
    /\ logins[<<form.browser, "admin">>].csrf = form.csrf

AdminPost(form) ==
    LET p == logins[<<form.browser, "admin">>].person IN
    /\ form \in forms
    /\ Accepts(form)
    /\ posted' = [form |-> form.person, person |-> p,
                  age |-> IF p \in admins THEN 0 ELSE now - demoted[p]]
    /\ UNCHANGED <<now, admins, demoted, flows, browserVars, origin, decider, ended, sessions, crossed>>

\* handleSettingsLogout, handleAdminLogout: the cookie is cleared in this browser.
\* A live admin session is left by a form of its own only.
Logout(b, page) ==
    /\ logins[<<b, page>>] # NoSession
    /\ page = "admin" /\ SignedIn(b, page) => \E form \in forms : form.browser = b /\ Accepts(form)
    /\ logins' = [logins EXCEPT ![<<b, page>>] = NoSession]
    /\ UNCHANGED <<now, admins, demoted, flows, cookie, pages, forms, underWay, atProvider, ghosts>>

-----------------------------------------------------------------------------
Consent(b, f) == Approve(b, f) \/ Decline(b, f)

Next ==
    \/ Tick
    \/ \E p \in Person : Demote(p)
    \/ \E b \in Browser, f \in Flow, kind \in Kinds : \E secret \in SecretFor(b) : Start(b, f, kind, secret)
    \/ \E a \in underWay : Arrives(a) \/ GetsLost(a)
    \/ \E b \in Browser, f \in Flow : Consent(b, f)
    \/ \E f \in Flow : Callback(f)
    \/ \E b \in Browser, f \in Flow, p \in Person : FinishLogin(b, f, p)
    \/ \E b \in Browser : ShowAdmin(b) \/ \E page \in Pages : Logout(b, page)
    \/ \E form \in forms : AdminPost(form)

Spec == Init /\ [][Next]_vars

-----------------------------------------------------------------------------
(* Properties *)

StatusOf(f) ==
    IF f \in ended THEN "over"
    ELSE IF origin[f] = NoBrowser \/ flows[f] = NoFlow \/ flows[f].kind # "client" THEN "unused"
    ELSE IF flows[f].approved THEN "approved" ELSE "asked"

Status == [f \in Flow |-> StatusOf(f)]
Asked  == [f \in Flow |-> IF StatusOf(f) = "unused" THEN NoBrowser ELSE origin[f]]

Promise ==
    INSTANCE ConsentPromise
    WITH asked <- Asked, decided <- decider, status <- Status, sessions <- sessions

\* A request is decided only in the browser it was answered to, although any
\* browser may submit its id; it is approved once and leads to one session at
\* most, through duplicated callbacks, a page declined in one tab and approved in
\* another, and rows that lapse: the detailed flows implement ConsentPromise.
KeepsPromise == Promise!Spec

\* A page's login ends in the browser it was started from, although its callback
\* address may be opened in any.
LoginStaysInItsBrowser ==
    \A b \in Browser, page \in Pages :
        logins[<<b, page>>] # NoSession => origin[logins[<<b, page>>].csrf] = b

\* An admin form is accepted from whom it was shown to: never after someone
\* else has signed in, in another tab of the same browser.
AcceptedFromWhoSawIt == posted # Nobody => posted.form = posted.person

\* Whoever loses the admin group can go on for as long as one admin session
\* lasts, and no longer, whatever pages and sign-ins are still open.
RemovalTakesEffect == posted # Nobody => posted.age <= AdminTTL

\* A consent page can be approved where it is shown until its flow is decided or
\* lapses: a later sign-in in the same browser does not take its cookie away.
PageStaysGood(b, f) ==
    <<b, f>> \in pages /\ Alive(f) /\ ~flows[f].approved => Bound(b, f)

PagesOutliveLaterSignIns ==
    \A b \in Browser, f \in Flow : b \notin crossed => PageStaysGood(b, f)

\* oauth.go: "The value is reused across concurrent authorizations so that
\* opening two clients at once does not invalidate the first one's consent page."
FirstPageStaysGood ==
    \A b \in Browser, f \in Flow : PageStaysGood(b, f)
=============================================================================
