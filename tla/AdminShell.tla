----------------------------- MODULE AdminShell -----------------------------
(***************************************************************************)
(* The shell of the admin console in one browser tab: app.js, the hash     *)
(* router (router.js), the login page (login.js), the API wrapper (api.js) *)
(* and the language switch (i18n/index.js), against the server's session   *)
(* (backend/routes/auth.py, external to the browser).                      *)
(*                                                                         *)
(* The router keeps a flag, authed, of its own; the session lives in a     *)
(* cookie.  Every call is a fetch: it is sent, the server handles it or it *)
(* is lost, and its answer is delivered later, in any order.  A write of   *)
(* location.hash that changes it queues one hashchange event, which the    *)
(* router handles later with the hash of that moment.                      *)
(***************************************************************************)
EXTENDS Naturals, FiniteSets

CONSTANTS
  Pages,       \* the protected routes that app.js registers
  Home,        \* the route "/"
  Login,       \* the route "/login"
  Channels,    \* the route "/provider-channels"
  Subpaths,    \* hashes "/providers/:id/channels"
  Unregistered,\* other hashes for which no route is registered
  Slots,       \* bound: calls under way at the same time
  MaxMoves,    \* bound: hashes the user enters, clicks and reloads
  MaxFaults    \* bound: connections that fail and sessions that expire

ASSUME RoutesAssumption ==
  /\ Home \in Pages /\ Channels \in Pages
  /\ Login \notin Pages
  /\ \A p \in Unregistered \cup Subpaths : p \notin Pages \cup {Login}
  /\ "none" \notin Pages

ASSUME ShellBoundsAssumption ==
  /\ MaxMoves \in Nat
  /\ MaxFaults \in Nat

VARIABLES
  boot,      \* app.js: "language", "fallback", "running" or "dead"
  hash,      \* location.hash
  events,    \* hashchange events queued and not yet handled
  authed,    \* Router._authenticated
  current,   \* Router.current, the page shown, or NoPage
  loginForm, \* LoginPage.render has drawn the form
  session,   \* the server accepts this browser's cookie
  slot,      \* the calls under way
  moves, faults,
  vouched,   \* history: the server has confirmed a session to this page load
  overtaken  \* history: a guard's answer came for a hash already left

shellVars == <<boot, hash, events, authed, current, loginForm, session, slot,
               moves, faults, vouched, overtaken>>

NoPage == "none"
Routes == Pages \cup {Login}
Paths  == Routes \cup Unregistered \cup Subpaths

\* The route a path stands for.
RouteOf(p) == IF p \in Subpaths THEN Channels ELSE p

(***************************************************************************)
(* Calls.  guard: the status check of Router.resolve, with the path it     *)
(* captured.  welcome: the status check of LoginPage.load.  api: a call of *)
(* a page through API.  submit, logout: login.js.                          *)
(***************************************************************************)
Kinds   == {"guard", "welcome", "api", "submit", "logout"}
Answers == {"sent", "yes", "no", "lost"}
Free    == [kind |-> "free", path |-> NoPage, answer |-> "sent"]
Calls   == [kind : Kinds, path : Paths, answer : Answers]

Request(k, p) == [kind |-> k, path |-> p, answer |-> "sent"]

Send(net, c) == \E s \in Slots :
  /\ net[s] = Free
  /\ slot' = [net EXCEPT ![s] = c]

Clear(s) == [slot EXCEPT ![s] = Free]

\* window.location.hash = p, with left events queued before it.
GoTo(p, left) ==
  /\ hash' = p
  /\ events' = IF p = hash THEN left ELSE left + 1

SetHash(p) == GoTo(p, events)

\* A slip: an unknown path is shown as well.
DoResolveUnchecked(p, net, left) ==
  /\ current' = p
  /\ Send(net, Request(IF p = Login THEN "welcome" ELSE "api", p))
  /\ events' = left
  /\ UNCHANGED hash

(***************************************************************************)
(* Router._doResolve(path): a path of a provider's channels stands for one *)
(* page; an unknown path goes home, a known one is shown and loaded; the   *)
(* login page asks for the status, every other page makes a call through   *)
(* API.  net: the calls left under way.                                    *)
(***************************************************************************)
DoResolve(p, net, left) ==
  IF RouteOf(p) \notin Routes
  THEN /\ GoTo(Home, left)
       /\ slot' = net
       /\ UNCHANGED current
  ELSE /\ current' = RouteOf(p)
       /\ Send(net, Request(IF p = Login THEN "welcome" ELSE "api", RouteOf(p)))
       /\ events' = left
       /\ UNCHANGED hash

\* Router.resolve: the guard asks the server, the flag leads away from the
\* login page, and anything else is shown.
Resolve(left) ==
  \/ /\ hash # Login /\ ~authed
     /\ Send(slot, Request("guard", hash))
     /\ events' = left
     /\ UNCHANGED <<hash, current>>
  \/ /\ hash = Login /\ authed
     /\ GoTo(Home, left)
     /\ UNCHANGED <<current, slot>>
  \/ /\ (hash = Login) # authed
     /\ DoResolve(hash, slot, left)

(***************************************************************************)
(* Start: a tab opened on any hash, with or without a session.             *)
(***************************************************************************)
ShellInit ==
  /\ boot = "language"
  /\ hash \in Paths
  /\ session \in BOOLEAN
  /\ events = 0
  /\ authed = FALSE
  /\ current = NoPage
  /\ loginForm = FALSE
  /\ slot = [s \in Slots |-> Free]
  /\ moves = 0 /\ faults = 0
  /\ vouched = FALSE /\ overtaken = FALSE

\* app.js after I18n.init: register the routes, Router.init.
Run ==
  /\ boot' = "running"
  /\ Resolve(0)
  /\ UNCHANGED <<authed, loginForm, session, moves, faults, vouched, overtaken>>

\* I18n.init: the chosen language arrives.
LanguageLoads == boot \in {"language", "fallback"} /\ Run

\* The chosen language is missing: zh-CN is tried.
LanguageMissing ==
  /\ boot = "language"
  /\ boot' = "fallback"
  /\ UNCHANGED <<hash, events, authed, current, loginForm, session, slot, moves,
                 faults, vouched, overtaken>>

\* fetch or json() throws: nothing catches it and the application never starts.
LanguageFails ==
  /\ boot \in {"language", "fallback"}
  /\ boot' = "dead"
  /\ UNCHANGED <<hash, events, authed, current, loginForm, session, slot, moves,
                 faults, vouched, overtaken>>

\* The browser delivers a hashchange event to Router.resolve.
HashChange ==
  /\ boot = "running" /\ events > 0
  /\ Resolve(events - 1)
  /\ UNCHANGED <<boot, authed, loginForm, session, moves, faults, vouched, overtaken>>

(***************************************************************************)
(* The user.                                                               *)
(***************************************************************************)
\* A link of the sidebar, a bookmark, the address bar.
Visit(p) ==
  /\ moves < MaxMoves /\ p # hash
  /\ SetHash(p)
  /\ moves' = moves + 1
  /\ UNCHANGED <<boot, authed, current, loginForm, session, slot, faults, vouched, overtaken>>

\* Any call of the page shown, a timer's included.
Touch ==
  /\ current \in Pages /\ moves < MaxMoves
  /\ Send(slot, Request("api", current))
  /\ moves' = moves + 1
  /\ UNCHANGED <<boot, hash, events, authed, current, loginForm, session, faults,
                 vouched, overtaken>>

\* LoginPage.submit
Submit ==
  /\ current = Login /\ loginForm /\ moves < MaxMoves
  /\ Send(slot, Request("submit", Login))
  /\ moves' = moves + 1
  /\ UNCHANGED <<boot, hash, events, authed, current, loginForm, session, faults,
                 vouched, overtaken>>

\* logoutAdmin
Logout ==
  /\ current \in Pages /\ moves < MaxMoves
  /\ Send(slot, Request("logout", current))
  /\ moves' = moves + 1
  /\ UNCHANGED <<boot, hash, events, authed, current, loginForm, session, faults,
                 vouched, overtaken>>

\* F5, or I18n.setLang: all the memory of the tab is gone, the cookie is not.
Reload ==
  /\ moves < MaxMoves
  /\ boot' = "language"
  /\ events' = 0
  /\ authed' = FALSE
  /\ current' = NoPage
  /\ loginForm' = FALSE
  /\ slot' = [s \in Slots |-> Free]
  /\ moves' = moves + 1
  /\ vouched' = FALSE /\ overtaken' = FALSE
  /\ UNCHANGED <<hash, session, faults>>

(***************************************************************************)
(* The server and the network.                                             *)
(***************************************************************************)
SlotAnswered(s, a) ==
  /\ slot' = [slot EXCEPT ![s].answer = a]
  /\ vouched' = (vouched \/ a = "yes")
  /\ UNCHANGED <<boot, hash, events, authed, current, loginForm, moves, overtaken>>

\* GET /api/auth/status and every guarded route: by the session of the moment.
ServeStatus(s) ==
  /\ slot[s].kind \in {"guard", "welcome", "api"} /\ slot[s].answer = "sent"
  /\ SlotAnswered(s, IF session THEN "yes" ELSE "no")
  /\ UNCHANGED <<session, faults>>

\* POST /api/auth/login: the password is right, or it is not.
ServeLogin(s) ==
  /\ slot[s].kind = "submit" /\ slot[s].answer = "sent"
  /\ \/ SlotAnswered(s, "yes") /\ session' = TRUE
     \/ SlotAnswered(s, "no") /\ UNCHANGED session
  /\ UNCHANGED faults

\* POST /api/auth/logout
ServeLogout(s) ==
  /\ slot[s].kind = "logout" /\ slot[s].answer = "sent"
  /\ SlotAnswered(s, IF session THEN "yes" ELSE "no")
  /\ session' = FALSE
  /\ UNCHANGED faults

\* The connection fails, before the server saw the call or after.
Lose(s) ==
  /\ slot[s] # Free /\ slot[s].answer # "lost" /\ faults < MaxFaults
  /\ SlotAnswered(s, "lost")
  /\ faults' = faults + 1
  /\ UNCHANGED session

Expire ==
  /\ session /\ faults < MaxFaults
  /\ session' = FALSE
  /\ faults' = faults + 1
  /\ UNCHANGED <<boot, hash, events, authed, current, loginForm, slot, moves, vouched, overtaken>>

(***************************************************************************)
(* Answers, in any order.                                                  *)
(***************************************************************************)
\* A slip: any answer opens the page.
GuardIgnoresAnswer(s) ==
  /\ slot[s].kind = "guard" /\ slot[s].answer # "sent"
  /\ authed' = TRUE
  /\ DoResolve(slot[s].path, Clear(s), events)
  /\ overtaken' = (overtaken \/ slot[s].path # hash)
  /\ UNCHANGED <<boot, loginForm, session, moves, faults, vouched>>

\* The guard's answer opens the page of the path captured when it was sent.
GuardAdmits(s) ==
  /\ slot[s].kind = "guard" /\ slot[s].answer = "yes"
  /\ authed' = TRUE
  /\ DoResolve(slot[s].path, Clear(s), events)
  /\ overtaken' = (overtaken \/ slot[s].path # hash)
  /\ UNCHANGED <<boot, loginForm, session, moves, faults, vouched>>

\* A slip: a refused guard leaves the tab as it is.
GuardRefusesSilently(s) ==
  /\ slot[s].kind = "guard" /\ slot[s].answer \in {"no", "lost"}
  /\ slot' = Clear(s)
  /\ UNCHANGED <<boot, hash, events, authed, current, loginForm, session, moves, faults,
                 vouched, overtaken>>

\* Refused or failed: to the login page.
GuardRefuses(s) ==
  /\ slot[s].kind = "guard" /\ slot[s].answer \in {"no", "lost"}
  /\ SetHash(Login)
  /\ slot' = Clear(s)
  /\ UNCHANGED <<boot, authed, current, loginForm, session, moves, faults, vouched,
                 overtaken>>

\* LoginPage.load: a session leads home, anything else draws the form.
Welcome(s) ==
  /\ slot[s].kind = "welcome" /\ slot[s].answer # "sent"
  /\ slot' = Clear(s)
  /\ IF slot[s].answer = "yes"
     THEN SetHash(Home) /\ UNCHANGED loginForm
     ELSE loginForm' = TRUE /\ UNCHANGED <<hash, events>>
  /\ UNCHANGED <<boot, authed, current, session, moves, faults, vouched, overtaken>>

\* API.get, post, put, del: a 401 leads to the login page.
ApiAnswer(s) ==
  /\ slot[s].kind = "api" /\ slot[s].answer # "sent"
  /\ slot' = Clear(s)
  /\ IF slot[s].answer = "no" THEN SetHash(Login) ELSE UNCHANGED <<hash, events>>
  /\ UNCHANGED <<boot, authed, current, loginForm, session, moves, faults, vouched,
                 overtaken>>

\* LoginPage.submit: the flag is set and the hash goes home, or an error is shown.
Submitted(s) ==
  /\ slot[s].kind = "submit" /\ slot[s].answer # "sent"
  /\ slot' = Clear(s)
  /\ IF slot[s].answer = "yes"
     THEN authed' = TRUE /\ SetHash(Home)
     ELSE UNCHANGED <<authed, hash, events>>
  /\ UNCHANGED <<boot, current, loginForm, session, moves, faults, vouched, overtaken>>

\* A slip: the flag is cleared and the page stays.
LoggedOutStays(s) ==
  /\ slot[s].kind = "logout" /\ slot[s].answer # "sent"
  /\ slot' = Clear(s)
  /\ authed' = FALSE
  /\ UNCHANGED <<boot, hash, events, current, loginForm, session, moves, faults, vouched,
                 overtaken>>

\* logoutAdmin: whatever the answer was.
LoggedOut(s) ==
  /\ slot[s].kind = "logout" /\ slot[s].answer # "sent"
  /\ slot' = Clear(s)
  /\ authed' = FALSE
  /\ SetHash(Login)
  /\ UNCHANGED <<boot, current, loginForm, session, moves, faults, vouched, overtaken>>

Delivered(s) ==
  \/ GuardAdmits(s)
  \/ GuardRefuses(s)
  \/ Welcome(s)
  \/ ApiAnswer(s)
  \/ Submitted(s)
  \/ LoggedOut(s)

Served(s) == ServeStatus(s) \/ ServeLogin(s) \/ ServeLogout(s)

ShellNext ==
  \/ LanguageLoads
  \/ LanguageMissing
  \/ LanguageFails
  \/ HashChange
  \/ \E p \in Paths : Visit(p)
  \/ Touch
  \/ Submit
  \/ Logout
  \/ Reload
  \/ Expire
  \/ \E s \in Slots : Served(s) \/ Lose(s) \/ Delivered(s)

ShellSpec == ShellInit /\ [][ShellNext]_shellVars

(***************************************************************************)
(* The browser delivers events and answers, the server answers.  The user  *)
(* and the clock owe nothing.                                              *)
(***************************************************************************)
Fairness ==
  /\ WF_shellVars(LanguageLoads)
  /\ WF_shellVars(HashChange)
  /\ \A s \in Slots : WF_shellVars(Served(s)) /\ WF_shellVars(Delivered(s))

FairSpec == ShellSpec /\ Fairness

(***************************************************************************)
(* Properties                                                              *)
(***************************************************************************)
\* Types of the state of router.js, login.js and the calls under way.
ShellTypeOK ==
  /\ boot \in {"language", "fallback", "running", "dead"}
  /\ hash \in Paths
  /\ events \in Nat
  /\ authed \in BOOLEAN /\ loginForm \in BOOLEAN /\ session \in BOOLEAN
  /\ current \in Routes \cup {NoPage}
  /\ slot \in [Slots -> Calls \cup {Free}]
  /\ moves \in 0..MaxMoves /\ faults \in 0..MaxFaults
  /\ vouched \in BOOLEAN /\ overtaken \in BOOLEAN

\* A protected page is shown only in a page load to which the server has
\* confirmed a session: not after a guard that failed, was refused or was
\* overtaken, nor after a login that was refused (router.js:25-41).
NoPageBeforeLogin == current \in Pages => vouched

Quiet == boot = "running" /\ events = 0 /\ \A s \in Slots : slot[s] = Free

\* With nothing under way the page shown is the page of the address bar,
\* after any mix of guards, redirects, logins and logouts, unless a guard's
\* answer was for a hash the user had left: then _doResolve shows the page of
\* the path it captured (router.js:32).
PageFollowsHash == Quiet /\ ~overtaken => RouteOf(hash) = current

\* The shell comes to rest: at a page when the session lasts, however the flag
\* stands, and at the login page when there is neither session nor flag.  The
\* redirects of router.js, login.js and api.js do not chase each other.  Left
\* out is a tab whose guard was overtaken: with the hash at /login already, a
\* logout changes nothing and its page stays.
ShellSettles ==
  <>[]session \/ (<>[](~session /\ ~authed))
    => <>[](boot = "dead" \/ overtaken \/ (Quiet /\ (session \/ current = Login)))

Refused == \E s \in Slots : slot[s].kind = "api" /\ slot[s].answer = "no"

\* router.js:25 "not logged in: only /login may be visited": a tab whose call
\* was refused with 401 comes to the login page, or has a session again.
RefusedSeesLogin == Refused ~> (current = Login \/ session \/ boot # "running")
=============================================================================
