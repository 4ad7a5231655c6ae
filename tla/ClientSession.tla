----------------------------- MODULE ClientSession -----------------------------
(***************************************************************************)
(* The session of one browser tab: the NextAuth cookie and the session      *)
(* that SessionProvider holds, the token of the ApiClient singleton, and    *)
(* what copies the one into the other or ends both.                         *)
(*                                                                         *)
(* Every await is a boundary between two actions.  A React effect is an     *)
(* action of its own that may run as soon as its dependencies have changed; *)
(* only an answer to a fetch that was sent after a change is taken to come  *)
(* after the effects of that change (EffectsRan).                           *)
(*                                                                         *)
(* Tokens are numbered in the order in which the server issues them; 0 is   *)
(* the absence of a token.                                                  *)
(***************************************************************************)
EXTENDS Integers, Sequences

CONSTANTS
    Orgs,        \* organizations of the registered user
    Home,        \* the one a login answers with
    Sandbox,     \* the organization of a guest
    Slots,       \* requests of the pages that may be in flight
    Handlers,    \* activations of onForceSignout that may be in flight
    MaxTokens,   \* bound on the tokens issued
    MaxFaults,   \* bound on lost answers
    MaxReloads   \* bound on reloads and navigations

ASSUME ConstantsAssumption ==
    /\ Home \in Orgs /\ Sandbox \notin Orgs
    /\ MaxTokens \in Nat /\ MaxFaults \in Nat /\ MaxReloads \in Nat

VARIABLES
    issued,    \* issued[t]: the organization token t was issued for
    live,      \* the tokens the server accepts
    guestRow,  \* the guest_usage row of this browser: none, live or expired
    cookie,    \* the token inside the NextAuth cookie
    session,   \* the token of the session SessionProvider holds
    loading,   \* SessionProvider's loading flag
    path,      \* "login" (public pages) or "app" (pages inside MainLayout)
    apiToken,  \* ApiClient.token
    handled,   \* ApiClient.authFailureHandled
    hook,      \* dependencies useAuthenticatedApi's effect last ran with
    timer,     \* the guest timer: the session it is for, and whether it is armed
    leaving,   \* leaving[h]: what activation h of onForceSignout awaits
    requests,  \* requests[s]: the token sent and the retries made
    login,     \* what the sign-in form awaits
    switch,    \* what handleSwitchOrganization awaits, and the organization asked for
    faults,    \* lost answers so far
    reloads    \* reloads and navigations so far

server == <<issued, live, guestRow>>
react == <<session, loading, path>>
client == <<apiToken, handled>>
effects == <<hook, timer>>
calls == <<leaving, requests, login, switch>>
bounds == <<faults, reloads>>
vars == <<server, cookie, react, client, effects, calls, bounds>>

Tokens == DOMAIN issued
IsGuest(t) == t # 0 /\ issued[t] = Sandbox

Status == CASE loading -> "loading"
            [] ~loading /\ session # 0 -> "authenticated"
            [] OTHER -> "unauthenticated"

Seen == [status |-> Status, token |-> session]
Unseen == [status |-> "unmounted", token |-> 0]
Disarmed == [for |-> Unseen, armed |-> FALSE]
NoRequest == [active |-> FALSE, token |-> 0, tries |-> 0]
NoSwitch == [phase |-> "idle", token |-> 0, org |-> Home]

\* The effects have seen the present session.
EffectsRan == timer.for = Seen /\ (path = "app" => hook = Seen)

\* A page load starts with a new SessionProvider and a new ApiClient.
LoadTab ==
    /\ session' = 0 /\ loading' = TRUE
    /\ apiToken' = 0 /\ handled' = FALSE
    /\ hook' = Unseen /\ timer' = Disarmed
    /\ leaving' = [h \in Handlers |-> "idle"]
    /\ requests' = [s \in Slots |-> NoRequest]
    /\ login' = "idle" /\ switch' = NoSwitch

Init ==
    /\ issued = <<>> /\ live = {} /\ guestRow = "none"
    /\ cookie = 0 /\ session = 0 /\ loading = TRUE
    /\ path = "login"
    /\ apiToken = 0 /\ handled = FALSE
    /\ hook = Unseen /\ timer = Disarmed
    /\ leaving = [h \in Handlers |-> "idle"]
    /\ requests = [s \in Slots |-> NoRequest]
    /\ login = "idle" /\ switch = NoSwitch
    /\ faults = 0 /\ reloads = 0

\* Mutant of Issue: the token is accepted but not entered in the table of tokens.
IssueUnnumbered(org) ==
    /\ Len(issued) < MaxTokens
    /\ live' = live \cup {Len(issued) + 1}
    /\ UNCHANGED issued

Issue(org) ==
    /\ Len(issued) < MaxTokens
    /\ issued' = Append(issued, org)
    /\ live' = live \cup {Len(issued) + 1}

Lose ==
    /\ faults < MaxFaults
    /\ faults' = faults + 1
    /\ UNCHANGED reloads

-----------------------------------------------------------------------------
\* The server.

\* The guest's time is up: get_current_user answers 401 to all their tokens.
GuestExpires ==
    /\ guestRow = "live"
    /\ guestRow' = "expired"
    /\ live' = {t \in live : ~IsGuest(t)}
    /\ UNCHANGED <<issued, cookie, react, client, effects, calls, bounds>>

\* cleanup_expired_guests, after the grace period.
GuestCleanup ==
    /\ guestRow = "expired"
    /\ guestRow' = "none"
    /\ UNCHANGED <<issued, live, cookie, react, client, effects, calls, bounds>>

\* The role of the user changes, or the token reaches its exp.
TokenDies(t) ==
    /\ t \in live /\ ~IsGuest(t)
    /\ live' = live \ {t}
    /\ UNCHANGED <<issued, guestRow, cookie, react, client, effects, calls, bounds>>

-----------------------------------------------------------------------------
\* SessionProvider, and the effects that follow it.

\* _getSession on mount, on focus and on a broadcast of another tab; a lost
\* answer reads as no session.
ReadSession ==
    /\ EffectsRan
    /\ loading' = FALSE
    /\ \/ session' = cookie /\ UNCHANGED bounds
       \/ session' = 0 /\ Lose
    /\ UNCHANGED <<server, cookie, path, client, effects, calls>>

\* Mutant of RunEffects: the token is not cleared when the session has ended.
RunEffectsKeepToken ==
    /\ ~EffectsRan
    /\ hook' = IF path = "app" THEN Seen ELSE hook
    /\ apiToken' = IF hook' # hook /\ Status = "authenticated" THEN session ELSE apiToken
    /\ timer' = IF timer.for = Seen THEN timer
                ELSE [for |-> Seen, armed |-> Status = "authenticated" /\ IsGuest(session)]
    /\ UNCHANGED <<server, cookie, react, handled, calls, bounds>>

\* React runs the effects of a render together: useAuthenticatedApi's, mounted
\* with every page, on [session?.accessToken, status], and the guest timer of
\* AuthSessionGuard on [guestExpiresAt, accountType, status].
RunEffects ==
    /\ ~EffectsRan
    /\ hook' = IF path = "app" THEN Seen ELSE hook
    /\ apiToken' = CASE hook' = hook \/ Status = "loading" -> apiToken
                     [] hook' # hook /\ Status = "authenticated" -> session
                     [] hook' # hook /\ Status = "unauthenticated" -> 0
    /\ timer' = IF timer.for = Seen THEN timer
                ELSE [for |-> Seen, armed |-> Status = "authenticated" /\ IsGuest(session)]
    /\ UNCHANGED <<server, cookie, react, handled, calls, bounds>>

\* AuthSessionGuard's effect: nobody stays on a protected page signed out.
GuardRedirect ==
    /\ path = "app" /\ Status = "unauthenticated"
    /\ path' = "login"
    /\ hook' = Unseen
    /\ UNCHANGED <<server, cookie, session, loading, client, timer, calls, bounds>>

\* onForceSignout: the token goes at once, the cookie when signOut's POST is served.
StartLeaving(h) ==
    /\ leaving[h] = "idle"
    /\ leaving' = [leaving EXCEPT ![h] = "posting"]

TimerFires(h) ==
    /\ timer.armed /\ timer.for.token \notin live
    /\ timer' = [timer EXCEPT !.armed = FALSE]
    /\ StartLeaving(h)
    /\ apiToken' = 0
    /\ UNCHANGED <<server, cookie, react, handled, hook, requests, login, switch, bounds>>

SignOutPosted(h) ==
    /\ leaving[h] = "posting"
    /\ cookie' = 0
    /\ leaving' = [leaving EXCEPT ![h] = "reading"]
    /\ UNCHANGED <<server, react, client, effects, requests, login, switch, bounds>>

\* signOut reads the session again before it returns.
SignedOut(h) ==
    /\ leaving[h] = "reading" /\ EffectsRan
    /\ session' = cookie /\ loading' = FALSE
    /\ leaving' = [leaving EXCEPT ![h] = "returning"]
    /\ UNCHANGED <<server, cookie, path, client, effects, requests, login, switch, bounds>>

\* Mutant of SignOutLost: no `finally`, the handler stops at the failed signOut.
SignOutGivenUp(h) ==
    /\ leaving[h] = "posting"
    /\ Lose
    /\ leaving' = [leaving EXCEPT ![h] = "idle"]
    /\ UNCHANGED <<server, cookie, react, client, effects, requests, login, switch>>

\* The POST is lost: cookie and session stay.
SignOutLost(h) ==
    /\ leaving[h] = "posting"
    /\ Lose
    /\ leaving' = [leaving EXCEPT ![h] = "returning"]
    /\ UNCHANGED <<server, cookie, react, client, effects, requests, login, switch>>

\* `finally`: router.replace("/auth/login"), signed out or not.
LeavePage(h) ==
    /\ leaving[h] = "returning"
    /\ leaving' = [leaving EXCEPT ![h] = "idle"]
    /\ path' = "login" /\ hook' = Unseen
    /\ UNCHANGED <<server, cookie, session, loading, client, timer, requests, login,
                   switch, bounds>>

-----------------------------------------------------------------------------
\* Requests through the ApiClient.

\* The request interceptor puts the present token on the request.
Send(s) ==
    /\ path = "app" /\ ~requests[s].active
    /\ requests' = [requests EXCEPT ![s] = [active |-> TRUE, token |-> apiToken, tries |-> 0]]
    /\ UNCHANGED <<server, cookie, react, client, effects, leaving, login, switch, bounds>>

AnswerOk(s) ==
    /\ requests[s].active /\ requests[s].token \in live
    /\ requests' = [requests EXCEPT ![s] = NoRequest]
    /\ UNCHANGED <<server, cookie, react, client, effects, leaving, login, switch, bounds>>

\* handleAuthenticationFailure: clear the token; at most one event in 1.5 s.
AuthenticationFails ==
    /\ apiToken' = 0
    /\ handled' = TRUE
    /\ IF handled THEN UNCHANGED leaving ELSE \E h \in Handlers : StartLeaving(h)

Answer401(s) ==
    /\ requests[s].active /\ requests[s].token \notin live
    /\ AuthenticationFails
    /\ requests' = [requests EXCEPT ![s] = NoRequest]
    /\ UNCHANGED <<server, cookie, react, effects, login, switch, bounds>>

\* The response interceptor sends a request again after a network error or a
\* 5xx; the request interceptor then replaces its token by the present one,
\* if there is one.
MaxRetries == 2

AnswerLost(s) ==
    LET sent == requests[s] IN
    /\ sent.active
    /\ Lose
    /\ requests' = [requests EXCEPT ![s] =
           IF sent.tries < MaxRetries
           THEN [sent EXCEPT !.tries = sent.tries + 1,
                             !.token = IF apiToken # 0 THEN apiToken ELSE sent.token]
           ELSE NoRequest]
    /\ UNCHANGED <<server, cookie, react, client, effects, leaving, login, switch>>

HandledTimeout ==
    /\ handled
    /\ handled' = FALSE
    /\ UNCHANGED <<server, cookie, react, apiToken, effects, calls, bounds>>

-----------------------------------------------------------------------------
\* The sign-in page.

\* authorize runs on the server and answers with the cookie.  A guest of this
\* browser is resumed while their row is live; while it is expired the insert of
\* a second row with the same browser_key fails.
Authorize(org) ==
    /\ org = Sandbox => guestRow # "expired"
    /\ Issue(org)
    /\ guestRow' = IF org = Sandbox THEN "live" ELSE guestRow
    /\ cookie' = Len(issued) + 1

SignIn(org) ==
    /\ path = "login" /\ login = "idle"
    /\ Authorize(org)
    /\ login' = "reading"
    /\ UNCHANGED <<react, client, effects, leaving, requests, switch, bounds>>

\* signIn reads the session for the provider.
SignInReads ==
    /\ login = "reading" /\ EffectsRan
    /\ session' = cookie /\ loading' = FALSE
    /\ login' = "checking"
    /\ UNCHANGED <<server, cookie, path, client, effects, leaving, requests, switch, bounds>>

\* getSession() of the form: to the dashboard if there is a session.
SignInEnters ==
    /\ login = "checking"
    /\ login' = "idle"
    /\ path' = IF cookie # 0 THEN "app" ELSE path
    /\ UNCHANGED <<server, cookie, session, loading, client, effects, leaving, requests,
                   switch, bounds>>

-----------------------------------------------------------------------------
\* OrganizationSwitcher.

AskSwitch(org) ==
    /\ path = "app" /\ Status = "authenticated" /\ ~IsGuest(session)
    /\ switch.phase = "idle" /\ issued[session] # org
    /\ switch' = [phase |-> "posting", token |-> apiToken, org |-> org]
    /\ UNCHANGED <<server, cookie, react, client, effects, leaving, requests, login, bounds>>

\* switchOrganization sets the new token, then update() asks NextAuth to change
\* its session.
SwitchGranted ==
    /\ switch.phase = "posting" /\ switch.token \in live
    /\ Issue(switch.org)
    /\ apiToken' = Len(issued) + 1
    /\ loading' = TRUE
    /\ switch' = [switch EXCEPT !.phase = "updating"]
    /\ UNCHANGED <<guestRow, cookie, session, path, handled, effects, leaving, requests,
                   login, bounds>>

SwitchRefused ==
    /\ switch.phase = "posting" /\ switch.token \notin live
    /\ AuthenticationFails
    /\ switch' = NoSwitch
    /\ UNCHANGED <<server, cookie, react, effects, requests, login, bounds>>

\* The jwt callback takes a token from a sign-in only: the session that comes
\* back from update() is the one of the cookie.
SwitchUpdated ==
    /\ switch.phase = "updating" /\ EffectsRan
    /\ loading' = FALSE
    /\ \/ session' = (IF cookie # 0 THEN cookie ELSE session) /\ UNCHANGED bounds
       \/ UNCHANGED session /\ Lose
    /\ switch' = NoSwitch
    /\ UNCHANGED <<server, cookie, path, client, effects, leaving, requests, login>>

-----------------------------------------------------------------------------
\* The user, and other tabs.

CountReload ==
    /\ reloads < MaxReloads
    /\ reloads' = reloads + 1
    /\ UNCHANGED faults

\* A link: a new page mounts; the proxy sends a browser without cookie to the
\* sign-in page, and the guest banner leads there with the guest's cookie kept.
OpenPage(to) ==
    /\ CountReload /\ login = "idle"
    /\ path' = IF cookie # 0 THEN to ELSE "login"
    /\ hook' = Unseen
    /\ UNCHANGED <<server, cookie, session, loading, client, timer, calls>>

Reload ==
    /\ CountReload
    /\ path' = IF cookie # 0 THEN path ELSE "login"
    /\ LoadTab
    /\ UNCHANGED <<server, cookie>>

\* handleLogout of the header: signOut with a callbackUrl loads a fresh page.
Logout ==
    /\ path = "app"
    /\ CountReload
    /\ cookie' = 0 /\ path' = "login"
    /\ LoadTab
    /\ UNCHANGED server

\* Another tab of the browser signs out, or signs in as somebody else.
OtherTab ==
    /\ CountReload
    /\ \/ cookie' = 0 /\ UNCHANGED server
       \/ \E org \in {Home, Sandbox} : Authorize(org)
    /\ UNCHANGED <<react, client, effects, calls>>

Next ==
    \/ GuestExpires \/ GuestCleanup \/ \E t \in Tokens : TokenDies(t)
    \/ ReadSession \/ RunEffects \/ GuardRedirect
    \/ \E h \in Handlers : TimerFires(h) \/ SignOutPosted(h) \/ SignOutLost(h) \/ SignedOut(h)
                         \/ LeavePage(h)
    \/ \E s \in Slots : Send(s) \/ AnswerOk(s) \/ Answer401(s) \/ AnswerLost(s)
    \/ HandledTimeout
    \/ \E org \in {Home, Sandbox} : SignIn(org)
    \/ SignInReads \/ SignInEnters
    \/ \E org \in Orgs : AskSwitch(org)
    \/ SwitchGranted \/ SwitchRefused \/ SwitchUpdated
    \/ \E to \in {"app", "login"} : OpenPage(to)
    \/ Reload \/ Logout \/ OtherTab

\* Effects, timers and awaited calls go on; users and faults need not act.
Fairness ==
    /\ WF_vars(loading /\ ReadSession) /\ WF_vars(RunEffects)
    /\ WF_vars(GuardRedirect)
    /\ \A h \in Handlers : /\ WF_vars(TimerFires(h))
                           /\ WF_vars(SignOutPosted(h)) /\ WF_vars(SignedOut(h))
                           /\ WF_vars(LeavePage(h))

Spec == Init /\ [][Next]_vars /\ Fairness

-----------------------------------------------------------------------------
Phases == {"idle", "posting", "reading", "returning"}
Statuses == {"unmounted", "loading", "authenticated", "unauthenticated"}
Deps == [status : Statuses, token : 0..Len(issued)]

TypeOK ==
    /\ issued \in Seq(Orgs \cup {Sandbox}) /\ live \subseteq Tokens
    /\ guestRow \in {"none", "live", "expired"}
    /\ cookie \in 0..Len(issued) /\ session \in 0..Len(issued) /\ apiToken \in 0..Len(issued)
    /\ loading \in BOOLEAN /\ handled \in BOOLEAN
    /\ path \in {"login", "app"}
    /\ hook \in Deps
    /\ timer \in [for : Deps, armed : BOOLEAN]
    /\ leaving \in [Handlers -> Phases]
    /\ requests \in [Slots -> [active : BOOLEAN, token : 0..Len(issued), tries : 0..MaxRetries]]
    /\ login \in {"idle", "reading", "checking"}
    /\ switch \in [phase : {"idle", "posting", "updating"}, token : 0..Len(issued), org : Orgs]
    /\ faults \in 0..MaxFaults /\ reloads \in 0..MaxReloads

\* Once the effects of a page have run, ApiClient sends the token of the session
\* on display or none at all, whatever sign-ins, switches and expiries overlapped
\* (useAuthenticatedApi: "Set token in API client whenever session updates").
TokenMatchesSession ==
    path = "app" /\ hook = Seen /\ ~loading => apiToken \in {0, session}

\* A guest whose time is up while a page watches them is brought to the sign-in
\* page, whatever else is in flight (AuthSessionGuard's timer).
DeadGuestLeaves ==
    \A t \in 1..MaxTokens :
        (timer.armed /\ timer.for.token = t /\ t \notin live)
            ~> (path = "login" \/ session \notin {0, t})
================================================================================
