------------------------------ MODULE Gateway ------------------------------
(***************************************************************************)
(* The gateway's HTTP requests: platform sign-in with a browser, the       *)
(* server-side sessions it opens, the forms that act with them, and the    *)
(* Tesla authorization a form starts.  Two instances serve requests at the *)
(* same time, so responses, and the cookies they set, reach a browser in   *)
(* any order.  What a form or a bearer request does for its user is the    *)
(* business of TeslaConnection, TelemetryControl and CommandAudit.         *)
(***************************************************************************)
EXTENDS Naturals

CONSTANTS
    Browsers,   \* browsers of people who use the onboarding pages
    Identities, \* identities that the OIDC provider signs in
    Logins,     \* sign-in states, each with its own binding cookie
    Sessions,   \* session tokens, each with its own CSRF token
    Grants,     \* Tesla OAuth states
    Handlers,   \* requests that are served at the same time
    None

ASSUME NoneAssumption ==
    None \notin Logins \cup Sessions \cup Grants \cup Identities

VARIABLES
    allowed,        \* identities that the allowlist resolves
    login,          \* per sign-in state, "unused", "pending" or "gone"
    startedIn,      \* per sign-in state, the browser that got its cookie
    signedIn,       \* per sign-in state, who the provider's tokens name
    sessions,       \* session tokens that are stored
    openedBy,       \* per session token, the sign-in that opened it
    grant,          \* per Tesla state, "unused", "pending" or "gone"
    starter,        \* per Tesla state, the session it is bound to; None for API
    loginCookie,    \* per browser, the binding cookie it holds
    sessionCookie,  \* per browser, the session cookie it holds
    pages,          \* per browser, the sessions its open pages were made for
    step,           \* per handler, its next call
    kind,           \* per handler, the route
    browser,        \* per handler, where the request comes from
    cookie,         \* per handler, the cookie it presented, or made
    about,          \* per handler, the state or the page it is about
    late,           \* history: it came with a session signed out before
    outcome,        \* per handler, how it ends
    signedOut,      \* history: the sessions that a logout has ended
    connected       \* history: Tesla states and sessions of completed grants

identity   == <<allowed, signedIn>>
logins     == <<login, startedIn>>
stored     == <<sessions, openedBy>>
grants     == <<grant, starter>>
browsers   == <<loginCookie, sessionCookie, pages>>
request    == <<kind, browser, about, late>>
history    == <<signedOut, connected>>
vars == <<identity, logins, stored, grants, browsers, step, request, cookie,
          outcome, history>>

Forms == {"logout", "connect", "change"}
Kinds == {"sign_in", "callback", "page", "tesla", "bearer"} \cup Forms
Steps == {"idle", "create", "consume", "exchange", "open", "session",
          "token", "form", "act", "redeem", "complete", "reply"}

TypeOK ==
    /\ allowed \subseteq Identities
    /\ login \in [Logins -> {"unused", "pending", "gone"}]
    /\ startedIn \in [Logins -> Browsers \cup {None}]
    /\ signedIn \in [Logins -> Identities \cup {None}]
    /\ sessions \subseteq Sessions
    /\ openedBy \in [Sessions -> Logins \cup {None}]
    /\ grant \in [Grants -> {"unused", "pending", "gone"}]
    /\ starter \in [Grants -> Sessions \cup {None}]
    /\ loginCookie \in [Browsers -> Logins \cup {None}]
    /\ sessionCookie \in [Browsers -> Sessions \cup {None}]
    /\ pages \in [Browsers -> SUBSET Sessions]
    /\ step \in [Handlers -> Steps]
    /\ kind \in [Handlers -> Kinds]
    /\ browser \in [Handlers -> Browsers \cup {None}]
    /\ cookie \in [Handlers -> Logins \cup Sessions \cup {None}]
    /\ about \in [Handlers -> Logins \cup Sessions \cup Grants \cup Identities
                              \cup {None}]
    /\ outcome \in [Handlers -> {"none", "done", "failed", "signed_out"}]
    /\ late \in [Handlers -> BOOLEAN]
    /\ signedOut \subseteq Sessions
    /\ connected \subseteq Grants \X (Sessions \cup {None})

Init ==
    /\ allowed \in SUBSET Identities
    /\ login = [l \in Logins |-> "unused"]
    /\ startedIn = [l \in Logins |-> None]
    /\ signedIn = [l \in Logins |-> None]
    /\ sessions = {}
    /\ openedBy = [s \in Sessions |-> None]
    /\ grant = [g \in Grants |-> "unused"]
    /\ starter = [g \in Grants |-> None]
    /\ loginCookie = [b \in Browsers |-> None]
    /\ sessionCookie = [b \in Browsers |-> None]
    /\ pages = [b \in Browsers |-> {}]
    /\ step = [h \in Handlers |-> "idle"]
    /\ kind = [h \in Handlers |-> "page"]
    /\ browser = [h \in Handlers |-> None]
    /\ cookie = [h \in Handlers |-> None]
    /\ about = [h \in Handlers |-> None]
    /\ outcome = [h \in Handlers |-> "none"]
    /\ late = [h \in Handlers |-> FALSE]
    /\ signedOut = {}
    /\ connected = {}

Goto(h, s) == step' = [step EXCEPT ![h] = s]

\* The response sets a cookie or is a page with forms.
End(h, o) ==
    /\ Goto(h, "reply")
    /\ outcome' = [outcome EXCEPT ![h] = o]
    /\ UNCHANGED <<request, cookie>>

\* Any other response changes nothing in the browser.
Leave(h) ==
    /\ Goto(h, "idle")
    /\ kind' = [kind EXCEPT ![h] = "page"]
    /\ browser' = [browser EXCEPT ![h] = None]
    /\ about' = [about EXCEPT ![h] = None]
    /\ cookie' = [cookie EXCEPT ![h] = None]
    /\ outcome' = [outcome EXCEPT ![h] = "none"]
    /\ late' = [late EXCEPT ![h] = FALSE]

Proceed(h, s) == Goto(h, s) /\ UNCHANGED <<request, cookie, outcome>>

(***************************************************************************)
(* The operator's commands decide which identities resolve to a user.      *)
(***************************************************************************)
Allowlist ==
    /\ allowed' \in SUBSET Identities
    /\ allowed' # allowed
    /\ UNCHANGED <<signedIn, logins, stored, grants, browsers, step, request,
                   cookie, outcome, history>>

(***************************************************************************)
(* A request arrives, with the cookies its browser holds.  The body has    *)
(* been read and bounded before any route runs.                            *)
(***************************************************************************)
Arrive(h, b, k, a, c, s) ==
    /\ step[h] = "idle"
    /\ Goto(h, s)
    /\ kind' = [kind EXCEPT ![h] = k]
    /\ browser' = [browser EXCEPT ![h] = b]
    /\ about' = [about EXCEPT ![h] = a]
    /\ cookie' = [cookie EXCEPT ![h] = c]
    /\ late' = [late EXCEPT ![h] = c \in signedOut]
    /\ UNCHANGED <<identity, logins, stored, grants, browsers, outcome, history>>

ArriveSignIn(h, b) == Arrive(h, b, "sign_in", None, None, "create")

\* The provider's redirect, opened once, again, or in another browser.
ArriveCallback(h, b) ==
    \E l \in Logins :
       /\ login[l] # "unused"
       /\ Arrive(h, b, "callback", l, loginCookie[b], "consume")

ArrivePage(h, b) == Arrive(h, b, "page", None, sessionCookie[b], "session")

\* A form of a page that may have been open for a while.
ArriveForm(h, b) ==
    \E k \in Forms, p \in pages[b] :
       Arrive(h, b, k, p, sessionCookie[b], "session")

\* Tesla's redirect.
ArriveTesla(h, b) ==
    \E g \in Grants :
       /\ grant[g] # "unused"
       /\ Arrive(h, b, "tesla", g, sessionCookie[b], "session")

\* A REST or MCP request with a bearer token of identity i.
ArriveBearer(h) ==
    \E i \in Identities : Arrive(h, None, "bearer", i, None, "token")

(***************************************************************************)
(* Platform sign-in.                                                       *)
(***************************************************************************)

\* A new state is stored, with the hash of a new binding token.
PutLogin(l, b) ==
    /\ login[l] = "unused"
    /\ login' = [login EXCEPT ![l] = "pending"]
    /\ startedIn' = [startedIn EXCEPT ![l] = b]

\* start
CreateLogin(h) ==
    /\ step[h] = "create"
    /\ \E l \in Logins :
          /\ PutLogin(l, browser[h])
          /\ about' = [about EXCEPT ![h] = l]
    /\ Goto(h, "reply")
    /\ outcome' = [outcome EXCEPT ![h] = "done"]
    /\ UNCHANGED <<identity, stored, grants, browsers, kind, browser, late,
                   cookie, history>>

\* (variant: the state is not deleted)
TakeLoginKeeps(l) == login[l] = "pending" /\ UNCHANGED login

TakeLogin(l) == login[l] = "pending" /\ login' = [login EXCEPT ![l] = "gone"]

\* (variant: any browser)
BoundToAny(h, l) == TRUE

BoundTo(h, l) == cookie[h] = l

\* After an error of the provider the state is only consumed.
Cancel(h, l) == TakeLogin(l) /\ End(h, "failed")

\* _consume_login deletes the state before the binding is compared.  For a state
\* that is gone or past its time it raises, and the transaction rolls back.
ConsumeLogin(h) ==
    /\ step[h] = "consume"
    /\ LET l == about[h]
       IN  \/ /\ TakeLogin(l)
              /\ \/ BoundTo(h, l) /\ Proceed(h, "exchange")
                 \/ ~BoundTo(h, l) /\ End(h, "failed")
           \/ Cancel(h, l)
           \/ End(h, "failed") /\ UNCHANGED login
    /\ UNCHANGED <<identity, startedIn, stored, grants, browsers, history>>

\* exchange_code tells who has signed in at the provider.
SignIn(l, i) == signedIn' = [signedIn EXCEPT ![l] = i]

\* complete: then both tokens are verified, and resolve_or_bind.
Exchange(h) ==
    /\ step[h] = "exchange"
    /\ \/ \E i \in allowed : SignIn(about[h], i) /\ Proceed(h, "open")
       \/ End(h, "failed") /\ UNCHANGED signedIn
    /\ UNCHANGED <<allowed, logins, stored, grants, browsers, history>>

\* A new session is stored.
PutSession(s, l) ==
    /\ openedBy[s] = None
    /\ sessions' = sessions \cup {s}
    /\ openedBy' = [openedBy EXCEPT ![s] = l]

OpenSession(h) ==
    /\ step[h] = "open"
    /\ \E s \in Sessions :
          /\ PutSession(s, about[h])
          /\ cookie' = [cookie EXCEPT ![h] = s]
    /\ Goto(h, "reply")
    /\ outcome' = [outcome EXCEPT ![h] = "done"]
    /\ UNCHANGED <<identity, logins, grants, browsers, request, history>>

(***************************************************************************)
(* Authentication of every other request.                                  *)
(***************************************************************************)
\* Without a session, a Tesla redirect goes on without a binding, the onboarding
\* page offers to sign in, and everything else takes the session cookie away.
NoSession(h) ==
    \/ /\ kind[h] = "tesla"
       /\ Goto(h, "redeem")
       /\ cookie' = [cookie EXCEPT ![h] = None]
       /\ UNCHANGED <<request, outcome>>
    \/ kind[h] = "page" /\ Leave(h)
    \/ kind[h] \in Forms \cup {"page"} /\ End(h, "signed_out")

\* resolve_or_bind of the identity that the session stores.
Resolves(s) == signedIn[openedBy[s]] \in allowed

Authentic(h) == cookie[h] \in sessions /\ Resolves(cookie[h])

\* authenticate_session: get_session, which deletes a session past its time, and
\* resolve_or_bind on each request anew.
Authenticate(h) ==
    /\ step[h] = "session"
    /\ \/ /\ Authentic(h)
          /\ UNCHANGED sessions
          /\ \/ kind[h] = "page"     /\ End(h, "done")
             \/ kind[h] \in Forms    /\ Proceed(h, "form")
             \/ kind[h] = "tesla"    /\ Proceed(h, "redeem")
       \/ ~Authentic(h) /\ NoSession(h) /\ UNCHANGED sessions
       \/ /\ cookie[h] \in sessions
          /\ sessions' = sessions \ {cookie[h]}
          /\ NoSession(h)
    /\ UNCHANGED <<identity, logins, openedBy, grants, browsers, history>>

\* authenticate_bearer: the token is valid and its identity resolves.
Bearer(h) == about[h] \in allowed

\* _authorize_api, or the token verifier of the MCP server; the token may be
\* invalid.
Authorize(h) ==
    /\ step[h] = "token"
    /\ \/ Bearer(h) /\ Proceed(h, "act")
       \/ Leave(h)
    /\ UNCHANGED <<identity, logins, stored, grants, browsers, history>>

(***************************************************************************)
(* Forms and bearer requests.                                              *)
(***************************************************************************)

CsrfMatches(h) == about[h] = cookie[h]

\* The form's body and its CSRF token.
Form(h) ==
    /\ step[h] = "form"
    /\ \/ CsrfMatches(h) /\ Proceed(h, "act")
       \/ Leave(h)
    /\ UNCHANGED <<identity, logins, stored, grants, browsers, history>>

\* (variant: only the browser's cookie is taken away)
EndSessionOfBrowser(s) == UNCHANGED sessions

\* delete_session
EndSession(s) == sessions' = sessions \ {s}

Logout(h) ==
    /\ step[h] = "act" /\ kind[h] = "logout"
    /\ EndSession(cookie[h])
    /\ signedOut' = signedOut \cup {cookie[h]}
    /\ End(h, "done")
    /\ UNCHANGED <<identity, logins, openedBy, grants, browsers, connected>>

Bind(h, binding) ==
    \E g \in Grants :
       /\ grant[g] = "unused"
       /\ grant' = [grant EXCEPT ![g] = "pending"]
       /\ starter' = [starter EXCEPT ![g] = binding]

\* The start of Tesla's authorization, bound to the form's session.
Connect(h) ==
    /\ step[h] = "act" /\ kind[h] = "connect"
    /\ Bind(h, cookie[h])
    /\ Leave(h)
    /\ UNCHANGED <<identity, logins, stored, browsers, history>>

\* A pairing refresh or a telemetry operation.
Change(h) ==
    /\ step[h] = "act" /\ kind[h] = "change"
    /\ Leave(h)
    /\ UNCHANGED <<identity, logins, stored, grants, browsers, history>>

\* A bearer request: what it starts at Tesla is bound to no session.
Api(h) ==
    /\ step[h] = "act" /\ kind[h] = "bearer"
    /\ Bind(h, None) \/ UNCHANGED grants
    /\ Leave(h)
    /\ UNCHANGED <<identity, logins, stored, browsers, history>>

(***************************************************************************)
(* Tesla's redirect.                                                       *)
(***************************************************************************)

\* (variant: the binding is not compared)
SameStarterAny(h, g) == TRUE

SameStarter(h, g) == starter[g] \in {None, cookie[h]}

\* callback, or decline: both consume the state first, unless it is past its
\* time.
Redeem(h) ==
    /\ step[h] = "redeem"
    /\ LET g == about[h]
       IN  \/ /\ grant[g] = "pending"
              /\ grant' = [grant EXCEPT ![g] = "gone"]
              /\ \/ SameStarter(h, g) /\ Proceed(h, "complete")
                 \/ Leave(h)
           \/ Leave(h) /\ UNCHANGED grant
    /\ UNCHANGED <<identity, logins, stored, starter, browsers, history>>

Complete(h) ==
    /\ step[h] = "complete"
    /\ connected' = connected \cup {<<about[h], cookie[h]>>}
    /\ Leave(h)
    /\ UNCHANGED <<identity, logins, stored, grants, browsers, signedOut>>

(***************************************************************************)
(* A call that fails otherwise is an error that sets no cookie, and any    *)
(* response may be lost on its way.                                        *)
(***************************************************************************)
Fail(h) ==
    /\ step[h] # "idle"
    /\ Leave(h)
    /\ UNCHANGED <<identity, logins, stored, grants, browsers, history>>

\* The response reaches the browser.
SetCookies(h) ==
    LET b == browser[h]
    IN  /\ loginCookie' =
             IF kind[h] = "sign_in" THEN [loginCookie EXCEPT ![b] = about[h]]
             ELSE IF kind[h] = "callback" THEN [loginCookie EXCEPT ![b] = None]
             ELSE loginCookie
        /\ sessionCookie' =
             IF kind[h] = "callback" /\ outcome[h] = "done"
             THEN [sessionCookie EXCEPT ![b] = cookie[h]]
             ELSE IF kind[h] = "logout" \/ outcome[h] = "signed_out"
             THEN [sessionCookie EXCEPT ![b] = None]
             ELSE sessionCookie

Reply(h) ==
    /\ step[h] = "reply"
    /\ SetCookies(h)
    /\ pages' = IF kind[h] = "page" /\ outcome[h] = "done"
                THEN [pages EXCEPT ![browser[h]] = @ \cup {cookie[h]}]
                ELSE pages
    /\ Leave(h)
    /\ UNCHANGED <<identity, logins, stored, grants, history>>

Receive(h, b) ==
    \/ ArriveSignIn(h, b) \/ ArriveCallback(h, b) \/ ArrivePage(h, b)
    \/ ArriveForm(h, b) \/ ArriveTesla(h, b)

Serve(h) ==
    \/ CreateLogin(h) \/ ConsumeLogin(h) \/ Exchange(h) \/ OpenSession(h)
    \/ Authenticate(h) \/ Authorize(h) \/ Form(h)
    \/ Logout(h) \/ Connect(h) \/ Change(h) \/ Api(h)
    \/ Redeem(h) \/ Complete(h) \/ Fail(h) \/ Reply(h)

Next ==
    \/ Allowlist
    \/ \E h \in Handlers :
          Serve(h) \/ ArriveBearer(h) \/ \E b \in Browsers : Receive(h, b)

Spec == Init /\ [][Next]_vars

(***************************************************************************)
(* Properties.                                                             *)
(***************************************************************************)

\* A browser is only ever given a session of a sign-in that was started in it,
\* whichever redirects are opened where and in whatever order responses arrive.
SessionOfItsBrowser ==
    \A b \in Browsers :
       sessionCookie[b] # None => startedIn[openedBy[sessionCookie[b]]] = b

\* A sign-in opens at most one session, also when its redirect is served twice
\* at the same time.
LoginOpensOneSession ==
    \A s1, s2 \in Sessions :
       openedBy[s1] # None /\ openedBy[s1] = openedBy[s2] => s1 = s2

\* Who has signed out stays signed out.  A request that comes with the session
\* afterwards, from another tab, ahead of the logout's answer or because that
\* answer was lost, acts with no form, is shown no page, and completes no Tesla
\* authorization that was started with a session.
SignedOutStaysOut ==
    \A h \in Handlers : late[h] =>
       /\ ~(step[h] = "act" /\ kind[h] \in Forms)
       /\ ~(step[h] = "reply" /\ kind[h] = "page" /\ outcome[h] = "done")
       /\ step[h] = "complete" => starter[about[h]] = None

\* A Tesla authorization that a browser started is completed with the session
\* that started it and with no other one.
GrantOfItsStarter ==
    \A c \in connected : starter[c[1]] # None => starter[c[1]] = c[2]
=============================================================================
