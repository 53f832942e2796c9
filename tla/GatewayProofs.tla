----------------------------- MODULE GatewayProofs -----------------------------
(***************************************************************************)
(* Theorems about Gateway, for any browsers, identities, sign-ins,         *)
(* sessions, Tesla states and any number of requests served at once.       *)
(***************************************************************************)
EXTENDS Gateway, TLAPS

\* A redirect whose state was consumed and whose session is not yet stored.
InFlight(h) == step[h] \in {"exchange", "open"}

\* What is known of a request, by its next step and its route.
SignInFacts(h) ==
    /\ step[h] = "create" => kind[h] = "sign_in" /\ browser[h] \in Browsers
    /\ step[h] = "reply" /\ kind[h] = "sign_in" =>
         /\ about[h] \in Logins
         /\ login[about[h]] # "unused"
         /\ startedIn[about[h]] = browser[h]
    /\ step[h] = "consume" =>
         /\ kind[h] = "callback"
         /\ about[h] \in Logins
         /\ login[about[h]] # "unused"
         /\ cookie[h] = about[h] => startedIn[about[h]] = browser[h]
    /\ InFlight(h) =>
         /\ kind[h] = "callback"
         /\ about[h] \in Logins
         /\ login[about[h]] = "gone"
         /\ startedIn[about[h]] = browser[h]
    /\ step[h] = "reply" /\ kind[h] = "callback" /\ outcome[h] = "done" =>
         /\ cookie[h] \in Sessions
         /\ openedBy[cookie[h]] # None
         /\ startedIn[openedBy[cookie[h]]] = browser[h]

SessionFacts(h) ==
    /\ step[h] = "session" => kind[h] \in Forms \cup {"page", "tesla"}
    /\ step[h] = "form" => kind[h] \in Forms
    /\ step[h] = "token" => kind[h] = "bearer"
    /\ step[h] = "act" => kind[h] \in Forms \cup {"bearer"}
    /\ step[h] \in {"session", "form", "redeem", "complete"} =>
         cookie[h] \in Sessions \cup {None}
    /\ step[h] = "form" => cookie[h] \in Sessions
    /\ step[h] = "act" /\ kind[h] \in Forms =>
         cookie[h] \in Sessions
    /\ step[h] = "reply" /\ kind[h] = "page" /\ outcome[h] = "done" =>
         cookie[h] \in Sessions

GrantFacts(h) ==
    /\ step[h] \in {"redeem", "complete"} => kind[h] = "tesla"
    /\ step[h] \in {"session", "redeem", "complete"} /\ kind[h] = "tesla" =>
         about[h] \in Grants /\ grant[about[h]] # "unused"
    /\ step[h] = "complete" => starter[about[h]] \in {None, cookie[h]}

Facts(h) == SignInFacts(h) /\ SessionFacts(h) /\ GrantFacts(h)

\* What a browser holds comes from a sign-in that was started in it.
CookieFacts(b) ==
    /\ loginCookie[b] # None =>
         login[loginCookie[b]] # "unused" /\ startedIn[loginCookie[b]] = b
    /\ sessionCookie[b] # None =>
         /\ openedBy[sessionCookie[b]] # None
         /\ startedIn[openedBy[sessionCookie[b]]] = b

\* A sign-in is used once: by one redirect in flight or by one session.
UsedOnce ==
    /\ \A h, g \in Handlers :
         h # g /\ InFlight(h) /\ InFlight(g) => about[h] # about[g]
    /\ \A h \in Handlers, s \in Sessions :
         InFlight(h) /\ openedBy[s] # None => openedBy[s] # about[h]
    /\ \A s \in Sessions : openedBy[s] # None => login[openedBy[s]] = "gone"
    /\ LoginOpensOneSession

\* What redirects have completed.
HistoryInv ==
    \A c \in connected :
       grant[c[1]] # "unused" /\ starter[c[1]] \in {None, c[2]}

\* The inductive invariant.
GatewayInv ==
    /\ TypeOK
    /\ \A h \in Handlers : Facts(h)
    /\ \A b \in Browsers : CookieFacts(b)
    /\ UsedOnce
    /\ HistoryInv

\* Nothing has been started.
LEMMA InitGateway == Init => GatewayInv
  <1> SUFFICES ASSUME Init PROVE GatewayInv
    OBVIOUS
  <1>1. TypeOK
    BY DEF Init, TypeOK, Steps, Kinds
  <1>2. \A h \in Handlers : Facts(h)
    BY DEF Init, Facts, SignInFacts, SessionFacts, GrantFacts, InFlight
  <1>3. \A b \in Browsers : CookieFacts(b)
    BY DEF Init, CookieFacts
  <1>4. UsedOnce
    BY DEF Init, UsedOnce, InFlight, LoginOpensOneSession
  <1>5. HistoryInv
    BY DEF Init, HistoryInv
  <1> QED
    BY <1>1, <1>2, <1>3, <1>4, <1>5 DEF GatewayInv

(***************************************************************************)
(* Types.                                                                  *)
(***************************************************************************)

\* TypeOK in three parts: the requests, what is stored, the browsers.
HandlerTypes ==
    /\ step \in [Handlers -> Steps] /\ kind \in [Handlers -> Kinds]
    /\ browser \in [Handlers -> Browsers \cup {None}]
    /\ cookie \in [Handlers -> Logins \cup Sessions \cup {None}]
    /\ about \in [Handlers -> Logins \cup Sessions \cup Grants \cup Identities
                              \cup {None}]
    /\ outcome \in [Handlers -> {"none", "done", "failed", "signed_out"}]
    /\ late \in [Handlers -> BOOLEAN]

SharedTypes ==
    /\ allowed \subseteq Identities
    /\ login \in [Logins -> {"unused", "pending", "gone"}]
    /\ startedIn \in [Logins -> Browsers \cup {None}]
    /\ signedIn \in [Logins -> Identities \cup {None}]
    /\ sessions \subseteq Sessions
    /\ openedBy \in [Sessions -> Logins \cup {None}]
    /\ grant \in [Grants -> {"unused", "pending", "gone"}]
    /\ starter \in [Grants -> Sessions \cup {None}]
    /\ signedOut \subseteq Sessions
    /\ connected \subseteq Grants \X (Sessions \cup {None})

BrowserTypes ==
    /\ loginCookie \in [Browsers -> Logins \cup {None}]
    /\ sessionCookie \in [Browsers -> Sessions \cup {None}]
    /\ pages \in [Browsers -> SUBSET Sessions]

\* The type invariant in the three parts that are kept separately.
LEMMA Types ==
  /\ TypeOK <=> HandlerTypes /\ SharedTypes /\ BrowserTypes
  /\ TypeOK' <=> HandlerTypes' /\ SharedTypes' /\ BrowserTypes'
  BY DEF TypeOK, HandlerTypes, SharedTypes, BrowserTypes

(***************************************************************************)
(* A step of request h leaves the other requests alone, and what is stored *)
(* only ever moves forward.                                                *)
(***************************************************************************)
Own(h) ==
    \A g \in Handlers \ {h} :
       /\ step'[g] = step[g] /\ kind'[g] = kind[g] /\ browser'[g] = browser[g]
       /\ cookie'[g] = cookie[g] /\ about'[g] = about[g]
       /\ outcome'[g] = outcome[g] /\ late'[g] = late[g]

Forward ==
    /\ \A l \in Logins :
         /\ login[l] # "unused" =>
              login'[l] # "unused" /\ startedIn'[l] = startedIn[l]
         /\ login[l] = "gone" => login'[l] = "gone"
    /\ \A s \in Sessions : openedBy[s] # None => openedBy'[s] = openedBy[s]
    /\ \A g \in Grants : grant[g] # "unused" =>
         grant'[g] # "unused" /\ starter'[g] = starter[g]

\* The facts about a request survive the steps of the others.
LEMMA OthersKeepFacts ==
  ASSUME GatewayInv, NEW h \in Handlers, NEW g \in Handlers, g # h,
         Own(h), Forward
  PROVE  Facts(g)'
  <1>1. Facts(g) /\ TypeOK
    BY DEF GatewayInv
  <1>2. /\ step'[g] = step[g] /\ kind'[g] = kind[g] /\ browser'[g] = browser[g]
        /\ cookie'[g] = cookie[g] /\ about'[g] = about[g]
        /\ outcome'[g] = outcome[g]
    BY DEF Own
  <1>3. SignInFacts(g)'
    <2>1. step[g] = "reply" /\ kind[g] = "callback" /\ outcome[g] = "done" =>
            /\ openedBy'[cookie[g]] = openedBy[cookie[g]]
            /\ startedIn'[openedBy[cookie[g]]] = startedIn[openedBy[cookie[g]]]
            /\ openedBy[cookie[g]] # None
      BY <1>1, NoneAssumption
      DEF Facts, SignInFacts, Forward, TypeOK, GatewayInv, UsedOnce
    <2> QED
      BY <1>1, <1>2, <2>1 DEF Facts, SignInFacts, Forward, InFlight
  <1>4. SessionFacts(g)'
    BY <1>1, <1>2 DEF Facts, SessionFacts
  <1>5. GrantFacts(g)'
    BY <1>1, <1>2 DEF Facts, GrantFacts, Forward
  <1> QED
    BY <1>3, <1>4, <1>5 DEF Facts

\* The browsers' cookies stay true as long as they stay the same.
LEMMA CookiesKeep ==
  ASSUME GatewayInv, Forward, UNCHANGED <<loginCookie, sessionCookie>>
  PROVE  \A b \in Browsers : CookieFacts(b)'
  <1> SUFFICES ASSUME NEW b \in Browsers PROVE CookieFacts(b)'
    OBVIOUS
  <1>1. CookieFacts(b) /\ TypeOK /\ UsedOnce
    BY DEF GatewayInv
  <1>2. loginCookie[b] # None => loginCookie[b] \in Logins
    BY <1>1 DEF TypeOK
  <1>3. sessionCookie[b] # None => sessionCookie[b] \in Sessions
    BY <1>1 DEF TypeOK
  <1>4. sessionCookie[b] # None =>
          /\ openedBy[sessionCookie[b]] \in Logins
          /\ login[openedBy[sessionCookie[b]]] = "gone"
    BY <1>1, <1>3 DEF TypeOK, CookieFacts, UsedOnce
  <1> QED
    BY <1>1, <1>2, <1>3, <1>4 DEF CookieFacts, Forward

\* Neither does a step that starts, redeems and opens nothing.
LEMMA UsedOnceKeeps ==
  ASSUME GatewayInv, NEW h \in Handlers, Own(h),
         UNCHANGED <<login, openedBy>>,
         InFlight(h)' => InFlight(h) /\ about'[h] = about[h]
  PROVE  UsedOnce'
  <1>1. \A g \in Handlers : InFlight(g)' => InFlight(g) /\ about'[g] = about[g]
    BY DEF Own, InFlight
  <1> QED
    BY <1>1 DEF GatewayInv, UsedOnce, LoginOpensOneSession

\* What a step of request h is shown to do.
Keeps(h) ==
    /\ TypeOK' /\ Own(h) /\ Forward /\ Facts(h)'
    /\ \A b \in Browsers : CookieFacts(b)'
    /\ UsedOnce' /\ HistoryInv'

\* A step that opens nothing and sets no cookie.
LEMMA PlainKeeps ==
  ASSUME GatewayInv, NEW h \in Handlers, HandlerTypes', SharedTypes', Own(h),
         Forward, Facts(h)', HistoryInv',
         UNCHANGED <<login, openedBy, browsers>>,
         InFlight(h)' => InFlight(h) /\ about'[h] = about[h]
  PROVE  Keeps(h)
  <1> USE DEF browsers
  <1>1. TypeOK'
    BY Types DEF GatewayInv, BrowserTypes
  <1>2. \A b \in Browsers : CookieFacts(b)'
    BY CookiesKeep
  <1>3. UsedOnce'
    BY UsedOnceKeeps
  <1> QED
    BY <1>1, <1>2, <1>3 DEF Keeps

\* A step that changes no more than the request.
LEMMA QuietKeeps ==
  ASSUME GatewayInv, NEW h \in Handlers, HandlerTypes', Own(h), Facts(h)',
         UNCHANGED <<identity, logins, openedBy, grants, browsers, history>>,
         sessions' \subseteq sessions,
         InFlight(h)' => InFlight(h) /\ about'[h] = about[h]
  PROVE  Keeps(h)
  <1> USE DEF identity, logins, grants, history
  <1>1. SharedTypes'
    BY Types DEF GatewayInv, SharedTypes
  <1>2. Forward
    BY DEF Forward
  <1>3. HistoryInv'
    BY DEF GatewayInv, HistoryInv
  <1> QED
    BY <1>1, <1>2, <1>3, PlainKeeps

(***************************************************************************)
(* The ways a request moves on.                                            *)
(***************************************************************************)
LEMMA LeaveMoves ==
  ASSUME HandlerTypes, NEW h \in Handlers, Leave(h)
  PROVE  /\ HandlerTypes' /\ Own(h) /\ Facts(h)'
         /\ step'[h] = "idle" /\ ~InFlight(h)'
  <1>1. HandlerTypes'
    BY DEF Leave, Goto, HandlerTypes, Steps, Kinds
  <1>2. Own(h)
    BY DEF Leave, Goto, HandlerTypes, Own
  <1>3. step'[h] = "idle"
    BY DEF Leave, Goto, HandlerTypes
  <1>4. Facts(h)'
    BY <1>3 DEF Facts, SignInFacts, SessionFacts, GrantFacts, InFlight
  <1> QED
    BY <1>1, <1>2, <1>3, <1>4 DEF InFlight

\* A request that has its answer only waits to deliver it.
LEMMA EndMoves ==
  ASSUME HandlerTypes, NEW h \in Handlers,
         NEW o \in {"done", "failed", "signed_out"}, End(h, o)
  PROVE  /\ HandlerTypes' /\ Own(h)
         /\ step'[h] = "reply" /\ outcome'[h] = o /\ ~InFlight(h)'
         /\ UNCHANGED <<kind, browser, about, cookie, late>>
  <1>1. HandlerTypes'
    BY DEF End, Goto, HandlerTypes, Steps, request
  <1>2. Own(h)
    BY DEF End, Goto, HandlerTypes, Own, request
  <1>3. step'[h] = "reply" /\ outcome'[h] = o
    BY DEF End, Goto, HandlerTypes
  <1> QED
    BY <1>1, <1>2, <1>3 DEF InFlight, End, request

\* A request that goes on to its next call changes nothing else.
LEMMA ProceedMoves ==
  ASSUME HandlerTypes, NEW h \in Handlers, NEW s \in Steps, Proceed(h, s)
  PROVE  /\ HandlerTypes' /\ Own(h) /\ step'[h] = s
         /\ UNCHANGED <<kind, browser, about, cookie, outcome, late>>
  <1>1. HandlerTypes'
    BY DEF Proceed, Goto, HandlerTypes, request
  <1>2. Own(h)
    BY DEF Proceed, Goto, HandlerTypes, Own, request
  <1>3. step'[h] = s
    BY DEF Proceed, Goto, HandlerTypes
  <1> QED
    BY <1>1, <1>2, <1>3 DEF Proceed, request

(***************************************************************************)
(* Arrivals.                                                               *)
(***************************************************************************)
LEMMA ArriveMoves ==
  ASSUME HandlerTypes, NEW h \in Handlers, NEW b \in Browsers \cup {None},
         NEW k \in Kinds,
         NEW a \in Logins \cup Sessions \cup Grants \cup Identities \cup {None},
         NEW c \in Logins \cup Sessions \cup {None}, NEW s \in Steps,
         Arrive(h, b, k, a, c, s)
  PROVE  /\ HandlerTypes' /\ Own(h)
         /\ step'[h] = s /\ kind'[h] = k /\ browser'[h] = b
         /\ about'[h] = a /\ cookie'[h] = c /\ outcome' = outcome
         /\ late'[h] = (c \in signedOut)
         /\ UNCHANGED <<identity, logins, stored, grants, browsers, history>>
  <1> USE DEF Arrive, Goto
  <1>1. HandlerTypes'
    BY DEF HandlerTypes
  <1>2. Own(h)
    BY DEF HandlerTypes, Own
  <1>3. /\ step'[h] = s /\ kind'[h] = k /\ browser'[h] = b
        /\ about'[h] = a /\ cookie'[h] = c /\ late'[h] = (c \in signedOut)
    BY DEF HandlerTypes
  <1> QED
    BY <1>1, <1>2, <1>3

\* A request arrives with cookies that its browser holds.
LEMMA ArriveKeeps ==
  ASSUME GatewayInv, NEW h \in Handlers, NEW b \in Browsers, Receive(h, b)
  PROVE  Keeps(h)
  <1> USE DEF stored
  <1>0. /\ TypeOK /\ HandlerTypes /\ CookieFacts(b)
        /\ loginCookie[b] \in Logins \cup {None}
        /\ sessionCookie[b] \in Sessions \cup {None}
        /\ pages[b] \subseteq Sessions
    BY Types DEF GatewayInv, TypeOK
  <1>1. CASE ArriveSignIn(h, b)
    <2>1. /\ HandlerTypes' /\ Own(h) /\ step'[h] = "create"
          /\ kind'[h] = "sign_in" /\ browser'[h] = b
          /\ UNCHANGED <<identity, logins, stored, grants, browsers, history>>
      <3>1. Arrive(h, b, "sign_in", None, None, "create")
        BY <1>1 DEF ArriveSignIn
      <3>2. "sign_in" \in Kinds /\ "create" \in Steps
        BY DEF Kinds, Steps
      <3> QED
        BY <1>0, <3>1, <3>2, ArriveMoves
    <2>2. Facts(h)'
      BY <2>1 DEF Facts, SignInFacts, SessionFacts, GrantFacts, InFlight
    <2> QED
      BY <2>1, <2>2, QuietKeeps DEF InFlight
  <1>2. CASE ArriveCallback(h, b)
    <2>1. PICK l \in Logins : /\ login[l] # "unused"
                              /\ Arrive(h, b, "callback", l, loginCookie[b], "consume")
      BY <1>2 DEF ArriveCallback
    <2>2. /\ HandlerTypes' /\ Own(h) /\ step'[h] = "consume"
          /\ kind'[h] = "callback" /\ browser'[h] = b
          /\ about'[h] = l /\ cookie'[h] = loginCookie[b]
          /\ UNCHANGED <<identity, logins, stored, grants, browsers, history>>
      <3>1. /\ "callback" \in Kinds /\ "consume" \in Steps
            /\ l \in Logins \cup Sessions \cup Grants \cup Identities \cup {None}
            /\ loginCookie[b] \in Logins \cup Sessions \cup {None}
        BY <1>0 DEF Kinds, Steps
      <3> QED
        BY <1>0, <2>1, <3>1, ArriveMoves
    <2>3. loginCookie[b] = l => startedIn[l] = b
      BY <1>0, NoneAssumption DEF CookieFacts
    <2>4. Facts(h)'
      BY <2>1, <2>2, <2>3
      DEF Facts, SignInFacts, SessionFacts, GrantFacts, InFlight, logins
    <2> QED
      BY <2>2, <2>4, QuietKeeps DEF InFlight
  <1>3. CASE ArrivePage(h, b)
    <2>1. /\ HandlerTypes' /\ Own(h) /\ step'[h] = "session"
          /\ kind'[h] = "page" /\ cookie'[h] = sessionCookie[b]
          /\ UNCHANGED <<identity, logins, stored, grants, browsers, history>>
      <3>1. Arrive(h, b, "page", None, sessionCookie[b], "session")
        BY <1>3 DEF ArrivePage
      <3>2. /\ "page" \in Kinds /\ "session" \in Steps
            /\ sessionCookie[b] \in Logins \cup Sessions \cup {None}
        BY <1>0 DEF Kinds, Steps
      <3> QED
        BY <1>0, <3>1, <3>2, ArriveMoves
    <2>2. Facts(h)'
      BY <1>0, <2>1
      DEF Facts, SignInFacts, SessionFacts, GrantFacts, InFlight, Forms
    <2> QED
      BY <2>1, <2>2, QuietKeeps DEF InFlight
  <1>4. CASE ArriveForm(h, b)
    <2>1. PICK k \in Forms, q \in pages[b] :
             Arrive(h, b, k, q, sessionCookie[b], "session")
      BY <1>4 DEF ArriveForm
    <2>2. /\ HandlerTypes' /\ Own(h) /\ step'[h] = "session"
          /\ kind'[h] = k /\ cookie'[h] = sessionCookie[b]
          /\ UNCHANGED <<identity, logins, stored, grants, browsers, history>>
      <3>1. /\ k \in Kinds /\ "session" \in Steps /\ q \in Sessions
            /\ sessionCookie[b] \in Logins \cup Sessions \cup {None}
        BY <1>0 DEF Kinds, Steps
      <3> QED
        BY <1>0, <2>1, <3>1, ArriveMoves
    <2>3. Facts(h)'
      BY <1>0, <2>2
      DEF Facts, SignInFacts, SessionFacts, GrantFacts, InFlight, Forms
    <2> QED
      BY <2>2, <2>3, QuietKeeps DEF InFlight
  <1>5. CASE ArriveTesla(h, b)
    <2>1. PICK g \in Grants : /\ grant[g] # "unused"
                              /\ Arrive(h, b, "tesla", g, sessionCookie[b], "session")
      BY <1>5 DEF ArriveTesla
    <2>2. /\ HandlerTypes' /\ Own(h) /\ step'[h] = "session"
          /\ kind'[h] = "tesla" /\ cookie'[h] = sessionCookie[b]
          /\ about'[h] = g
          /\ UNCHANGED <<identity, logins, stored, grants, browsers, history>>
      <3>1. /\ "tesla" \in Kinds /\ "session" \in Steps
            /\ g \in Logins \cup Sessions \cup Grants \cup Identities \cup {None}
            /\ sessionCookie[b] \in Logins \cup Sessions \cup {None}
        BY <1>0 DEF Kinds, Steps
      <3> QED
        BY <1>0, <2>1, <3>1, ArriveMoves
    <2>3. Facts(h)'
      BY <1>0, <2>1, <2>2
      DEF Facts, SignInFacts, SessionFacts, GrantFacts, InFlight, Forms, grants
    <2> QED
      BY <2>2, <2>3, QuietKeeps DEF InFlight
  <1> QED
    BY <1>1, <1>2, <1>3, <1>4, <1>5 DEF Receive

\* A bearer request arrives without any cookie.
LEMMA ArriveBearerKeeps ==
  ASSUME GatewayInv, NEW h \in Handlers, ArriveBearer(h)
  PROVE  Keeps(h)
  <1>1. PICK i \in Identities : Arrive(h, None, "bearer", i, None, "token")
    BY DEF ArriveBearer
  <1>2. /\ HandlerTypes' /\ Own(h) /\ step'[h] = "token" /\ kind'[h] = "bearer"
        /\ UNCHANGED <<identity, logins, stored, grants, browsers, history>>
    BY <1>1, Types, ArriveMoves DEF GatewayInv, Kinds, Steps
  <1>3. Facts(h)'
    BY <1>2 DEF Facts, SignInFacts, SessionFacts, GrantFacts, InFlight
  <1> QED
    BY <1>2, <1>3, QuietKeeps DEF InFlight, stored

(***************************************************************************)
(* Sign-in.                                                                *)
(***************************************************************************)
LEMMA CreateLoginKeeps ==
  ASSUME GatewayInv, NEW h \in Handlers, CreateLogin(h)
  PROVE  Keeps(h)
  <1>0. TypeOK /\ HandlerTypes /\ SharedTypes /\ BrowserTypes
    BY Types DEF GatewayInv
  <1>1. PICK l \in Logins : /\ PutLogin(l, browser[h])
                            /\ about' = [about EXCEPT ![h] = l]
    BY DEF CreateLogin
  <1>2. /\ step[h] = "create" /\ step' = [step EXCEPT ![h] = "reply"]
        /\ outcome' = [outcome EXCEPT ![h] = "done"]
        /\ UNCHANGED <<identity, stored, grants, browsers, kind, browser,
                       late, cookie, history>>
    BY DEF CreateLogin, Goto
  <1>3. browser[h] \in Browsers /\ kind[h] = "sign_in"
    BY <1>2 DEF GatewayInv, Facts, SignInFacts
  <1>4. /\ login[l] = "unused" /\ login' = [login EXCEPT ![l] = "pending"]
        /\ startedIn' = [startedIn EXCEPT ![l] = browser[h]]
    BY <1>1 DEF PutLogin
  <1>5. HandlerTypes'
    BY <1>0, <1>1, <1>2 DEF HandlerTypes, Steps
  <1>6. SharedTypes' /\ BrowserTypes'
    BY <1>0, <1>2, <1>3, <1>4
    DEF SharedTypes, BrowserTypes, identity, stored, grants, browsers, history
  <1>7. Own(h)
    BY <1>0, <1>1, <1>2 DEF HandlerTypes, Own
  <1>8. Forward
    BY <1>0, <1>2, <1>4 DEF SharedTypes, Forward, stored, grants
  <1>9. Facts(h)'
    <2>1. /\ step'[h] = "reply" /\ kind'[h] = "sign_in" /\ about'[h] = l
          /\ login'[l] = "pending" /\ startedIn'[l] = browser'[h]
      BY <1>0, <1>1, <1>2, <1>3, <1>4 DEF HandlerTypes, SharedTypes
    <2> QED
      BY <2>1 DEF Facts, SignInFacts, SessionFacts, GrantFacts, InFlight
  <1>10. \A b \in Browsers : CookieFacts(b)'
    BY <1>2, <1>8, CookiesKeep DEF browsers
  <1>11. UsedOnce'
    <2>1. \A g \in Handlers : InFlight(g)' => InFlight(g) /\ about'[g] = about[g]
      BY <1>0, <1>1, <1>2 DEF HandlerTypes, InFlight
    <2>2. openedBy' = openedBy
      BY <1>2 DEF stored
    <2>3. \A s \in Sessions : openedBy[s] # None => login'[openedBy[s]] = "gone"
      BY <1>0, <1>4 DEF GatewayInv, UsedOnce, SharedTypes
    <2> QED
      BY <2>1, <2>2, <2>3 DEF GatewayInv, UsedOnce, LoginOpensOneSession
  <1>12. HistoryInv'
    BY <1>2 DEF GatewayInv, HistoryInv, grants, history
  <1> QED
    BY <1>5, <1>6, <1>7, <1>8, <1>9, <1>10, <1>11, <1>12, Types DEF Keeps

\* The pending sign-in is taken by one callback at most (_consume_login).
LEMMA ConsumeLoginKeeps ==
  ASSUME GatewayInv, NEW h \in Handlers, ConsumeLogin(h)
  PROVE  Keeps(h)
  <1> DEFINE l == about[h]
  <1>0. TypeOK /\ HandlerTypes /\ SharedTypes /\ BrowserTypes
    BY Types DEF GatewayInv
  <1>1. /\ kind[h] = "callback" /\ l \in Logins /\ login[l] # "unused"
        /\ cookie[h] = l => startedIn[l] = browser[h]
        /\ step[h] = "consume"
        /\ UNCHANGED <<identity, startedIn, stored, grants, browsers, history>>
    BY DEF GatewayInv, Facts, SignInFacts, ConsumeLogin
  <1>2. ~InFlight(h)
    BY <1>1 DEF InFlight
  <1>3. CASE End(h, "failed") /\ UNCHANGED login
    <2>1. /\ HandlerTypes' /\ Own(h) /\ step'[h] = "reply"
          /\ outcome'[h] = "failed" /\ ~InFlight(h)' /\ kind'[h] = "callback"
      BY <1>0, <1>1, <1>3, EndMoves
    <2>2. Facts(h)'
      BY <2>1 DEF Facts, SignInFacts, SessionFacts, GrantFacts, InFlight, Forms
    <2> QED
      BY <1>1, <1>3, <2>1, <2>2, QuietKeeps DEF logins, stored
  <1>4. CASE /\ TakeLogin(l)
             /\ End(h, "failed") \/ (BoundTo(h, l) /\ Proceed(h, "exchange"))
    <2>1. login[l] = "pending" /\ login' = [login EXCEPT ![l] = "gone"]
      BY <1>4 DEF TakeLogin
    <2>2. SharedTypes' /\ BrowserTypes'
      BY <1>0, <1>1, <2>1
      DEF SharedTypes, BrowserTypes, identity, stored, grants, browsers, history
    <2>3. Forward
      BY <1>0, <1>1, <2>1 DEF SharedTypes, Forward, stored, grants
    <2>4. \A b \in Browsers : CookieFacts(b)'
      BY <1>1, <2>3, CookiesKeep DEF browsers
    <2>5. HistoryInv'
      BY <1>1 DEF GatewayInv, HistoryInv, grants, history
    <2>6. /\ HandlerTypes' /\ Own(h) /\ about'[h] = l
          /\ Facts(h)'
      <3>1. CASE End(h, "failed")
        <4>1. /\ HandlerTypes' /\ Own(h) /\ step'[h] = "reply"
              /\ outcome'[h] = "failed" /\ kind'[h] = "callback"
              /\ about'[h] = l
          BY <1>0, <1>1, <3>1, EndMoves
        <4> QED
          BY <4>1
          DEF Facts, SignInFacts, SessionFacts, GrantFacts, InFlight, Forms
      <3>2. CASE BoundTo(h, l) /\ Proceed(h, "exchange")
        <4>1. "exchange" \in Steps
          BY DEF Steps
        <4>2. /\ HandlerTypes' /\ Own(h) /\ step'[h] = "exchange"
              /\ kind'[h] = "callback" /\ about'[h] = l
              /\ browser'[h] = browser[h] /\ cookie'[h] = cookie[h]
          BY <1>0, <1>1, <3>2, <4>1, ProceedMoves
        <4>3. startedIn'[l] = browser'[h] /\ login'[l] = "gone"
          BY <1>0, <1>1, <2>1, <3>2, <4>2 DEF BoundTo, SharedTypes
        <4> QED
          BY <1>1, <4>2, <4>3
          DEF Facts, SignInFacts, SessionFacts, GrantFacts, InFlight, Forms
      <3> QED
        BY <1>4, <3>1, <3>2
    <2>7. UsedOnce'
      <3>1. \A g \in Handlers \ {h} : /\ InFlight(g)' <=> InFlight(g)
                                      /\ about'[g] = about[g]
        BY <2>6 DEF Own, InFlight
      <3>2. \A g \in Handlers : InFlight(g) => about[g] # l
        BY <2>1 DEF GatewayInv, Facts, SignInFacts
      <3>3. /\ openedBy' = openedBy
            /\ \A s \in Sessions : openedBy[s] # None =>
                 openedBy[s] # l /\ login'[openedBy[s]] = "gone"
        BY <1>0, <1>1, <2>1 DEF GatewayInv, UsedOnce, SharedTypes, stored
      <3> QED
        BY <2>6, <3>1, <3>2, <3>3
        DEF GatewayInv, UsedOnce, LoginOpensOneSession
    <2> QED
      BY <2>2, <2>3, <2>4, <2>5, <2>6, <2>7, Types DEF Keeps
  <1> QED
    BY <1>3, <1>4 DEF ConsumeLogin, Cancel

\* The provider names an identity for the sign-in, or the exchange fails.
LEMMA ExchangeKeeps ==
  ASSUME GatewayInv, NEW h \in Handlers, Exchange(h)
  PROVE  Keeps(h)
  <1>0. TypeOK /\ HandlerTypes /\ SharedTypes /\ BrowserTypes
    BY Types DEF GatewayInv
  <1>1. /\ kind[h] = "callback" /\ about[h] \in Logins
        /\ login[about[h]] = "gone" /\ startedIn[about[h]] = browser[h]
        /\ InFlight(h)
        /\ UNCHANGED <<allowed, logins, stored, grants, browsers, history>>
    BY DEF GatewayInv, Facts, SignInFacts, InFlight, Exchange
  <1>2. CASE \E i \in allowed : SignIn(about[h], i) /\ Proceed(h, "open")
    <2>1. PICK i \in allowed : /\ signedIn' = [signedIn EXCEPT ![about[h]] = i]
                               /\ Proceed(h, "open")
      BY <1>2 DEF SignIn
    <2>2. SharedTypes'
      BY <1>0, <1>1, <2>1 DEF SharedTypes, logins, stored, grants, history
    <2>3. "open" \in Steps
      BY DEF Steps
    <2>4. /\ HandlerTypes' /\ Own(h) /\ step'[h] = "open"
          /\ UNCHANGED <<kind, browser, about, cookie>>
      BY <1>0, <2>1, <2>3, ProceedMoves
    <2>5. Facts(h)'
      BY <1>1, <2>4
      DEF Facts, SignInFacts, SessionFacts, GrantFacts, InFlight, Forms, logins
    <2>6. Forward
      BY <1>1 DEF Forward, logins, stored, grants
    <2>7. HistoryInv'
      BY <1>1 DEF GatewayInv, HistoryInv, grants, history
    <2> QED
      BY <1>1, <2>2, <2>4, <2>5, <2>6, <2>7, PlainKeeps DEF logins, stored
  <1>3. CASE End(h, "failed") /\ UNCHANGED signedIn
    <2>1. /\ HandlerTypes' /\ Own(h) /\ step'[h] = "reply"
          /\ outcome'[h] = "failed" /\ ~InFlight(h)' /\ kind'[h] = "callback"
      BY <1>0, <1>1, <1>3, EndMoves
    <2>2. Facts(h)'
      BY <2>1 DEF Facts, SignInFacts, SessionFacts, GrantFacts, InFlight, Forms
    <2> QED
      BY <1>1, <1>3, <2>1, <2>2, QuietKeeps DEF identity, stored
  <1> QED
    BY <1>2, <1>3 DEF Exchange

\* The session that a sign-in opens is the only one it opens.
LEMMA OpenSessionKeeps ==
  ASSUME GatewayInv, NEW h \in Handlers, OpenSession(h)
  PROVE  Keeps(h)
  <1> DEFINE l == about[h]
  <1>0. TypeOK /\ HandlerTypes /\ SharedTypes /\ BrowserTypes
    BY Types DEF GatewayInv
  <1>1. /\ kind[h] = "callback" /\ l \in Logins
        /\ login[l] = "gone" /\ startedIn[l] = browser[h] /\ InFlight(h)
    BY DEF GatewayInv, Facts, SignInFacts, InFlight, OpenSession
  <1>2. PICK s \in Sessions :
          /\ openedBy[s] = None /\ sessions' = sessions \cup {s}
          /\ openedBy' = [openedBy EXCEPT ![s] = l]
          /\ cookie' = [cookie EXCEPT ![h] = s]
    BY DEF OpenSession, PutSession
  <1>3. /\ step' = [step EXCEPT ![h] = "reply"]
        /\ outcome' = [outcome EXCEPT ![h] = "done"]
        /\ UNCHANGED <<identity, logins, grants, browsers, request, history>>
    BY DEF OpenSession, Goto
  <1>4. HandlerTypes'
    BY <1>0, <1>2, <1>3 DEF HandlerTypes, Steps, request
  <1>5. SharedTypes' /\ BrowserTypes'
    BY <1>0, <1>1, <1>2, <1>3
    DEF SharedTypes, BrowserTypes, identity, logins, grants, browsers, history
  <1>6. Own(h)
    BY <1>0, <1>2, <1>3 DEF HandlerTypes, Own, request
  <1>7. Forward
    BY <1>0, <1>2, <1>3 DEF SharedTypes, Forward, logins, grants
  <1>8. /\ step'[h] = "reply" /\ kind'[h] = "callback" /\ cookie'[h] = s
        /\ openedBy'[s] = l /\ startedIn'[l] = browser'[h] /\ l # None
        /\ browser'[h] = browser[h]
    BY <1>0, <1>1, <1>2, <1>3, NoneAssumption
    DEF HandlerTypes, SharedTypes, request, logins
  <1>9. Facts(h)'
    BY <1>8 DEF Facts, SignInFacts, SessionFacts, GrantFacts, InFlight, Forms
  <1>10. \A b \in Browsers : CookieFacts(b)'
    BY <1>3, <1>7, CookiesKeep DEF browsers
  <1>11. UsedOnce'
    <2>1. /\ ~InFlight(h)'
          /\ \A g \in Handlers \ {h} : /\ InFlight(g)' <=> InFlight(g)
                                       /\ about'[g] = about[g]
      BY <1>3, <1>6, <1>8 DEF InFlight, Own
    <2>2. /\ \A g \in Handlers \ {h} : InFlight(g) => about[g] # l
          /\ \A r \in Sessions : openedBy[r] # None => openedBy[r] # l
      BY <1>1 DEF GatewayInv, UsedOnce
    <2>3. /\ login' = login
          /\ \A r \in Sessions : openedBy'[r] = IF r = s THEN l ELSE openedBy[r]
      BY <1>0, <1>2, <1>3 DEF SharedTypes, logins
    <2> QED
      BY <1>1, <2>1, <2>2, <2>3 DEF GatewayInv, UsedOnce, LoginOpensOneSession
  <1>12. HistoryInv'
    BY <1>3 DEF GatewayInv, HistoryInv, grants, history
  <1> QED
    BY <1>4, <1>5, <1>6, <1>7, <1>9, <1>10, <1>11, <1>12, Types DEF Keeps

(***************************************************************************)
(* Every other request.                                                    *)
(***************************************************************************)
\* A request that is only answered keeps everything.
LEMMA LeaveKeeps ==
  ASSUME GatewayInv, NEW h \in Handlers, Leave(h),
         UNCHANGED <<identity, logins, openedBy, grants, browsers, history>>,
         sessions' \subseteq sessions
  PROVE  Keeps(h)
  <1>1. HandlerTypes
    BY Types DEF GatewayInv
  <1>2. HandlerTypes' /\ Own(h) /\ Facts(h)' /\ ~InFlight(h)'
    BY <1>1, LeaveMoves
  <1> QED
    BY <1>2, QuietKeeps

\* So does one that ends with a page, or takes its session cookie away.
LEMMA SignedOutKeeps ==
  ASSUME GatewayInv, NEW h \in Handlers, kind[h] \in Forms \cup {"page"},
         End(h, "signed_out"),
         UNCHANGED <<identity, logins, openedBy, grants, browsers, history>>,
         sessions' \subseteq sessions
  PROVE  Keeps(h)
  <1>1. HandlerTypes
    BY Types DEF GatewayInv
  <1>2. /\ HandlerTypes' /\ Own(h) /\ step'[h] = "reply" /\ ~InFlight(h)'
        /\ outcome'[h] = "signed_out" /\ kind'[h] \in Forms \cup {"page"}
    BY <1>1, EndMoves
  <1>3. Facts(h)'
    BY <1>2 DEF Facts, SignInFacts, SessionFacts, GrantFacts, InFlight, Forms
  <1> QED
    BY <1>2, <1>3, QuietKeeps

\* A request without a valid session ends, or goes on as one without any.
LEMMA NoSessionKeeps ==
  ASSUME GatewayInv, NEW h \in Handlers, step[h] = "session", NoSession(h),
         UNCHANGED <<identity, logins, openedBy, grants, browsers, history>>,
         sessions' \subseteq sessions
  PROVE  Keeps(h)
  <1>1. HandlerTypes /\ Facts(h)
    BY Types DEF GatewayInv
  <1>2. CASE /\ kind[h] = "tesla" /\ Goto(h, "redeem")
             /\ cookie' = [cookie EXCEPT ![h] = None]
             /\ UNCHANGED <<request, outcome>>
    <2>1. step' = [step EXCEPT ![h] = "redeem"]
      BY <1>2 DEF Goto
    <2>2. HandlerTypes'
      BY <1>1, <1>2, <2>1 DEF HandlerTypes, Steps, request
    <2>3. Own(h)
      BY <1>1, <1>2, <2>1 DEF HandlerTypes, Own, request
    <2>4. /\ step'[h] = "redeem" /\ cookie'[h] = None /\ kind'[h] = "tesla"
          /\ about'[h] = about[h] /\ grants' = grants
      BY <1>1, <1>2, <2>1 DEF HandlerTypes, request
    <2>5. Facts(h)'
      BY <1>1, <1>2, <2>4
      DEF Facts, SignInFacts, SessionFacts, GrantFacts, InFlight, Forms, grants
    <2> QED
      BY <2>2, <2>3, <2>4, <2>5, QuietKeeps DEF InFlight
  <1>3. CASE Leave(h)
    BY <1>3, LeaveKeeps
  <1>4. CASE kind[h] \in Forms \cup {"page"} /\ End(h, "signed_out")
    BY <1>4, SignedOutKeeps
  <1> QED
    BY <1>2, <1>3, <1>4 DEF NoSession

\* A request resolves the session that its cookie names.
LEMMA AuthenticateKeeps ==
  ASSUME GatewayInv, NEW h \in Handlers, Authenticate(h)
  PROVE  Keeps(h)
  <1>0. TypeOK /\ HandlerTypes /\ Facts(h)
    BY Types DEF GatewayInv
  <1>1. /\ step[h] = "session"
        /\ UNCHANGED <<identity, logins, openedBy, grants, browsers, history>>
    BY DEF Authenticate
  <1>2. CASE NoSession(h) /\ sessions' \subseteq sessions
    BY <1>1, <1>2, NoSessionKeeps
  <1>3. CASE Authentic(h) /\ UNCHANGED sessions /\ ~NoSession(h)
    <2>1. cookie[h] \in Sessions
      BY <1>0, <1>3 DEF Authentic, TypeOK
    <2>2. CASE kind[h] = "page" /\ End(h, "done")
      <3>1. /\ HandlerTypes' /\ Own(h) /\ step'[h] = "reply" /\ ~InFlight(h)'
            /\ kind'[h] = "page" /\ cookie'[h] = cookie[h]
        BY <1>0, <2>2, EndMoves
      <3>2. Facts(h)'
        BY <2>1, <3>1
        DEF Facts, SignInFacts, SessionFacts, GrantFacts, InFlight, Forms
      <3> QED
        BY <1>1, <1>3, <3>1, <3>2, QuietKeeps
    <2>3. CASE kind[h] \in Forms /\ Proceed(h, "form")
      <3>1. "form" \in Steps
        BY DEF Steps
      <3>2. /\ HandlerTypes' /\ Own(h) /\ step'[h] = "form"
            /\ kind'[h] \in Forms /\ cookie'[h] = cookie[h]
        BY <1>0, <2>3, <3>1, ProceedMoves
      <3>3. Facts(h)'
        BY <2>1, <3>2
        DEF Facts, SignInFacts, SessionFacts, GrantFacts, InFlight, Forms
      <3> QED
        BY <1>1, <1>3, <3>2, <3>3, QuietKeeps DEF InFlight
    <2>4. CASE kind[h] = "tesla" /\ Proceed(h, "redeem")
      <3>1. "redeem" \in Steps
        BY DEF Steps
      <3>2. /\ HandlerTypes' /\ Own(h) /\ step'[h] = "redeem"
            /\ kind'[h] = "tesla" /\ cookie'[h] = cookie[h]
            /\ about'[h] = about[h]
        BY <1>0, <2>4, <3>1, ProceedMoves
      <3>3. Facts(h)'
        BY <1>0, <1>1, <2>1, <2>4, <3>2
        DEF Facts, SignInFacts, SessionFacts, GrantFacts, InFlight, Forms, grants
      <3> QED
        BY <1>1, <1>3, <3>2, <3>3, QuietKeeps DEF InFlight
    <2> QED
      BY <1>3, <2>2, <2>3, <2>4 DEF Authenticate
  <1> QED
    BY <1>2, <1>3 DEF Authenticate

\* A bearer request resolves the identity of its token.
LEMMA AuthorizeKeeps ==
  ASSUME GatewayInv, NEW h \in Handlers, Authorize(h)
  PROVE  Keeps(h)
  <1>0. HandlerTypes /\ Facts(h)
    BY Types DEF GatewayInv
  <1>1. /\ kind[h] = "bearer"
        /\ UNCHANGED <<identity, logins, stored, grants, browsers, history>>
    BY <1>0 DEF Facts, SessionFacts, Authorize
  <1>2. CASE Proceed(h, "act")
    <2>1. "act" \in Steps
      BY DEF Steps
    <2>2. /\ HandlerTypes' /\ Own(h) /\ step'[h] = "act"
          /\ kind'[h] = "bearer"
      BY <1>0, <1>1, <1>2, <2>1, ProceedMoves
    <2>3. Facts(h)'
      BY <2>2 DEF Facts, SignInFacts, SessionFacts, GrantFacts, InFlight, Forms
    <2> QED
      BY <1>1, <2>2, <2>3, QuietKeeps DEF InFlight, stored
  <1>3. CASE Leave(h)
    BY <1>1, <1>3, LeaveKeeps DEF stored
  <1> QED
    BY <1>2, <1>3 DEF Authorize

\* A form that passes acts with the session that its request presented.
LEMMA FormKeeps ==
  ASSUME GatewayInv, NEW h \in Handlers, Form(h)
  PROVE  Keeps(h)
  <1>0. HandlerTypes /\ Facts(h)
    BY Types DEF GatewayInv
  <1>1. /\ kind[h] \in Forms /\ cookie[h] \in Sessions
        /\ UNCHANGED <<identity, logins, stored, grants, browsers, history>>
    BY <1>0 DEF Facts, SessionFacts, Form
  <1>2. CASE CsrfMatches(h) /\ Proceed(h, "act")
    <2>1. "act" \in Steps
      BY DEF Steps
    <2>2. /\ HandlerTypes' /\ Own(h) /\ step'[h] = "act"
          /\ kind'[h] \in Forms /\ cookie'[h] \in Sessions
      BY <1>0, <1>1, <1>2, <2>1, ProceedMoves
    <2>3. Facts(h)'
      BY <2>2 DEF Facts, SignInFacts, SessionFacts, GrantFacts, InFlight, Forms
    <2> QED
      BY <1>1, <2>2, <2>3, QuietKeeps DEF InFlight, stored
  <1>3. CASE Leave(h)
    BY <1>1, <1>3, LeaveKeeps DEF stored
  <1> QED
    BY <1>2, <1>3 DEF Form

(***************************************************************************)
(* Forms, bearer requests and Tesla's redirect.                            *)
(***************************************************************************)
LEMMA ActingForm ==
  ASSUME GatewayInv, NEW h \in Handlers, step[h] = "act", kind[h] \in Forms
  PROVE  cookie[h] \in Sessions
  BY DEF GatewayInv, Facts, SessionFacts

\* A logout ends the session of the form.
LEMMA LogoutKeeps ==
  ASSUME GatewayInv, NEW h \in Handlers, Logout(h)
  PROVE  Keeps(h)
  <1>0. HandlerTypes /\ SharedTypes
    BY Types DEF GatewayInv
  <1>1. /\ step[h] = "act" /\ kind[h] = "logout" /\ kind[h] \in Forms
        /\ sessions' = sessions \ {cookie[h]}
        /\ signedOut' = signedOut \cup {cookie[h]} /\ End(h, "done")
        /\ UNCHANGED <<identity, logins, openedBy, grants, browsers, connected>>
    BY DEF Logout, EndSession, Forms
  <1>2. cookie[h] \in Sessions
    BY <1>1, ActingForm
  <1>3. /\ HandlerTypes' /\ Own(h) /\ step'[h] = "reply" /\ ~InFlight(h)'
        /\ kind'[h] = "logout"
    BY <1>0, <1>1, EndMoves
  <1>4. Facts(h)'
    BY <1>3 DEF Facts, SignInFacts, SessionFacts, GrantFacts, InFlight, Forms
  <1>5. SharedTypes'
    BY <1>0, <1>1, <1>2 DEF SharedTypes, identity, logins, grants
  <1>6. Forward
    BY <1>1 DEF Forward, logins, grants
  <1>7. HistoryInv'
    BY <1>1 DEF GatewayInv, HistoryInv, grants
  <1> QED
    BY <1>1, <1>3, <1>4, <1>5, <1>6, <1>7, PlainKeeps DEF logins

\* A new Tesla state moves nothing back.
LEMMA BindForward ==
  ASSUME GatewayInv, NEW h \in Handlers, NEW binding \in Sessions \cup {None},
         Bind(h, binding), UNCHANGED <<logins, openedBy>>
  PROVE  /\ Forward
         /\ grant' \in [Grants -> {"unused", "pending", "gone"}]
         /\ starter' \in [Grants -> Sessions \cup {None}]
         /\ connected' = connected =>
              \A c \in connected' :
                 grant'[c[1]] # "unused" /\ starter'[c[1]] \in {None, c[2]}
  <1>1. SharedTypes
    BY Types DEF GatewayInv
  <1>2. PICK g \in Grants :
          /\ grant[g] = "unused" /\ grant' = [grant EXCEPT ![g] = "pending"]
          /\ starter' = [starter EXCEPT ![g] = binding]
    BY DEF Bind
  <1>3. Forward
    BY <1>1, <1>2 DEF SharedTypes, Forward, logins
  <1>4. ASSUME NEW c \in connected
        PROVE  grant'[c[1]] # "unused" /\ starter'[c[1]] \in {None, c[2]}
    <2>1. /\ c[1] \in Grants
          /\ grant[c[1]] # "unused" /\ starter[c[1]] \in {None, c[2]}
      BY <1>1 DEF GatewayInv, HistoryInv, SharedTypes
    <2> QED
      BY <1>3, <2>1 DEF Forward
  <1>5. /\ grant' \in [Grants -> {"unused", "pending", "gone"}]
        /\ starter' \in [Grants -> Sessions \cup {None}]
    BY <1>1, <1>2 DEF SharedTypes
  <1> QED
    BY <1>3, <1>4, <1>5

\* A Tesla authorization is started by the session of the form's page.
LEMMA ConnectKeeps ==
  ASSUME GatewayInv, NEW h \in Handlers, Connect(h)
  PROVE  Keeps(h)
  <1>0. HandlerTypes /\ SharedTypes
    BY Types DEF GatewayInv
  <1>1. /\ step[h] = "act" /\ kind[h] \in Forms
        /\ Bind(h, cookie[h]) /\ Leave(h)
        /\ UNCHANGED <<identity, logins, stored, browsers, history>>
    BY DEF Connect, Forms
  <1>2. cookie[h] \in Sessions
    BY <1>1, ActingForm
  <1>4. /\ Forward
        /\ grant' \in [Grants -> {"unused", "pending", "gone"}]
        /\ starter' \in [Grants -> Sessions \cup {None}]
        /\ \A c \in connected' :
              grant'[c[1]] # "unused" /\ starter'[c[1]] \in {None, c[2]}
    BY <1>1, <1>2, BindForward DEF stored, history
  <1>5. HandlerTypes' /\ Own(h) /\ Facts(h)' /\ ~InFlight(h)'
    BY <1>0, <1>1, LeaveMoves
  <1>6. SharedTypes'
    BY <1>0, <1>1, <1>4 DEF SharedTypes, identity, logins, stored, history
  <1>7. HistoryInv'
    BY <1>4 DEF HistoryInv
  <1> QED
    BY <1>1, <1>4, <1>5, <1>6, <1>7, PlainKeeps DEF logins, stored

\* A pairing refresh or a telemetry operation changes no session and no grant.
LEMMA ChangeKeeps ==
  ASSUME GatewayInv, NEW h \in Handlers, Change(h)
  PROVE  Keeps(h)
  BY LeaveKeeps DEF Change, stored

\* A bearer request acts, or starts a Tesla authorization, for no browser
\* session.
LEMMA ApiKeeps ==
  ASSUME GatewayInv, NEW h \in Handlers, Api(h)
  PROVE  Keeps(h)
  <1>0. HandlerTypes /\ SharedTypes
    BY Types DEF GatewayInv
  <1>1. /\ Leave(h)
        /\ UNCHANGED <<identity, logins, stored, browsers, history>>
    BY DEF Api
  <1>2. CASE Bind(h, None)
    <2>1. /\ Forward
          /\ grant' \in [Grants -> {"unused", "pending", "gone"}]
          /\ starter' \in [Grants -> Sessions \cup {None}]
          /\ \A c \in connected' :
                grant'[c[1]] # "unused" /\ starter'[c[1]] \in {None, c[2]}
      BY <1>1, <1>2, BindForward DEF stored, history
    <2>2. HandlerTypes' /\ Own(h) /\ Facts(h)' /\ ~InFlight(h)'
      BY <1>0, <1>1, LeaveMoves
    <2>3. SharedTypes'
      BY <1>0, <1>1, <2>1 DEF SharedTypes, identity, logins, stored, history
    <2>4. HistoryInv'
      BY <1>1, <2>1 DEF GatewayInv, HistoryInv, history
    <2> QED
      BY <1>1, <2>1, <2>2, <2>3, <2>4, PlainKeeps DEF logins, stored
  <1>3. CASE UNCHANGED grants
    BY <1>1, <1>3, LeaveKeeps DEF stored
  <1> QED
    BY <1>2, <1>3 DEF Api

\* Tesla's redirect takes its state once.
LEMMA RedeemKeeps ==
  ASSUME GatewayInv, NEW h \in Handlers, Redeem(h)
  PROVE  Keeps(h)
  <1> DEFINE g == about[h]
  <1>0. HandlerTypes /\ SharedTypes
    BY Types DEF GatewayInv
  <1>1. /\ kind[h] = "tesla" /\ g \in Grants /\ grant[g] # "unused"
        /\ cookie[h] \in Sessions \cup {None}
        /\ UNCHANGED <<identity, logins, stored, starter, browsers, history>>
    BY DEF GatewayInv, Facts, GrantFacts, SessionFacts, Redeem
  <1>2. CASE Leave(h) /\ UNCHANGED grant
    BY <1>1, <1>2, LeaveKeeps DEF stored, grants
  <1>3. CASE /\ grant[g] = "pending" /\ grant' = [grant EXCEPT ![g] = "gone"]
             /\ Leave(h) \/ (SameStarter(h, g) /\ Proceed(h, "complete"))
    <2>1. SharedTypes'
      BY <1>0, <1>1, <1>3 DEF SharedTypes, identity, logins, stored, history
    <2>2. Forward
      BY <1>0, <1>1, <1>3 DEF SharedTypes, Forward, logins, stored
    <2>3. HistoryInv'
      <3>1. connected' = connected /\ signedOut' = signedOut /\ starter' = starter
        BY <1>1 DEF history
      <3>2. ASSUME NEW c \in connected
            PROVE  grant'[c[1]] # "unused"
        BY <1>0, <2>2 DEF GatewayInv, HistoryInv, SharedTypes, Forward
      <3> QED
        BY <3>1, <3>2 DEF GatewayInv, HistoryInv
    <2>4. HandlerTypes' /\ Own(h) /\ Facts(h)' /\ ~InFlight(h)'
      <3>1. CASE Leave(h)
        BY <1>0, <3>1, LeaveMoves
      <3>2. CASE SameStarter(h, g) /\ Proceed(h, "complete")
        <4>1. "complete" \in Steps
          BY DEF Steps
        <4>2. /\ HandlerTypes' /\ Own(h) /\ step'[h] = "complete"
              /\ kind'[h] = "tesla" /\ about'[h] = g
              /\ cookie'[h] = cookie[h]
          BY <1>0, <1>1, <3>2, <4>1, ProceedMoves
        <4>3. grant'[g] = "gone" /\ starter'[g] \in {None, cookie'[h]}
          BY <1>0, <1>1, <1>3, <3>2, <4>2 DEF SharedTypes, SameStarter
        <4> QED
          BY <1>1, <4>2, <4>3
          DEF Facts, SignInFacts, SessionFacts, GrantFacts, InFlight, Forms
      <3> QED
        BY <1>3, <3>1, <3>2
    <2> QED
      BY <1>1, <2>1, <2>2, <2>3, <2>4, PlainKeeps DEF stored, logins
  <1> QED
    BY <1>2, <1>3 DEF Redeem

\* An authorization completes only for the session that started it.
LEMMA CompleteKeeps ==
  ASSUME GatewayInv, NEW h \in Handlers, Complete(h)
  PROVE  Keeps(h)
  <1>0. HandlerTypes /\ SharedTypes
    BY Types DEF GatewayInv
  <1>1. /\ about[h] \in Grants /\ grant[about[h]] # "unused"
        /\ cookie[h] \in Sessions \cup {None}
        /\ starter[about[h]] \in {None, cookie[h]}
    BY DEF GatewayInv, Facts, GrantFacts, SessionFacts, Complete
  <1>2. /\ Leave(h) /\ connected' = connected \cup {<<about[h], cookie[h]>>}
        /\ UNCHANGED <<identity, logins, stored, grants, browsers, signedOut>>
    BY DEF Complete
  <1>3. HandlerTypes' /\ Own(h) /\ Facts(h)' /\ ~InFlight(h)'
    BY <1>0, <1>2, LeaveMoves
  <1>4. SharedTypes'
    BY <1>0, <1>1, <1>2 DEF SharedTypes, identity, logins, stored, grants
  <1>5. Forward
    BY <1>2 DEF Forward, logins, stored, grants
  <1>6. HistoryInv'
    BY <1>1, <1>2 DEF GatewayInv, HistoryInv, grants
  <1> QED
    BY <1>2, <1>3, <1>4, <1>5, <1>6, PlainKeeps DEF logins, stored

\* A request that fails changes nothing but itself.
LEMMA FailKeeps ==
  ASSUME GatewayInv, NEW h \in Handlers, Fail(h)
  PROVE  Keeps(h)
  BY LeaveKeeps DEF Fail, stored

(***************************************************************************)
(* Responses.                                                              *)
(***************************************************************************)

\* A response puts into its browser what belongs there.
LEMMA ReplySetsCookies ==
  ASSUME GatewayInv, NEW h \in Handlers, Reply(h)
  PROVE  BrowserTypes' /\ \A b \in Browsers : CookieFacts(b)'
  <1>0. /\ BrowserTypes /\ Facts(h) /\ step[h] = "reply"
        /\ \A b \in Browsers : CookieFacts(b)
        /\ UNCHANGED <<login, startedIn, openedBy>>
    BY Types DEF GatewayInv, Reply, logins, stored
  <1>1. /\ loginCookie' \in [Browsers -> Logins \cup {None}]
        /\ \A b \in Browsers :
              loginCookie'[b] # None =>
                 login'[loginCookie'[b]] # "unused" /\ startedIn'[loginCookie'[b]] = b
    <2>1. CASE kind[h] = "sign_in"
      <3>1. loginCookie' = [loginCookie EXCEPT ![browser[h]] = about[h]]
        BY <2>1 DEF Reply, SetCookies
      <3>2. /\ about[h] \in Logins /\ login[about[h]] # "unused"
            /\ startedIn[about[h]] = browser[h]
        BY <1>0, <2>1 DEF Facts, SignInFacts
      <3> QED
        BY <1>0, <3>1, <3>2 DEF BrowserTypes, CookieFacts
    <2>2. CASE kind[h] = "callback"
      <3>1. loginCookie' = [loginCookie EXCEPT ![browser[h]] = None]
        BY <2>2 DEF Reply, SetCookies
      <3> QED
        BY <1>0, <3>1 DEF BrowserTypes, CookieFacts
    <2>3. CASE kind[h] \notin {"sign_in", "callback"}
      <3>1. loginCookie' = loginCookie
        BY <2>3 DEF Reply, SetCookies
      <3> QED
        BY <1>0, <3>1 DEF BrowserTypes, CookieFacts
    <2> QED
      BY <2>1, <2>2, <2>3
  <1>2. /\ sessionCookie' \in [Browsers -> Sessions \cup {None}]
        /\ \A b \in Browsers :
              sessionCookie'[b] # None =>
                 /\ openedBy'[sessionCookie'[b]] # None
                 /\ startedIn'[openedBy'[sessionCookie'[b]]] = b
    <2>1. CASE kind[h] = "callback" /\ outcome[h] = "done"
      <3>1. sessionCookie' = [sessionCookie EXCEPT ![browser[h]] = cookie[h]]
        BY <2>1 DEF Reply, SetCookies
      <3>2. /\ cookie[h] \in Sessions /\ openedBy[cookie[h]] # None
            /\ startedIn[openedBy[cookie[h]]] = browser[h]
        BY <1>0, <2>1 DEF Facts, SignInFacts
      <3> QED
        BY <1>0, <3>1, <3>2 DEF BrowserTypes, CookieFacts
    <2>2. CASE /\ ~(kind[h] = "callback" /\ outcome[h] = "done")
               /\ kind[h] = "logout" \/ outcome[h] = "signed_out"
      <3>1. sessionCookie' = [sessionCookie EXCEPT ![browser[h]] = None]
        BY <2>2 DEF Reply, SetCookies
      <3> QED
        BY <1>0, <3>1 DEF BrowserTypes, CookieFacts
    <2>3. CASE /\ ~(kind[h] = "callback" /\ outcome[h] = "done")
               /\ kind[h] # "logout" /\ outcome[h] # "signed_out"
      <3>1. sessionCookie' = sessionCookie
        BY <2>3 DEF Reply, SetCookies
      <3> QED
        BY <1>0, <3>1 DEF BrowserTypes, CookieFacts
    <2> QED
      BY <2>1, <2>2, <2>3
  <1>3. pages' \in [Browsers -> SUBSET Sessions]
    <2>1. CASE kind[h] = "page" /\ outcome[h] = "done"
      <3>1. pages' = [pages EXCEPT ![browser[h]] = @ \cup {cookie[h]}]
        BY <2>1 DEF Reply
      <3>2. cookie[h] \in Sessions
        BY <1>0, <2>1 DEF Facts, SessionFacts
      <3> QED
        BY <1>0, <3>1, <3>2 DEF BrowserTypes
    <2>2. CASE ~(kind[h] = "page" /\ outcome[h] = "done")
      BY <1>0, <2>2 DEF BrowserTypes, Reply
    <2> QED
      BY <2>1, <2>2
  <1> QED
    BY <1>1, <1>2, <1>3 DEF BrowserTypes, CookieFacts

\* A response brings its cookies to the browser that sent the request.
LEMMA ReplyKeeps ==
  ASSUME GatewayInv, NEW h \in Handlers, Reply(h)
  PROVE  Keeps(h)
  <1>0. HandlerTypes /\ SharedTypes
    BY Types DEF GatewayInv
  <1>1. /\ Leave(h)
        /\ UNCHANGED <<identity, logins, stored, grants, history>>
    BY DEF Reply
  <1>2. BrowserTypes' /\ \A b \in Browsers : CookieFacts(b)'
    BY ReplySetsCookies
  <1>3. HandlerTypes' /\ Own(h) /\ Facts(h)' /\ ~InFlight(h)'
    BY <1>0, <1>1, LeaveMoves
  <1>4. SharedTypes'
    BY <1>0, <1>1 DEF SharedTypes, identity, logins, stored, grants, history
  <1>5. Forward
    BY <1>1 DEF Forward, logins, stored, grants
  <1>6. UsedOnce'
    BY <1>1, <1>3, UsedOnceKeeps DEF logins, stored
  <1>7. HistoryInv'
    BY <1>1 DEF GatewayInv, HistoryInv, grants, history
  <1> QED
    BY <1>2, <1>3, <1>4, <1>5, <1>6, <1>7, Types DEF Keeps

(***************************************************************************)
(* Every step.                                                             *)
(***************************************************************************)
LEMMA AllowlistKeepsInv ==
  ASSUME GatewayInv, Allowlist
  PROVE  GatewayInv'
  <1> USE DEF logins, stored, grants, browsers, request, history
  <1>1. TypeOK'
    BY DEF GatewayInv, TypeOK, Allowlist
  <1>2. \A h \in Handlers : Facts(h)'
    BY DEF GatewayInv, Facts, SignInFacts, SessionFacts, GrantFacts, InFlight,
           Allowlist
  <1>3. \A b \in Browsers : CookieFacts(b)'
    BY DEF GatewayInv, CookieFacts, Allowlist
  <1>4. UsedOnce'
    BY DEF GatewayInv, UsedOnce, InFlight, LoginOpensOneSession, Allowlist
  <1>5. HistoryInv'
    BY DEF GatewayInv, HistoryInv, Allowlist
  <1> QED
    BY <1>1, <1>2, <1>3, <1>4, <1>5 DEF GatewayInv

\* A step of one request keeps what is known of every request.
LEMMA KeepsInv ==
  ASSUME GatewayInv, NEW h \in Handlers, Keeps(h)
  PROVE  GatewayInv'
  <1>1. \A g \in Handlers : Facts(g)'
    BY OthersKeepFacts DEF Keeps
  <1> QED
    BY <1>1 DEF Keeps, GatewayInv

\* Every step of a request that is being served.
LEMMA ServeKeeps ==
  ASSUME GatewayInv, NEW h \in Handlers, Serve(h)
  PROVE  Keeps(h)
  BY CreateLoginKeeps, ConsumeLoginKeeps, ExchangeKeeps, OpenSessionKeeps,
     AuthenticateKeeps, AuthorizeKeeps, FormKeeps, LogoutKeeps, ConnectKeeps,
     ChangeKeeps, ApiKeeps, RedeemKeeps, CompleteKeeps, FailKeeps, ReplyKeeps
  DEF Serve

\* Every step preserves the invariant.
LEMMA StepGateway == GatewayInv /\ [Next]_vars => GatewayInv'
  <1> SUFFICES ASSUME GatewayInv, [Next]_vars PROVE GatewayInv'
    OBVIOUS
  <1>1. CASE Allowlist
    BY <1>1, AllowlistKeepsInv
  <1>2. ASSUME NEW h \in Handlers, Serve(h)
        PROVE  GatewayInv'
    BY <1>2, ServeKeeps, KeepsInv
  <1>3. ASSUME NEW h \in Handlers, ArriveBearer(h)
        PROVE  GatewayInv'
    BY <1>3, ArriveBearerKeeps, KeepsInv
  <1>4. ASSUME NEW h \in Handlers, NEW b \in Browsers, Receive(h, b)
        PROVE  GatewayInv'
    BY <1>4, ArriveKeeps, KeepsInv
  <1>5. CASE UNCHANGED vars
    <2> USE <1>5 DEF vars, identity, logins, stored, grants, browsers, request,
                     history
    <2>1. TypeOK'
      BY DEF GatewayInv, TypeOK
    <2>2. \A h \in Handlers : Facts(h)'
      BY DEF GatewayInv, Facts, SignInFacts, SessionFacts, GrantFacts, InFlight
    <2>3. \A b \in Browsers : CookieFacts(b)'
      BY DEF GatewayInv, CookieFacts
    <2>4. UsedOnce'
      BY DEF GatewayInv, UsedOnce, InFlight, LoginOpensOneSession
    <2>5. HistoryInv'
      BY DEF GatewayInv, HistoryInv
    <2> QED
      BY <2>1, <2>2, <2>3, <2>4, <2>5 DEF GatewayInv
  <1> QED
    BY <1>1, <1>2, <1>3, <1>4, <1>5 DEF Next

(***************************************************************************)
(* Sessions that were signed out.                                          *)
(***************************************************************************)

\* A session that was signed out is not stored, and cannot be opened again.
EndedInv ==
    /\ \A s \in signedOut : s \notin sessions /\ openedBy[s] # None
    /\ \A s \in sessions : openedBy[s] # None

\* A request that came too late never gets past its authentication, or goes on
\* as one without any session.
LateFacts(h) ==
    /\ \/ step[h] = "form"
       \/ step[h] = "act" /\ kind[h] \in Forms
       => openedBy[cookie[h]] # None
    /\ late[h] =>
         /\ step[h] = "session" => cookie[h] \in signedOut
         /\ step[h] # "form"
         /\ ~(step[h] = "act" /\ kind[h] \in Forms)
         /\ ~(step[h] = "reply" /\ kind[h] = "page" /\ outcome[h] = "done")
         /\ step[h] = "redeem" => cookie[h] = None
         /\ step[h] = "complete" => starter[about[h]] = None

LateInv == EndedInv /\ \A h \in Handlers : LateFacts(h)

\* No session has been opened.
LEMMA InitLate == Init => LateInv
  BY DEF Init, LateInv, EndedInv, LateFacts

\* What is stored of the sessions changes in three places only.
LEMMA SessionSteps ==
  ASSUME NEW h \in Handlers, Serve(h)
  PROVE  \/ OpenSession(h) \/ Authenticate(h) \/ Logout(h)
         \/ UNCHANGED <<sessions, openedBy, signedOut>>
  BY DEF Serve, CreateLogin, ConsumeLogin, Exchange, Authorize, Form, Connect,
         Change, Api, Redeem, Complete, Fail, Reply, stored, history

\* A session ends for good.
LEMMA EndedKept ==
  ASSUME GatewayInv, LateInv, NEW h \in Handlers, Serve(h)
  PROVE  EndedInv' /\ signedOut \subseteq signedOut'
  <1>0. TypeOK /\ EndedInv /\ LateFacts(h)
    BY DEF GatewayInv, LateInv
  <1>1. CASE UNCHANGED <<sessions, openedBy, signedOut>>
    BY <1>0, <1>1 DEF EndedInv
  <1>2. CASE OpenSession(h)
    <2>1. PICK s \in Sessions : PutSession(s, about[h])
      BY <1>2 DEF OpenSession
    <2>2. about[h] # None /\ signedOut' = signedOut
      BY <1>2, NoneAssumption
      DEF OpenSession, GatewayInv, Facts, SignInFacts, InFlight, history
    <2> QED
      BY <1>0, <2>1, <2>2 DEF PutSession, EndedInv, TypeOK
  <1>3. CASE Authenticate(h)
    BY <1>0, <1>3 DEF Authenticate, EndedInv, history
  <1>4. CASE Logout(h)
    <2>1. /\ cookie[h] \in Sessions /\ openedBy[cookie[h]] # None
          /\ openedBy' = openedBy
      BY <1>0, <1>4, ActingForm DEF Logout, LateFacts, Forms
    <2> QED
      BY <1>0, <1>4, <2>1 DEF Logout, EndSession, EndedInv
  <1> QED
    BY <1>1, <1>2, <1>3, <1>4, SessionSteps

\* What was known of a request stays true while others take their steps.
LEMMA OthersKeepLate ==
  ASSUME GatewayInv, LateInv, NEW h \in Handlers, Own(h), Forward,
         signedOut \subseteq signedOut', NEW g \in Handlers, g # h
  PROVE  LateFacts(g)'
  <1>1. /\ step'[g] = step[g] /\ kind'[g] = kind[g] /\ cookie'[g] = cookie[g]
        /\ about'[g] = about[g] /\ outcome'[g] = outcome[g] /\ late'[g] = late[g]
    BY DEF Own
  <1>2. LateFacts(g) /\ Facts(g)
    BY DEF GatewayInv, LateInv
  <1>3. step[g] = "form" \/ (step[g] = "act" /\ kind[g] \in Forms) =>
          openedBy'[cookie[g]] # None
    BY <1>2 DEF Facts, SessionFacts, LateFacts, Forward
  <1>4. step[g] = "complete" => starter'[about[g]] = starter[about[g]]
    BY <1>2 DEF Facts, GrantFacts, Forward
  <1> QED
    BY <1>1, <1>2, <1>3, <1>4 DEF LateFacts

\* A request that is over, or has an answer that shows no page, is not too late
\* for anything.
LEMMA QuietLate ==
  ASSUME NEW h \in Handlers,
         \/ step'[h] \in {"idle", "create", "consume", "exchange", "open", "token"}
         \/ step'[h] = "reply" /\ ~(kind'[h] = "page" /\ outcome'[h] = "done")
         \/ step'[h] = "act" /\ kind'[h] = "bearer"
  PROVE  LateFacts(h)'
  BY DEF LateFacts, Forms

\* A request that is authenticated has not come too late.
LEMMA AuthenticateLate ==
  ASSUME GatewayInv, LateInv, NEW h \in Handlers, Authenticate(h)
  PROVE  LateFacts(h)'
  <1>0. /\ HandlerTypes /\ EndedInv /\ LateFacts(h) /\ step[h] = "session"
        /\ openedBy' = openedBy
    BY Types DEF GatewayInv, LateInv, Authenticate
  <1>1. CASE NoSession(h)
    <2>1. CASE Leave(h) \/ End(h, "signed_out")
      BY <1>0, <2>1, LeaveMoves, EndMoves, QuietLate
    <2>2. CASE /\ Goto(h, "redeem") /\ cookie' = [cookie EXCEPT ![h] = None]
      BY <1>0, <2>2 DEF Goto, HandlerTypes, LateFacts
    <2> QED
      BY <1>1, <2>1, <2>2 DEF NoSession
  <1>2. CASE Authentic(h) /\ ~NoSession(h)
    <2>1. ~late[h] /\ openedBy[cookie[h]] # None
      BY <1>0, <1>2 DEF Authentic, EndedInv, LateFacts
    <2>2. /\ late'[h] = late[h] /\ cookie'[h] = cookie[h]
      BY <1>0, <1>2 DEF Authenticate, End, Proceed, request
    <2> QED
      BY <1>0, <2>1, <2>2 DEF LateFacts
  <1> QED
    BY <1>1, <1>2 DEF Authenticate

\* A redirect without its session completes no authorization that has one.
LEMMA RedeemLate ==
  ASSUME GatewayInv, LateInv, NEW h \in Handlers, Redeem(h)
  PROVE  LateFacts(h)'
  <1>0. HandlerTypes /\ LateFacts(h) /\ step[h] = "redeem"
    BY Types DEF GatewayInv, LateInv, Redeem
  <1>1. CASE Leave(h)
    BY <1>0, <1>1, LeaveMoves, QuietLate
  <1>2. CASE SameStarter(h, about[h]) /\ Proceed(h, "complete")
    <2>1. /\ step'[h] = "complete" /\ about'[h] = about[h]
          /\ late'[h] = late[h] /\ starter' = starter
      BY <1>0, <1>2, ProceedMoves DEF Steps, Redeem
    <2>2. late[h] => starter[about[h]] = None
      BY <1>0, <1>2 DEF LateFacts, SameStarter
    <2> QED
      BY <2>1, <2>2 DEF LateFacts
  <1> QED
    BY <1>1, <1>2 DEF Redeem

\* A form that acts was not too late when it was authenticated.
LEMMA FormLate ==
  ASSUME GatewayInv, LateInv, NEW h \in Handlers, Form(h)
  PROVE  LateFacts(h)'
  <1>0. /\ HandlerTypes /\ LateFacts(h) /\ step[h] = "form"
        /\ UNCHANGED stored
    BY Types DEF GatewayInv, LateInv, Form
  <1>1. CASE Leave(h)
    BY <1>0, <1>1, LeaveMoves, QuietLate
  <1>2. CASE Proceed(h, "act")
    <2>1. /\ step'[h] = "act" /\ cookie'[h] = cookie[h] /\ late'[h] = late[h]
          /\ openedBy' = openedBy
      BY <1>0, <1>2, ProceedMoves DEF Steps, stored
    <2> QED
      BY <1>0, <2>1 DEF LateFacts
  <1> QED
    BY <1>1, <1>2 DEF Form

\* The request's own step keeps what is known of it.
LEMMA OwnKeepsLate ==
  ASSUME GatewayInv, LateInv, NEW h \in Handlers, Serve(h)
  PROVE  LateFacts(h)'
  <1>0. HandlerTypes /\ Facts(h)
    BY Types DEF GatewayInv
  <1>1. CASE CreateLogin(h)
    <2>1. step'[h] = "reply" /\ kind'[h] = "sign_in"
      BY <1>0, <1>1 DEF CreateLogin, Goto, HandlerTypes, Facts, SignInFacts
    <2> QED
      BY <2>1, QuietLate
  <1>2. CASE ConsumeLogin(h)
    <2>1. kind[h] = "callback"
      BY <1>0, <1>2 DEF ConsumeLogin, Facts, SignInFacts
    <2>2. Proceed(h, "exchange") \/ End(h, "failed")
      BY <1>2 DEF ConsumeLogin, Cancel
    <2>3. step'[h] = "exchange" \/ (step'[h] = "reply" /\ kind'[h] = "callback")
      BY <1>0, <2>1, <2>2, ProceedMoves, EndMoves DEF Steps
    <2> QED
      BY <2>3, QuietLate
  <1>3. CASE Exchange(h)
    <2>1. kind[h] = "callback"
      BY <1>0, <1>3 DEF Exchange, Facts, SignInFacts, InFlight
    <2>2. Proceed(h, "open") \/ End(h, "failed")
      BY <1>3 DEF Exchange
    <2>3. step'[h] = "open" \/ (step'[h] = "reply" /\ kind'[h] = "callback")
      BY <1>0, <2>1, <2>2, ProceedMoves, EndMoves DEF Steps
    <2> QED
      BY <2>3, QuietLate
  <1>4. CASE OpenSession(h)
    <2>1. step'[h] = "reply" /\ kind'[h] = "callback"
      BY <1>0, <1>4
      DEF OpenSession, Goto, HandlerTypes, Facts, SignInFacts, InFlight, request
    <2> QED
      BY <2>1, QuietLate
  <1>5. CASE Authorize(h)
    <2>1. kind[h] = "bearer" /\ (Proceed(h, "act") \/ Leave(h))
      BY <1>0, <1>5 DEF Authorize, Facts, SessionFacts
    <2>2. step'[h] = "idle" \/ (step'[h] = "act" /\ kind'[h] = "bearer")
      BY <1>0, <2>1, ProceedMoves, LeaveMoves DEF Steps
    <2> QED
      BY <2>2, QuietLate
  <1>6. CASE Logout(h)
    <2>1. step'[h] = "reply" /\ kind'[h] = "logout"
      BY <1>0, <1>6, EndMoves DEF Logout
    <2> QED
      BY <2>1, QuietLate
  <1>7. CASE Leave(h)
    BY <1>0, <1>7, LeaveMoves, QuietLate
  <1>8. CASE \/ Connect(h) \/ Change(h) \/ Api(h) \/ Complete(h) \/ Fail(h)
             \/ Reply(h)
    BY <1>7, <1>8 DEF Connect, Change, Api, Complete, Fail, Reply
  <1> QED
    BY <1>1, <1>2, <1>3, <1>4, <1>5, <1>6, <1>8, AuthenticateLate, RedeemLate,
       FormLate DEF Serve

\* A request that arrives knows whether it is late.
LEMMA ArriveLate ==
  ASSUME GatewayInv, LateInv, NEW h \in Handlers,
         NEW b \in Browsers \cup {None}, NEW k \in Kinds, NEW a, NEW c,
         NEW s \in {"create", "consume", "session", "token"},
         Arrive(h, b, k, a, c, s)
  PROVE  LateInv'
  <1>1. /\ step'[h] = s /\ cookie'[h] = c /\ late'[h] = (c \in signedOut)
        /\ Own(h)
    BY Types DEF GatewayInv, Arrive, Goto, HandlerTypes, Own
  <1>2. /\ UNCHANGED <<sessions, openedBy, signedOut>> /\ Forward
    BY DEF Arrive, logins, stored, grants, history, Forward
  <1>3. EndedInv' /\ LateFacts(h)'
    BY <1>1, <1>2 DEF LateInv, EndedInv, LateFacts
  <1> QED
    BY <1>1, <1>2, <1>3, OthersKeepLate DEF LateInv

\* Every step preserves the invariant of late requests.
LEMMA StepLate == GatewayInv /\ LateInv /\ [Next]_vars => LateInv'
  <1> SUFFICES ASSUME GatewayInv, LateInv, [Next]_vars PROVE LateInv'
    OBVIOUS
  <1>1. CASE Allowlist \/ UNCHANGED vars
    <2>1. UNCHANGED <<step, request, cookie, outcome, stored, grants, history>>
      BY <1>1 DEF Allowlist, vars
    <2> QED
      BY <2>1
      DEF request, stored, grants, history, LateInv, EndedInv, LateFacts
  <1>2. ASSUME NEW h \in Handlers, Serve(h)
        PROVE  LateInv'
    <2>1. Own(h) /\ Forward
      BY <1>2, ServeKeeps DEF Keeps
    <2> QED
      BY <1>2, <2>1, EndedKept, OwnKeepsLate, OthersKeepLate DEF LateInv
  <1>3. ASSUME NEW h \in Handlers, ArriveBearer(h)
        PROVE  LateInv'
    BY <1>3, ArriveLate DEF ArriveBearer, Kinds
  <1>4. ASSUME NEW h \in Handlers, NEW b \in Browsers, Receive(h, b)
        PROVE  LateInv'
    BY <1>4, ArriveLate
    DEF Receive, ArriveSignIn, ArriveCallback, ArrivePage, ArriveForm,
        ArriveTesla, Kinds
  <1> QED
    BY <1>1, <1>2, <1>3, <1>4 DEF Next

(***************************************************************************)
(* The theorems.                                                           *)
(***************************************************************************)

\* Every reachable state has its types, every request in flight is about the
\* sign-in, the session and the Tesla state it was checked for, every cookie a
\* browser holds is of its own sign-in, and every sign-in is used once.
THEOREM GatewayCorrect == Spec => []GatewayInv
  BY InitGateway, StepGateway, PTL DEF Spec

\* A browser holds only sessions of sign-ins that were started in it, however
\* redirects are opened and responses arrive: the binding cookie is compared
\* with the state that the transaction deleted.
THEOREM SessionsStayInTheirBrowser == Spec => []SessionOfItsBrowser
  <1>1. GatewayInv => SessionOfItsBrowser
    BY DEF GatewayInv, CookieFacts, SessionOfItsBrowser
  <1> QED
    BY <1>1, GatewayCorrect, PTL

\* A redirect that is served twice opens one session, because the state is
\* deleted in a transaction before anything else is done with it.
THEOREM OneSessionPerSignIn == Spec => []LoginOpensOneSession
  <1>1. GatewayInv => LoginOpensOneSession
    BY DEF GatewayInv, UsedOnce
  <1> QED
    BY <1>1, GatewayCorrect, PTL

\* A session that a logout has deleted is refused ever after: a request that
\* comes with it acts with no form and is shown no page, and a Tesla redirect goes
\* on without a binding, so that it completes no authorization of a session.
THEOREM SignedOutForGood == Spec => []SignedOutStaysOut
  <1>1. Spec => [](GatewayInv /\ LateInv)
    <2>1. Init => GatewayInv /\ LateInv
      BY InitGateway, InitLate
    <2>2. GatewayInv /\ LateInv /\ [Next]_vars => (GatewayInv /\ LateInv)'
      BY StepGateway, StepLate
    <2> QED
      BY <2>1, <2>2, PTL DEF Spec
  <1>2. LateInv => SignedOutStaysOut
    BY DEF LateInv, LateFacts, SignedOutStaysOut
  <1> QED
    BY <1>1, <1>2, PTL

\* Tesla's redirect completes a browser's authorization only with the session
\* that started it.
THEOREM GrantsStayWithTheirStarter == Spec => []GrantOfItsStarter
  <1>1. GatewayInv => GrantOfItsStarter
    BY DEF GatewayInv, HistoryInv, GrantOfItsStarter
  <1> QED
    BY <1>1, GatewayCorrect, PTL
=============================================================================
