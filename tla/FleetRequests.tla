---------------------------- MODULE FleetRequests ----------------------------
(***************************************************************************)
(* Calls of the Tesla Fleet API.  A tool call runs one client method with  *)
(* the user's credentials, and once more with a refreshed token if Tesla   *)
(* answers 401.  The discovery inside an OAuth callback runs three client  *)
(* methods with the new token (region, list, status) and synchronizes the  *)
(* vehicle registry with what they returned.  A client method is one       *)
(* request, sent again after a failure when it is safe to, or a request    *)
(* per page of the vehicle list.                                           *)
(*                                                                         *)
(* Meanwhile vehicles join and leave the user's Tesla account, so that the *)
(* pages of one list may be pages of different lists.  Paths, parameters   *)
(* and payloads do not matter; tokens are TeslaConnection's subject.       *)
(***************************************************************************)
EXTENDS VehicleRegistry, Naturals, Sequences, SequencesExt

CONSTANTS
    Calls,
    Retries,   \* max_read_retries
    PageSize,  \* per_page: 100
    MaxPages   \* 100

ASSUME BoundsAssumption ==
    /\ Retries \in Nat
    /\ PageSize \in Nat \ {0}
    /\ MaxPages \in Nat \ {0}

VARIABLES
    fleet,        \* per user, the vehicles Tesla lists, oldest first
    owner,        \* per call, its user
    op,           \* per call, the client method that runs
    discoveries,  \* the calls that are discoveries of a callback
    step,         \* per call, its next remote call
    refreshed,    \* the calls in their second execution
    attempt,      \* per call, the failed attempts of this request
    page,         \* per call, the next page
    got,          \* per call, the vehicles on the pages so far
    reply,        \* per call, how it ended
    runs,         \* history: times Tesla carried the write out
    expected      \* history: listed since the list's first page was asked for
                  \* (nothing once a vehicle left while the pages were read)

callVars == <<owner, op, discoveries>>
listVars == <<page, got, expected>>
doneVars == <<step, reply>>
vars     == <<registryVars, fleet, callVars, doneVars, refreshed, attempt,
              listVars, runs>>

(***************************************************************************)
(* Client methods.                                                         *)
(***************************************************************************)

\* GETs through _object, _list and _value, and the POST that reads the status.
SafeReads == {"read", "status"}

\* GETs through _request_json, whose retry_safe is FALSE by default.
PlainReads == {"region", "get", "list"}

\* POST and DELETE, sent to Tesla.
DirectWrites == {"write"}

\* POST to the Vehicle Command Proxy, which signs and forwards it.
Commands == {"command"}

Ops == SafeReads \cup PlainReads \cup DirectWrites \cup Commands

\* (variant: every request is)
AllRetrySafe(c) == TRUE

\* The requests that may be sent again.
RetrySafe(c) == op[c] \in SafeReads

TypeOK ==
    /\ RegistryTypeOK
    /\ fleet \in [Users -> Seq(VINs)]
    /\ owner \in [Calls -> Users \cup {None}]
    /\ op \in [Calls -> Ops \cup {None}]
    /\ discoveries \subseteq Calls
    /\ step \in [Calls -> {"begin", "request", "refresh", "sync", "done"}]
    /\ refreshed \subseteq Calls
    /\ attempt \in [Calls -> 0..Retries]
    /\ page \in [Calls -> 1..MaxPages]
    /\ got \in [Calls -> Seq(VINs)]
    /\ reply \in [Calls -> {"none", "ok", "error", "reauthorize"}]
    /\ runs \in [Calls -> Nat]
    /\ expected \in [Calls -> SUBSET VINs]

Init ==
    /\ RegistryInit
    /\ fleet = [u \in Users |-> <<>>]
    /\ owner = [c \in Calls |-> None]
    /\ op = [c \in Calls |-> None]
    /\ discoveries = {}
    /\ step = [c \in Calls |-> "begin"]
    /\ refreshed = {}
    /\ attempt = [c \in Calls |-> 0]
    /\ page = [c \in Calls |-> 1]
    /\ got = [c \in Calls |-> <<>>]
    /\ reply = [c \in Calls |-> "none"]
    /\ runs = [c \in Calls |-> 0]
    /\ expected = [c \in Calls |-> {}]

(***************************************************************************)
(* The Tesla account.                                                      *)
(***************************************************************************)
Join(u, v) ==
    /\ v \notin Range(fleet[u])
    /\ fleet' = [fleet EXCEPT ![u] = Append(@, v)]
    /\ UNCHANGED <<registryVars, callVars, doneVars, refreshed, attempt,
                   listVars, runs>>

Listing(c) == step[c] \in {"request", "refresh"} /\ op[c] = "list"

\* Those behind the vehicle move up, so that a list that is being read may
\* miss one of them.
Leave(u, i) ==
    /\ fleet' = [fleet EXCEPT ![u] = RemoveAt(@, i)]
    /\ expected' = [c \in Calls |->
           IF owner[c] # u THEN expected[c]
           ELSE IF Listing(c) THEN {} ELSE expected[c] \ {fleet[u][i]}]
    /\ UNCHANGED <<registryVars, callVars, doneVars, refreshed, attempt, page,
                   got, runs>>

(***************************************************************************)
(* The calls.                                                              *)
(***************************************************************************)
Goto(c, s) == step' = [step EXCEPT ![c] = s]

Answer(c, r) ==
    /\ reply' = [reply EXCEPT ![c] = r]
    /\ Goto(c, "done")

Continue(c, s) == Goto(c, s) /\ UNCHANGED reply

\* Tesla carries the operation out, which nobody minds unless it is a write.
Ran(c) ==
    runs' = IF op[c] \in DirectWrites \cup Commands
              THEN [runs EXCEPT ![c] = @ + 1] ELSE runs

\* A list is read from its first page.
FirstPage(c, u) ==
    /\ page' = [page EXCEPT ![c] = 1]
    /\ got' = [got EXCEPT ![c] = <<>>]
    /\ expected' = [expected EXCEPT ![c] = Range(fleet[u])]

\* The client method runs.
Run(c, u, o) ==
    /\ op' = [op EXCEPT ![c] = o]
    /\ attempt' = [attempt EXCEPT ![c] = 0]
    /\ IF o = "list" THEN FirstPage(c, u) ELSE UNCHANGED listVars

\* _execute of a tool call that passed its checks.
BeginTool(c, u) ==
    /\ step[c] = "begin"
    /\ owner' = [owner EXCEPT ![c] = u]
    /\ \E o \in Ops \ {"region"} : Run(c, u, o)
    /\ Continue(c, "request")
    /\ UNCHANGED <<registryVars, fleet, discoveries, refreshed, runs>>

\* The tool call is refused for its arguments, its scopes, its intent or its
\* vehicle, or there is no access token.
RefuseTool(c) ==
    /\ step[c] = "begin"
    /\ Answer(c, "error")
    /\ UNCHANGED <<registryVars, fleet, callVars, refreshed, attempt, listVars,
                   runs>>

\* A callback has stored its new connection.
BeginDiscovery(c, u) ==
    /\ step[c] = "begin"
    /\ owner' = [owner EXCEPT ![c] = u]
    /\ discoveries' = discoveries \cup {c}
    /\ Run(c, u, "region")
    /\ Continue(c, "request")
    /\ UNCHANGED <<registryVars, fleet, refreshed, runs>>

(***************************************************************************)
(* The answers to a request.                                               *)
(***************************************************************************)

\* A usable 200, but for a page of the list.
Served(c) ==
    /\ step[c] = "request"
    /\ op[c] # "list"
    /\ Ran(c)
    /\ \/ /\ c \notin discoveries
          /\ Answer(c, "ok")
          /\ UNCHANGED <<op, attempt, listVars>>
       \/ /\ c \in discoveries /\ op[c] = "region"
          /\ Run(c, owner[c], "list")
          /\ Continue(c, "request")
       \/ /\ c \in discoveries /\ op[c] = "status"
          /\ Continue(c, "sync")
          /\ UNCHANGED <<op, attempt, listVars>>
    /\ UNCHANGED <<registryVars, fleet, owner, discoveries, refreshed>>

Rows(c)   == fleet[owner[c]]
More(c)   == page[c] * PageSize < Len(Rows(c))

\* The rows of the page are added.
Collect(c) ==
    got' = [got EXCEPT ![c] =
              @ \o SubSeq(Rows(c), (page[c] - 1) * PageSize + 1,
                          IF More(c) THEN page[c] * PageSize ELSE Len(Rows(c)))]

\* One page, with the number of the next one.
ServedPage(c) ==
    /\ step[c] = "request"
    /\ op[c] = "list"
    /\ More(c)
    /\ Collect(c)
    /\ Ran(c)
    /\ \/ /\ page[c] < MaxPages
          /\ page' = [page EXCEPT ![c] = @ + 1]
          /\ UNCHANGED doneVars
       \/ /\ page[c] = MaxPages
          /\ Answer(c, "error")
          /\ UNCHANGED page
    /\ UNCHANGED <<registryVars, fleet, callVars, refreshed, attempt, expected>>

\* fleet_status of the vehicles on the list.
AskStatus(c) ==
    /\ op' = [op EXCEPT ![c] = "status"]
    /\ Continue(c, "request")

\* The end of the list.  A discovery goes on with the status of its vehicles,
\* if there are any.
ServedLastPage(c) ==
    /\ step[c] = "request"
    /\ op[c] = "list"
    /\ ~More(c)
    /\ Collect(c)
    /\ Ran(c)
    /\ \/ /\ c \notin discoveries
          /\ Answer(c, "ok")
          /\ UNCHANGED op
       \/ /\ c \in discoveries /\ got'[c] = <<>>
          /\ Continue(c, "sync")
          /\ UNCHANGED op
       \/ /\ c \in discoveries /\ got'[c] # <<>>
          /\ AskStatus(c)
    /\ UNCHANGED <<registryVars, fleet, owner, discoveries, refreshed, attempt,
                   page, expected>>

\* A 200 whose document cannot be parsed.
Unusable(c) ==
    /\ step[c] = "request"
    /\ Ran(c)
    /\ Answer(c, "error")
    /\ UNCHANGED <<registryVars, fleet, callVars, refreshed, attempt, listVars>>

\* 401: Tesla did not carry it out.  A tool call is executed once more.
Unauthorized(c) ==
    /\ step[c] = "request"
    /\ IF c \in discoveries \cup refreshed
         THEN Answer(c, "reauthorize")
         ELSE Continue(c, "refresh")
    /\ UNCHANGED <<registryVars, fleet, callVars, refreshed, attempt, listVars,
                   runs>>

\* Any other 4xx.
Rejected(c) ==
    /\ step[c] = "request"
    /\ Answer(c, "error")
    /\ UNCHANGED <<registryVars, fleet, callVars, refreshed, attempt, listVars,
                   runs>>

TryAgain(c) ==
    /\ RetrySafe(c)
    /\ attempt[c] < Retries
    /\ attempt' = [attempt EXCEPT ![c] = @ + 1]
    /\ UNCHANGED doneVars

GiveUp(c) ==
    /\ ~RetrySafe(c) \/ attempt[c] = Retries
    /\ Answer(c, "error")
    /\ UNCHANGED attempt

\* (variant: a page that fails ends the list)
LostEndsList(c) ==
    /\ step[c] = "request"
    /\ op[c] \notin Commands
    /\ Ran(c) \/ UNCHANGED runs
    /\ \/ /\ op[c] = "list" /\ page[c] > 1
          /\ IF c \in discoveries THEN Continue(c, "sync") ELSE Answer(c, "ok")
          /\ UNCHANGED attempt
       \/ op[c] # "list" /\ (TryAgain(c) \/ GiveUp(c))
    /\ UNCHANGED <<registryVars, fleet, callVars, refreshed, listVars>>

\* 429 and 5xx, or no answer: Tesla may have carried it out.
Lost(c) ==
    /\ step[c] = "request"
    /\ op[c] \notin Commands
    /\ Ran(c) \/ UNCHANGED runs
    /\ TryAgain(c) \/ GiveUp(c)
    /\ UNCHANGED <<registryVars, fleet, callVars, refreshed, listVars>>

\* The same through the proxy, which may have forwarded it.
ProxyLost(c) ==
    /\ step[c] = "request"
    /\ op[c] \in Commands
    /\ Ran(c) \/ UNCHANGED runs
    /\ TryAgain(c) \/ GiveUp(c)
    /\ UNCHANGED <<registryVars, fleet, callVars, refreshed, listVars>>

(***************************************************************************)
(* The steps in between.                                                   *)
(***************************************************************************)

\* (variant: the list goes on where the 401 stopped it, without the pages
\* that were read before)
RefreshKeepsPage(c) ==
    /\ step[c] = "refresh"
    /\ refreshed' = refreshed \cup {c}
    /\ got' = [got EXCEPT ![c] = <<>>]
    /\ attempt' = [attempt EXCEPT ![c] = 0]
    /\ Continue(c, "request")
    /\ UNCHANGED <<registryVars, fleet, callVars, page, expected, runs>>

\* The whole client method runs again, with the new token.
Refresh(c) ==
    /\ step[c] = "refresh"
    /\ refreshed' = refreshed \cup {c}
    /\ Run(c, owner[c], op[c])
    /\ Continue(c, "request")
    /\ UNCHANGED <<registryVars, fleet, owner, discoveries, runs>>

RefreshFails(c) ==
    /\ step[c] = "refresh"
    /\ Answer(c, "reauthorize")
    /\ UNCHANGED <<registryVars, fleet, callVars, refreshed, attempt, listVars,
                   runs>>

\* sync_vehicles with the list.
Synchronize(c) ==
    /\ step[c] = "sync"
    /\ SyncVehicles(owner[c], Range(got[c]))
    /\ Answer(c, "ok")
    /\ UNCHANGED <<fleet, callVars, refreshed, attempt, listVars, runs>>

\* A vehicle is another user's, or Firestore failed.
SynchronizeFails(c) ==
    /\ step[c] = "sync"
    /\ Answer(c, "error")
    /\ UNCHANGED <<registryVars, fleet, callVars, refreshed, attempt, listVars,
                   runs>>

CallStep(c) ==
    \/ \E u \in Users : BeginTool(c, u) \/ BeginDiscovery(c, u)
    \/ RefuseTool(c)
    \/ Served(c) \/ ServedPage(c) \/ ServedLastPage(c) \/ Unusable(c)
    \/ Unauthorized(c) \/ Rejected(c) \/ Lost(c) \/ ProxyLost(c)
    \/ Refresh(c) \/ RefreshFails(c) \/ Synchronize(c) \/ SynchronizeFails(c)

Next ==
    \/ \E c \in Calls : CallStep(c)
    \/ \E u \in Users :
          \/ \E v \in VINs : Join(u, v)
          \/ \E i \in DOMAIN fleet[u] : Leave(u, i)

Spec == Init /\ [][Next]_vars

(***************************************************************************)
(* Properties.                                                             *)
(***************************************************************************)

\* "Typed Fleet API calls with no implicit wake-up or command retry": whatever
\* gets lost, and with the second execution after a 401, no operation that
\* changes something is carried out twice for one call.
WritesRunOnce ==
    \A c \in Calls : op[c] \in DirectWrites \cup Commands => runs[c] <= 1

\* list_vehicles, asked page by page: a list that is returned has every vehicle
\* the account held all the time (if none left meanwhile), although the first
\* execution may have been cut off by a 401 on any page.
ListingsComplete ==
    \A c \in Calls :
        op[c] = "list" /\ reply[c] = "ok" => expected[c] \subseteq Range(got[c])

\* A discovery makes a vehicle not_returned (_sync_vehicles) only if it was not
\* on the account all the time since the list's first page was asked for, and
\* never because the list failed or ended early.  When another vehicle leaves
\* the account while the pages are read, one that stays may be lost: nothing is
\* said of that list.
KeptWhileListed ==
    [][\A c \in Calls, v \in VINs :
         /\ step[c] = "sync"
         /\ step'[c] = "done"
         /\ v \in expected[c]
         /\ vehicles[<<owner[c], v>>] = "active"
         => vehicles'[<<owner[c], v>>] = "active"]_vars
=============================================================================
