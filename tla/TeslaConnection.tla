--------------------------- MODULE TeslaConnection ---------------------------
(***************************************************************************)
(* One platform user's Tesla connection: the document                      *)
(* tesla_connections/{user_id}, the one-time OAuth states that lead to it, *)
(* the requests of the MCP gateway's instances that read, rotate, mark and *)
(* replace it, and Tesla's token endpoint.                                 *)
(*                                                                         *)
(* The gateway runs on up to two instances and every Firestore or Tesla    *)
(* call of a request is a step of its own, so requests interleave between  *)
(* any two calls and may die between them.  A token set (access token plus *)
(* refresh token) is one member of Tokens.                                 *)
(***************************************************************************)
EXTENDS Naturals

CONSTANTS
    Requests,   \* concurrent gateway requests of this user
    Callbacks,  \* the requests that may serve Tesla's OAuth redirect
    Tokens,     \* the token sets Tesla can issue; bounds the exchanges
    States,     \* the OAuth state values start() can create
    None        \* Python's None, and "no such token"

ASSUME CallbacksAssumption == Callbacks \subseteq Requests
ASSUME NoneAssumption == None \notin Tokens \cup States

VARIABLES
    status,        \* the connection document: its status,
    token_version, \* the version of the stored credential,
    token,         \* the stored (encrypted) token set,
    region,        \* and region and base_url, named by the grant they belong to
    oauthState,    \* tesla_oauth_states/{sha256(state)}
    issued,        \* Tesla: token sets issued so far
    parent,        \* Tesla: the token set that was exchanged for this one
    family,        \* Tesla: the grant of a token set, named by its first one
    lastUsed,      \* Tesla: per grant, the refresh token most recently used
    revoked,       \* Tesla: grants that no longer authorize anything
    pc,            \* per request, the next call it makes
    kind,          \* per request, the handler it runs
    forced,        \* per request, execute() is in its forced-refresh attempt
    seen,          \* per request, the credential it last read or wrote
    fresh,         \* per request, the token set Tesla just returned
    stateOf,       \* per request, the OAuth state it consumed
    storedAt,      \* history: the version under which a token set was stored
    grantOf        \* history: the grant an OAuth state was redeemed for

connVars    == <<status, token_version, token, region>>
teslaVars   == <<issued, parent, family, lastUsed, revoked>>
requestVars == <<pc, kind, forced, seen, fresh>>
historyVars == <<storedAt, grantOf>>
vars        == <<connVars, oauthState, teslaVars, requestVars, stateOf,
                 historyVars>>

Statuses == {"absent", "discovery_pending", "connected",
             "reauthorization_required"}
Kinds    == {"use", "fleet_status", "rotate"}
Steps    == {"idle", "read", "exchange", "commit", "reread", "call", "mark",
             "mark_after", "code", "save", "complete"}

MaybeToken == Tokens \cup {None}
Credential == [token : MaybeToken, version : Nat]

\* Types, and what save_connection and rotate_tokens establish: a stored
\* document has a token set and counts its versions from 1.
TypeOK ==
    /\ status \in Statuses
    /\ token_version \in Nat
    /\ token \in MaybeToken
    /\ region \in MaybeToken
    /\ status # "absent" => token_version > 0 /\ token \in Tokens
    /\ oauthState \in [States -> {"none", "pending", "expired", "used"}]
    /\ issued \in SUBSET Tokens
    /\ parent \in [Tokens -> MaybeToken]
    /\ family \in [Tokens -> MaybeToken]
    /\ lastUsed \in [Tokens -> MaybeToken]
    /\ revoked \in SUBSET MaybeToken
    /\ pc \in [Requests -> Steps]
    /\ kind \in [Requests -> Kinds]
    /\ forced \in [Requests -> BOOLEAN]
    /\ seen \in [Requests -> Credential]
    /\ fresh \in [Requests -> MaybeToken]
    /\ stateOf \in [Requests -> States \cup {None}]
    /\ storedAt \in [Tokens -> Nat]
    /\ grantOf \in [States -> MaybeToken]

Nothing == [token |-> None, version |-> 0]
Current == [token |-> token, version |-> token_version]

Init ==
    /\ status = "absent"
    /\ token_version = 0
    /\ token = None
    /\ region = None
    /\ oauthState = [s \in States |-> "none"]
    /\ issued = {}
    /\ parent = [t \in Tokens |-> None]
    /\ family = [t \in Tokens |-> None]
    /\ lastUsed = [t \in Tokens |-> None]
    /\ revoked = {}
    /\ pc = [r \in Requests |-> "idle"]
    /\ kind = [r \in Requests |-> "use"]
    /\ forced = [r \in Requests |-> FALSE]
    /\ seen = [r \in Requests |-> Nothing]
    /\ fresh = [r \in Requests |-> None]
    /\ stateOf = [r \in Requests |-> None]
    /\ storedAt = [t \in Tokens |-> 0]
    /\ grantOf = [s \in States |-> None]

(***************************************************************************)
(* Tesla's token endpoint (external).  Refresh tokens are single-use with  *)
(* a recovery window for the most recently used one: of a grant, Tesla     *)
(* accepts the token used last and the tokens it was exchanged for.        *)
(***************************************************************************)
Live(t) ==
    /\ t \in issued
    /\ family[t] \notin revoked
    /\ lastUsed[family[t]] \in {t, parent[t]}

\* A code exchange opens a grant, named by its first token set n.
IssueFirst(n) ==
    /\ n \in Tokens \ issued
    /\ issued' = issued \cup {n}
    /\ family' = [family EXCEPT ![n] = n]
    /\ UNCHANGED <<parent, lastUsed, revoked>>

\* A refresh exchange of t returns the new token set n.
IssueFrom(t, n) ==
    /\ Live(t)
    /\ n \in Tokens \ issued
    /\ issued' = issued \cup {n}
    /\ family' = [family EXCEPT ![n] = family[t]]
    /\ parent' = [parent EXCEPT ![n] = t]
    /\ lastUsed' = [lastUsed EXCEPT ![family[t]] = t]
    /\ UNCHANGED revoked

\* The user withdraws consent, the refresh token's three months pass, or the
\* 24-hour recovery window closes on a token that was used but not replaced.
Revoke(t) ==
    /\ t \in issued
    /\ family[t] \notin revoked
    /\ revoked' = revoked \cup {family[t]}
    /\ UNCHANGED <<connVars, oauthState, issued, parent, family, lastUsed,
                   requestVars, stateOf, historyVars>>

(***************************************************************************)
(* Firestore writes of the connection document.                            *)
(***************************************************************************)

\* the version a first connection gets
FirstVersion == 1

NextVersion == IF status = "absent" THEN FirstVersion ELSE token_version + 1

\* (variant: a reconnect keeps the region and base URL of the old grant)
SaveConnectionKeepingRegion(t) ==
    /\ status' = "discovery_pending"
    /\ token_version' = NextVersion
    /\ token' = t
    /\ region' = region
    /\ storedAt' = [storedAt EXCEPT ![t] = NextVersion]

SaveConnection(t) ==
    /\ status' = "discovery_pending"
    /\ token_version' = NextVersion
    /\ token' = t
    /\ region' = None
    /\ storedAt' = [storedAt EXCEPT ![t] = NextVersion]

\* (variant: the rotation is stored without comparing versions)
VersionUnchecked(r) == TRUE
VersionMatches(r) == token_version = seen[r].version

RotateTokens(r) ==
    /\ status' = "connected"
    /\ token_version' = seen[r].version + 1
    /\ token' = fresh[r]
    /\ storedAt' = [storedAt EXCEPT ![fresh[r]] = seen[r].version + 1]
    /\ UNCHANGED region

\* An unconditional update of one field.
MarkReauthorizationRequired ==
    /\ status' = "reauthorization_required"
    /\ UNCHANGED <<token_version, token, region>>

\* An unconditional update of status, region and base_url.
CompleteConnection(t) ==
    /\ status' = "connected"
    /\ region' = t
    /\ UNCHANGED <<token_version, token>>

(***************************************************************************)
(* Requests that need Tesla access: _access_token and execute(), alone     *)
(* ("use") or inside refresh_fleet_status, and the rotate handler.         *)
(***************************************************************************)
Become(r, step, k, f, c, n) ==
    /\ pc' = [pc EXCEPT ![r] = step]
    /\ kind' = [kind EXCEPT ![r] = k]
    /\ forced' = [forced EXCEPT ![r] = f]
    /\ seen' = [seen EXCEPT ![r] = c]
    /\ fresh' = [fresh EXCEPT ![r] = n]

\* The request ends; its local variables are gone.
Finish(r) == Become(r, "idle", "use", FALSE, Nothing, None)

Goto(r, step) == Become(r, step, kind[r], forced[r], seen[r], fresh[r])

\* TeslaReauthorizationRequired leaves execute() or the rotate handler; only
\* refresh_fleet_status catches it, and marks the connection (again).
RaiseReauthorization(r, k) ==
    IF k = "fleet_status"
      THEN Become(r, "mark_after", k, FALSE, seen[r], None)
      ELSE Finish(r)

\* get_connection, the status check, and the choice between the stored access
\* token and a refresh (expires_at against the clock: either may be the case).
GetConnection(r, k, force) ==
    \/ status = "absent" /\ Finish(r)
    \/ status = "reauthorization_required" /\ RaiseReauthorization(r, k)
    \/ /\ status \in {"discovery_pending", "connected"}
       /\ \/ Become(r, "exchange", k, force, Current, None)
          \/ /\ k # "rotate" /\ ~force
             /\ Become(r, "call", k, force, Current, None)

Begin(r, k) ==
    /\ pc[r] = "idle"
    /\ GetConnection(r, k, FALSE)
    /\ UNCHANGED <<connVars, oauthState, teslaVars, stateOf, historyVars>>

ForceRefresh(r) ==
    /\ pc[r] = "read"
    /\ GetConnection(r, kind[r], TRUE)
    /\ UNCHANGED <<connVars, oauthState, teslaVars, stateOf, historyVars>>

\* Tesla accepts the refresh token and the answer arrives.
Exchange(r) ==
    /\ pc[r] = "exchange"
    /\ \E n \in Tokens :
         /\ IssueFrom(seen[r].token, n)
         /\ Become(r, "commit", kind[r], forced[r], seen[r], n)
    /\ UNCHANGED <<connVars, oauthState, stateOf, historyVars>>

\* Tesla accepts the refresh token, but the answer is lost or unusable: the
\* request fails and nobody knows the new token set.
ExchangeLost(r) ==
    /\ pc[r] = "exchange"
    /\ \E n \in Tokens : IssueFrom(seen[r].token, n)
    /\ Finish(r)
    /\ UNCHANGED <<connVars, oauthState, stateOf, historyVars>>

\* 401 login_required.
ExchangeRefused(r) ==
    /\ pc[r] = "exchange"
    /\ ~Live(seen[r].token)
    /\ Goto(r, "mark")
    /\ UNCHANGED <<connVars, oauthState, teslaVars, stateOf, historyVars>>

Mark(r) ==
    /\ pc[r] = "mark"
    /\ MarkReauthorizationRequired
    /\ RaiseReauthorization(r, kind[r])
    /\ UNCHANGED <<oauthState, teslaVars, stateOf, historyVars>>

MarkAfter(r) ==
    /\ pc[r] = "mark_after"
    /\ MarkReauthorizationRequired
    /\ Finish(r)
    /\ UNCHANGED <<oauthState, teslaVars, stateOf, historyVars>>

\* With credential c in hand the rotate handler answers, execute() calls Tesla.
ProceedWith(r, c) ==
    IF kind[r] = "rotate"
      THEN Finish(r)
      ELSE Become(r, "call", kind[r], forced[r], c, None)

\* rotate_tokens: the compare-and-swap on token_version.
Commit(r) ==
    /\ pc[r] = "commit"
    /\ VersionMatches(r)
    /\ RotateTokens(r)
    /\ ProceedWith(r, [token |-> fresh[r], version |-> seen[r].version + 1])
    /\ UNCHANGED <<oauthState, teslaVars, stateOf, grantOf>>

\* ConcurrentTokenRotationError.
CommitLost(r) ==
    /\ pc[r] = "commit"
    /\ ~VersionMatches(r)
    /\ Goto(r, "reread")
    /\ UNCHANGED <<connVars, oauthState, teslaVars, stateOf, historyVars>>

\* The loser reloads whatever is stored now, of any status.
Reread(r) ==
    /\ pc[r] = "reread"
    /\ ProceedWith(r, Current)
    /\ UNCHANGED <<connVars, oauthState, teslaVars, stateOf, historyVars>>

\* The Fleet API call: it ends the request, or Tesla rejects the access token,
\* which execute() answers with one forced refresh.
Call(r) ==
    /\ pc[r] = "call"
    /\ \/ Finish(r)
       \/ ~forced[r] /\ Goto(r, "read")
       \/ forced[r] /\ RaiseReauthorization(r, kind[r])
    /\ UNCHANGED <<connVars, oauthState, teslaVars, stateOf, historyVars>>

(***************************************************************************)
(* The authorization-code flow.                                            *)
(***************************************************************************)
Start(s) ==
    /\ oauthState[s] = "none"
    /\ oauthState' = [oauthState EXCEPT ![s] = "pending"]
    /\ UNCHANGED <<connVars, teslaVars, requestVars, stateOf, historyVars>>

\* expires_at passes; a later consume raises and its transaction rolls back.
Expire(s) ==
    /\ oauthState[s] = "pending"
    /\ oauthState' = [oauthState EXCEPT ![s] = "expired"]
    /\ UNCHANGED <<connVars, teslaVars, requestVars, stateOf, historyVars>>

\* (variant: the state is checked but not marked used)
ConsumeStateTwice(s) ==
    /\ oauthState[s] = "pending"
    /\ UNCHANGED oauthState

ConsumeState(s) ==
    /\ oauthState[s] = "pending"
    /\ oauthState' = [oauthState EXCEPT ![s] = "used"]

Decline(s) ==
    /\ ConsumeState(s)
    /\ UNCHANGED <<connVars, teslaVars, requestVars, stateOf, historyVars>>

\* callback: the state is consumed; a wrong browser session ends the request.
Consume(r, s) ==
    /\ pc[r] = "idle"
    /\ ConsumeState(s)
    /\ \/ Goto(r, "code") /\ stateOf' = [stateOf EXCEPT ![r] = s]
       \/ UNCHANGED <<requestVars, stateOf>>
    /\ UNCHANGED <<connVars, teslaVars, historyVars>>

ExchangeCode(r) ==
    /\ pc[r] = "code"
    /\ \E n \in Tokens :
         /\ IssueFirst(n)
         /\ Become(r, "save", kind[r], FALSE, Nothing, n)
         /\ grantOf' = [grantOf EXCEPT ![stateOf[r]] = n]
    /\ stateOf' = [stateOf EXCEPT ![r] = None]
    /\ UNCHANGED <<connVars, oauthState, storedAt>>

\* save_connection: one transaction that bumps the version and starts
\* discovery over.
Save(r) ==
    /\ pc[r] = "save"
    /\ SaveConnection(fresh[r])
    /\ Goto(r, "complete")
    /\ UNCHANGED <<oauthState, teslaVars, stateOf, grantOf>>

\* region, list_vehicles, fleet_status and sync_vehicles succeeded with this
\* callback's own access token.
Complete(r) ==
    /\ pc[r] = "complete"
    /\ CompleteConnection(fresh[r])
    /\ Finish(r)
    /\ UNCHANGED <<oauthState, teslaVars, stateOf, historyVars>>

\* A call fails with any other error, or the instance dies.
Abort(r) ==
    /\ pc[r] # "idle"
    /\ Finish(r)
    /\ stateOf' = [stateOf EXCEPT ![r] = None]
    /\ UNCHANGED <<connVars, oauthState, teslaVars, historyVars>>

Access(r) ==
    \/ \E k \in Kinds : Begin(r, k)
    \/ ForceRefresh(r) \/ Exchange(r) \/ ExchangeLost(r) \/ ExchangeRefused(r)
    \/ Mark(r) \/ MarkAfter(r) \/ Commit(r) \/ CommitLost(r) \/ Reread(r)
    \/ Call(r)

Callback(r) ==
    \/ \E s \in States : Consume(r, s)
    \/ ExchangeCode(r) \/ Save(r) \/ Complete(r)

Next ==
    \/ \E r \in Requests : Access(r) \/ Abort(r)
    \/ \E r \in Callbacks : Callback(r)
    \/ \E s \in States : Start(s) \/ Expire(s) \/ Decline(s)
    \/ \E t \in Tokens : Revoke(t)

Spec == Init /\ [][Next]_vars

(***************************************************************************)
(* Properties.                                                             *)
(***************************************************************************)

\* However requests interleave, lose answers or die, the stored refresh token
\* is one Tesla still accepts unless the whole grant is gone: no schedule of
\* _access_token and rotate_refresh_token leaves the platform locked out.
StoredTokenUsable ==
    status # "absent" /\ family[token] \notin revoked
        => Live(token)

\* What each stored token set was refreshed with.
Replaced == [t \in Tokens |-> IF storedAt[t] > 0 THEN parent[t] ELSE None]

History == INSTANCE CredentialHistory WITH
    version <- token_version, current <- token, versionOf <- storedAt,
    replaced <- Replaced

\* The stored token sets form one history (_save_connection, _rotate_tokens):
\* versions without a gap or a second use, no token set stored twice, and each
\* one refreshed with its predecessor or the first of a new grant.  A competing
\* loser never overwrites a newer credential, not even when a reconnect replaced
\* the whole grant meanwhile.
HistorySpec == History!Spec

\* login_required only ever reaches a request whose refresh token is no longer
\* the stored one, or whose grant is gone: a mark made under the version check
\* that guards the rotation would never be wrong (_access_token 374-376).
RefusalMeansSuperseded ==
    \A r \in Requests :
        /\ pc[r] = "mark"
        /\ family[seen[r].token] \notin revoked
        => seen[r].version < token_version

\* An OAuth state is redeemed for at most one grant, however often and
\* concurrently the redirect is delivered (_consume_state).
StateRedeemedOnce ==
    [][\A s \in States : grantOf[s] # None => grantOf'[s] = grantOf[s]]_vars

\* A region (and base URL) in the document was discovered with the grant whose
\* tokens it stores, whatever rotations, marks and abandoned callbacks happen.
\* Only a callback that another one overtook between its save_connection and
\* its complete_connection can store the region of a replaced grant.
Mismatched == region # None /\ region # family[token]

RegionOfStoredGrant ==
    [][~Mismatched /\ Mismatched'
          => \E r \in Requests :
                /\ pc[r] = "complete" /\ pc'[r] = "idle"
                /\ token' = token /\ family[fresh[r]] # family[token]]_vars

(***************************************************************************)
(* The inductive invariant behind StoredTokenUsable.  storedAt orders the  *)
(* token sets that were ever stored: a refresh stores the child of the     *)
(* token stored just before it, so of all stored tokens only the current   *)
(* one can be the last used one or a token issued for it.                  *)
(***************************************************************************)
Stored(t) == storedAt[t] > 0

\* What Tesla's bookkeeping says about the tokens it issued: only tokens that
\* were stored are ever exchanged, and in the order they were stored.
IssuedInv ==
    /\ \A t \in issued :
         /\ family[t] \in issued
         /\ parent[t] = None => family[t] = t
         /\ parent[t] # None =>
              /\ parent[t] \in issued
              /\ family[parent[t]] = family[t]
              /\ Stored(parent[t])
              /\ Stored(family[t])
              /\ lastUsed[family[t]] # None
              /\ storedAt[lastUsed[family[t]]] >= storedAt[parent[t]]
         /\ lastUsed[t] # None =>
              lastUsed[t] \in issued /\ Stored(lastUsed[t])
    /\ \A t \in Tokens \ issued :
         storedAt[t] = 0 /\ parent[t] = None /\ lastUsed[t] = None

\* Versions name stored tokens uniquely, and a refresh takes the next one.
VersionInv ==
    /\ \A t \in Tokens : storedAt[t] <= token_version
    /\ \A s, t \in Tokens : Stored(s) /\ storedAt[s] = storedAt[t] => s = t
    /\ \A t \in Tokens : Stored(t) /\ parent[t] # None
         => storedAt[t] = storedAt[parent[t]] + 1

ConnInv ==
    /\ status = "absent" => token_version = 0
    /\ status # "absent" =>
         /\ token \in issued
         /\ storedAt[token] = token_version
         /\ lastUsed[family[token]] \in {token, parent[token]}

\* Past its first read a request knows that the document exists, and what it
\* is about to store is a token set Tesla issued.
ProgressInv ==
    \A r \in Requests :
        /\ pc[r] \notin {"idle", "code", "save"} => status # "absent"
        /\ pc[r] \in {"commit", "save"} => fresh[r] \in Tokens

\* What a request remembers was stored once; what it is about to store is new
\* and nobody else's.
Remembers(r) ==
    /\ pc[r] \in {"exchange", "commit", "mark"} =>
         /\ seen[r].token \in issued
         /\ seen[r].version > 0
         /\ storedAt[seen[r].token] = seen[r].version
    /\ pc[r] \in {"commit", "save"} =>
         fresh[r] \in issued /\ ~Stored(fresh[r])
    /\ pc[r] = "commit" => parent[fresh[r]] = seen[r].token
    /\ pc[r] = "save" =>
         /\ parent[fresh[r]] = None
         /\ lastUsed[fresh[r]] = None

RequestInv ==
    /\ \A r \in Requests : Remembers(r)
    /\ \A r, q \in Requests :
         /\ pc[r] \in {"commit", "save"}
         /\ pc[q] \in {"commit", "save"}
         /\ fresh[r] = fresh[q]
         => r = q

CredentialInv ==
    /\ TypeOK
    /\ IssuedInv
    /\ VersionInv
    /\ ConnInv
    /\ ProgressInv
    /\ RequestInv
    /\ RefusalMeansSuperseded
=============================================================================
