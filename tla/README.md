# Woodhouse in TLA+

Woodhouse gives each of its users an MCP server for their own Tesla vehicles: a
gateway on Cloud Run that keeps one Tesla OAuth connection per user, a telemetry
processor that files what the vehicles stream into one BigQuery dataset per user
(and a reconciler that publishes views over it), and a telemetry edge VM whose
certificate a scheduled job renews. Little of it is algorithmically deep. What is hard is that every one of these programs is a
sequence of remote calls (Firestore, Secret Manager, Tesla, BigQuery, an ACME CA),
several copies of it run at once, and any copy may stop between two calls. The
modules here make every such call a step and let the steps interleave.

## 1. Inventory

Paths are relative to `src/`. *Hard* says what a unit test hardly reaches.

| Component | State it keeps | Operations | Hard | Correct when |
|---|---|---|---|---|
| Identity and allowlist (`packages/auth/.../firestore.py`, `admin.py`) | `allowlist/{email}`: user id, status, provisioning state, bound identity; `identities/{issuer,subject}` | `add_user` (three transactions and a BigQuery provisioning), `disable`, `reset_identity`, `resolve_or_bind` | operators overlap each other and logins; add-user stops half-way; emails change hands | both collections agree; one identity per user; only provisioned users are active |
| Tesla OAuth connection (`services/mcp-gateway/.../tesla_onboarding.py`, `tesla_firestore.py`, `packages/tesla-client/.../session.py`, `oauth.py`) | `tesla_oauth_states/{hash}`; `tesla_connections/{user}`: token set, version, status, region | `start`, `callback`, `decline`, `access_for_user`, `rotate_refresh_token`, `refresh_fleet_status` and the forced refresh of `execute()` | refresh tokens are single-use; two instances refresh at once; a reconnect replaces the credential meanwhile; the answer of the token endpoint, or the commit, is lost | the stored refresh token is one Tesla accepts; nothing overwrites a newer credential; a state is redeemed once |
| Vehicle registry (same store) | `tesla_connections/.../vehicles`, `vehicle_index/{vin}` | `sync_vehicles`, fleet-status updates | two users claim one VIN; a vehicle sold | one owner per VIN; index and record agree |
| Certificate renewer (`services/certificate-renewer/.../main.py`) | Secret Manager: certificate, key, ACME state, release manifest, trust profile, trust readiness | one scheduled job: read, decide, certbot, four additions, VM reset, verification, pruning | killed between any two calls, no retries; scheduled and manual executions overlap; time-outs race the boot; trust cutovers | a manifest names one certificate; nothing a release needs is pruned; only approved profiles are released; the renewal is eventually done |
| Telemetry edge VM (`infra/terraform/scripts/telemetry-edge-startup.sh`) | `tls`, `tls-previous`, `deployed-tls-release`, the receiver container, a guest attribute | the startup script: fetch, install, start, roll back, report | a reset or failure between any two commands | it ends up serving the newest release, or the last healthy pair |
| Telemetry ingestion (`services/telemetry-processor`) | rows in the user's dataset, quarantine rows | Pub/Sub push: resolve VIN, owner, user; append; acknowledge | at-least-once delivery, no insert ids, reads without a transaction while ownership or status changes | an acknowledged message is stored, in the dataset of the VIN's owner |
| Telemetry configuration control (`telemetry_control.py`) | per vehicle the configuration state, audit records | apply, verify, remove, repair, canary-first transport reconciliation | Tesla accepts but does not synchronise in time; apply and remove overlap; instances with different trust profiles; a client upgraded between plan and write | what is stored as synchronised has been on the vehicle; fields are only ever what an operator asked for; the canary goes first |
| MCP command execution and audit (`mcp_tools.py`, `mcp_policy.py`) | one audit record per command | begin audit, wake, send, finalise | sent but not finalised; sent again after a 401 | no command without an audit record; what the caller is told agrees with it; a command is carried out at most once |
| Analytics view reconciler (`packages/auth/.../bigquery_admin.py`) | views and access entries of every dataset | preflight, promote, roll back, temporary reader | a definition that BigQuery rejects; promotion or roll-back fails half-way; overlapping runs; objects of others | a run alone publishes all of its release or nothing; nothing unmanaged is touched |
| Browser login and sessions (`browser_auth.py`) | pending logins, sessions | start, complete, resolve, log out | replayed or misdirected redirects; two tabs; responses out of order; another sign-in in the same browser | a login completes once, in the browser that started it; a form acts for the session it was made for |
| Gateway HTTP boundary, MCP server, settings (`app.py`, `mcp_server.py`, `gateway_runtime.py`) | cookies in the browser | routing, authentication, CSRF, Tesla's redirect; limits, wiring | redirects and forms of an earlier session | with browser sessions above |
| Tesla Fleet API client (`packages/tesla-client/.../fleet.py`, `vehicle_commands.py`, `transport.py`) | none | typed requests, bounded retries of reads, pages of the vehicle list, the second execution after a 401 | a lost answer of a write; a list cut off half-way | no write is carried out twice; a returned list is complete |
| Token encryption, OIDC verification, analytics definitions and SQL validation, operator CLIs, shared schema | none | pure functions, parsing, cryptography | | |

How they interact. Every authenticated request first runs `resolve_or_bind`
(Identity) and then acts as the user id it returns. A tool call takes the user's
access token from the Tesla connection, refreshing it when it is about to expire,
and once more by force when Tesla answers 401. The OAuth callback, which is bound to
the browser session that started it, stores the new token set, then discovers region
and vehicles (vehicle registry), then completes the connection. The telemetry edge publishes to Pub/Sub; ingestion finds the owner
through the vehicle registry and the dataset through the allowlist. The
certificate job shares Secret Manager and the VM with the edge, and its trust
profile with telemetry configuration control, whose reconciler reports when every
vehicle has taken a new profile; what approves the cutover then is the operator.

## 2. Modules

| Module | What it is |
|---|---|
| `TeslaConnection` | the connection document, OAuth states, the gateway's requests, Tesla's token endpoint |
| `CredentialHistory` | the abstract history of stored credentials that `TeslaConnection` implements |
| `TeslaConnectionProofs` | its theorems, the refinement among them |
| `Identity` | the allowlist, the identity index, add-user runs, logins |
| `CertificateRenewal` | renewal executions, secrets, the edge VM, the clock and the operator |
| `CertificateRenewalProofs` | its theorems, and the inductive invariants they rest on |
| `CommandAudit` | write calls: audit record, wake, send, finalise |
| `AuditLog` | the abstract audit log that `CommandAudit` implements |
| `AccessProofs` | the theorems of `Identity` and of `CommandAudit`, the refinement among them |
| `VehicleRegistry` | vehicle documents and the VIN index, written by callbacks |
| `TelemetryIngestion` | the telemetry processor over the vehicle registry and the allowlist |
| `TelemetryIngestionProofs` | the theorems of both |
| `TelemetryControl` | requests that change vehicles' telemetry configurations, and the vehicles that take them over |
| `TelemetryControlProofs` | its theorems |
| `AnalyticsViews` | one dataset's views and access, and the runs that reconcile them |
| `AnalyticsViewsProofs` | its theorems |
| `Gateway` | browsers, cookies, sign-ins, sessions, forms, Tesla's redirect, bearer requests |
| `GatewayProofs` | its theorems |
| `FleetRequests` | calls of the Fleet API: retries, pages, second executions, discovery over the vehicle registry |
| `FleetRequestsProofs` | its theorems |
| `MC...` | finite instances for TLC: constants, symmetry and the bounds listed in section 3 |

The definitions marked "(variant: ...)" are plausible bugs next to the definition
they would replace. No specification uses them: they are there so that each
property can be shown to break when the code is wrong.

### TeslaConnection

One platform user, because every document and Tesla grant is one user's. `Requests`
run handlers; `pc[r]` is the next remote call, `seen[r]` the credential last read
or written, `fresh[r]` the token set Tesla just returned. The steps of a request:

    access_for_user   Begin -> GetConnection -> [Exchange -> Commit [-> Reread]] -> Call
    execute()         Call -> (401) ForceRefresh -> GetConnection -> ... -> Call
    rotate            Begin -> GetConnection -> Exchange -> Commit
    callback          Consume -> ExchangeCode -> Save -> Complete
    refused           ExchangeRefused -> Mark;  fleet status: 401 twice -> MarkAfter

`Commit` is the Firestore transaction `_rotate_tokens` with its version check;
`Save` is `_save_connection`, which takes any version; `Mark` is the unconditional
update of `mark_reauthorization_required`. Each transaction is one step (Firestore
runs in PESSIMISTIC mode), every pair of calls can be separated by steps of others,
and a request can lose the answer of an exchange (`ExchangeLost`) or of a commit
(`CommitLost`), or die.

*External.* `Live`, `IssueFirst`, `IssueFrom` and `Revoke` model Tesla's token
endpoint as the code and `docs/security-model.md` rely on it: refresh tokens are
single-use, but the one used last is accepted again for a recovery window. The
closing of that window on an unreplaced token is one of the things `Revoke` stands
for.

*Abstracted.* A token set is one model value, its encryption and expiry time are
not kept: whether it is about to expire is nondeterministic. `region` is named by
the grant for which it was discovered, which is what its property tells apart.
Vehicle discovery inside the callback is a step that may fail.

`CredentialHistory` is what all this promises about the stored credential: one history,
in which each entry has the version after the last and is either a new grant (`Connect`,
by `Save`) or was refreshed with the entry before it (`Rotate`, by `Commit`). Every other
step leaves the history alone.

### Identity

An allowlist record is a row of `user`, `status`, `provisioning` and `bound`; the
index is `index` and `indexUser`, which are separate documents in the code and can
disagree in the model. An add-user run is an operator's `EnsureInvitation`,
`Provision`, `Activate`, and may stop anywhere (`AddUserStops`). A verified token is
an identity with whatever email it carries at that moment, so `Bind(i, e)` is
enabled for every pair. `granted` records the contexts served since the last reset.

### CertificateRenewal

The four secrets are `payload` (certificate, key, ACME state: sequences indexed by
version number) and `releases` (the manifests), with `gone` for destroyed versions.
A job's `step` is its next Secret Manager, ACME or Compute Engine call;
`JobStep` follows `renew_certificate` from top to bottom, the destruction of each
version being a step of its own. The VM's `vm` is the next command of the startup
script; `Edge` follows `prepare_tls`, the start of the receiver and the roll-back:

    fetch -> material -> aside -> install -> pull -> start -> mark -> report
    fetch -> pull                          no manifest: the installed pair is kept
    fetch -> legacy -> aside -> ...        nor a pair: latest certificate, then latest key
    start -> rollback                      the receiver is not healthy

A manifest that exists but cannot be read is treated by the script as a missing one
(`NoManifest`, an injected failure). A boot may fail before each of these steps, also
between a healthy start, its marker (`MarkDeployed`) and its report (`ReportSuccess`);
the start and the roll-back have outcomes of their own (`StartUnhealthy`,
`RollbackUnhealthy`), and `Reboot` may cut a boot off anywhere. A deployment is `Deploy` (the guest attribute), `Compare` (the
endpoint), the reset, then `Verify` and `Probe` again and again; `ResetVM` is that reset,
`Reboot` one for another reason. The deadline (`TooLate`) passes when the boot has ended
without success, or earlier as one of the injected failures.

*Abstracted.* A certificate with its key is a member of `Materials`; whether a
profile's trust bundle accepts it is the constant `Trusts`; whether it is due is
`due`, which time (`Age`) extends. The ACME state archive is represented by the
certificate it holds. The seven-day activation floor of a cutover, selecting an
image and rolling back to a previous one (`telemetry-edge-startup.sh:289-294`) are not
modelled. One step each: the `rm` and `mv` of `MoveAside` and of the roll-back, the
three marker files, and a healthy roll-back with its report.

### CommandAudit

`step[c]` is the next remote call of a write tool's request; the gateway's
`_execute_audited` and `_ensure_vehicle_online` become

    begin -> [preflight -> [begin_wake -> wake -> end_wake -> poll*]] -> send -> end -> done

where `begin` and `end` create and finalise the call's audit record (`audit`), and
`begin_wake` and `end_wake` the record of the automatic wake (`wakeAudit`). `verdict`
is the error or result the code carries while it still has to finalise a record,
`reply` what the caller is finally told: a result, `not_sent` (the error categories
that say nothing was sent), or `indeterminate` (`command_result_indeterminate`).
`Again` is the second attempt of `execute()`, for the wake and for the command.
`sent`, `wakes` and `executed` count for the properties.

*External.* The vehicle wakes, sleeps (`Toggle`) and carries an operation out
(`Carried`). An answer of 401 means that it did not, which is the assumption
`session.py:51` states; an answer "rejected" means the same.

*Abstracted.* Which tool is called and with what; policy, validation and redaction,
which precede the record and are pure. An error status of Tesla and a missing answer
are one case, `Unanswered`: the gateway treats both as a failure and neither says
whether the operation was carried out. The refreshes inside `execute()` are
TeslaConnection's; here there is an access token or there is none.

### VehicleRegistry and TelemetryIngestion

`VehicleRegistry` has one operation, `SyncVehicles`, the transaction `_sync_vehicles`
with any set of VINs that Tesla may list for a user; a VIN indexed for somebody else
makes it change nothing. A vehicle document's id is a hash of its first owner and the
VIN, so `vehicles` is a function of that pair. `update_fleet_status` writes only
descriptive fields and is left out with them.

`TelemetryIngestion` extends it with the processor: `content` is what Pub/Sub holds,
`step[h]` the next remote call of an HTTP handler, and one push is

    Deliver -> ReadIndex -> ReadVehicle -> ReadUser -> AppendSucceeds -> Acknowledge
            -> (quarantined or a fixture)  [Gate ->]   AppendFails    -> Drop

Registry, allowlist (`SetStatus`) and other pushes of the same message move between
any two steps: two handlers may hold one message, since Pub/Sub redelivers after 60
seconds and a handler may run for 300. `target[h]` is the owner read from the index
and then the table; `rows[m]` the set of tables with a row of the message.

*External.* Pub/Sub: a message is delivered until one delivery is acknowledged in time;
its retention (31 days) does not end. *Abstracted.* Of a message, only what
`decode_pubsub_push` and `process` branch on: its VIN, or one of the `Kinds`. How often
a table holds a row is not counted: duplicates are kept on purpose. A handler's death
before its append is left out, as it has changed nothing.

### TelemetryControl

`Ops` are requests to `TelemetryControlService`, each on an instance with its own
trust profile (two releases of the gateway serve at once during a cutover). `step[o]`
is the next Firestore or Tesla call:

    apply       Start ->         Plan -> BeginAudit -> Write -> Wait* -> Save -> Settle
    repair      Start -> Read -> Plan -> BeginAudit -> Write -> Wait* -> Save -> Settle
    verify      Start -> Plan -> Read -> BeginAudit ->          Wait* -> Save -> Settle
    remove      Start ->         Plan -> BeginAudit -> Write ->          Save -> Settle
    reconcile   Start -> List -> (Read -> Compare -> Plan -> ... -> Settle)  per vehicle

`Start` includes `inspect`: what the operator saw becomes `expected`, which `Plan`
compares again (`expected_config_hash`). `Compare` is the reconciler's check of the
opt-in and the stored fields. `Raise`, `Blocked`, `Succeed` and `Proceed` are how the
work on one vehicle ends, for the four operations and for the reconciler, which stops
after a canary that is not ready. A `Write` may be taken without an answer, and so may
`Save` and both ends of the audit record. What is saved after `remove` is `NoConfig`.

*External.* `tesla[v]` is the configuration Tesla holds, `running[v]` the one the
vehicle has taken over (`Adopt`, at any time or never); Tesla reports a configuration
synchronised when the two are the same. `Upgrade` is a new version of the vehicle's
telemetry client. *Abstracted.* A configuration is a field selection and a trust
profile and stands for its own hash; error entries are one failing outcome of `Wait`;
which vehicle is eligible is nondeterministic.

### AnalyticsViews

`Runs` are reconciliations of one dataset, each of its own release: the merge
reconciler's (`Merge`) and those of the operator's add-user. Names are `1..Last` in
the order of the definitions; `views[n]` is what a name holds, with the release whose
view it is. A run is

    [Contract ->] ReadAccess -> Grant -> Preflight -> Cleanup
       -> (Get -> [Create -> Reread ->] Put)*  per definition
       -> [List -> (Prune -> [Delete])* -> Pruned -> Check ->] Restore

with `Rollback* -> RolledBack` when a call of the promotion fails. `undo` is what the
promotion replaced, `permanent` the access read at the start and restored at the end;
`fresh` holds the runs whose last read still carries the current etag. Any call may
fail, also after it took effect; `Kill` ends a run anywhere. `Prune` looks at a view
and `Delete` deletes by name, without an etag, whatever the name holds by then.

*External.* BigQuery validates a view against the reader's access and rejects the
definition `rejected[r]`. *Abstracted.* The SQL; the shadow views, which have names of
their own, expire, and which no definition refers to (one step for all, one for their
cleanup); labels and descriptions other than the managed one.

### Gateway

A request is a handler: it arrives with the cookies its browser holds at that moment
and leaves with a response that reaches the browser later (`Reply`), so that two
responses can arrive in either order. `step[h]` is the next Firestore or provider call:

    sign_in    CreateLogin -> Reply
    callback   ConsumeLogin -> Exchange -> OpenSession -> Reply
    page       Authenticate -> Reply
    form       Authenticate -> Form -> Logout | Connect | Change
    tesla      Authenticate (or no session) -> Redeem -> Complete
    bearer     Authorize -> Api

`ConsumeLogin` deletes the pending login before the binding cookie is compared, as
`_consume_login` does. `Authenticate` resolves the session's identity anew on each
request; `Allowlist` changes who resolves at any time. A page stays open (`pages`)
and its forms carry the CSRF token of the session it was made for, which is named by
that session. Redirects may be opened any number of times and in any browser that
exists. What a form or a bearer request then does is in other modules.

*External.* `SignIn`: whom the provider's tokens name. *Abstracted.* Session and
state expiry are nondeterministic; nonce, PKCE and token verification are part of
`Exchange` failing or not. Rate and body limits and the framing of MCP change no state.

### FleetRequests

A tool call runs one client method; a discovery runs three with the callback's token
and then synchronises `VehicleRegistry`, which the module extends. `step[c]` is

    begin -> request* [-> refresh -> request*] -> done          (tool call)
    begin -> request (region) -> request* (list) -> request (status) -> sync -> done

`attempt` counts the failed attempts of one request, `page` and `got` belong to the
list. The groups of methods follow the client's `retry_safe` arguments: `_object`,
`_list` and `_value` retry, `_request_json` does not unless told, writes and commands
never do. `Refresh` starts the whole client method again, as `execute()` does.

*External.* `fleet[u]` is the account, numbered by Tesla in pages of `PageSize`;
vehicles join and leave it between two pages. A 401 means that nothing was carried out
(`session.py:51`). *Abstracted.* 429, 5xx and a missing answer are one case, `Lost`:
each may or may not have been carried out. Paths, parameters and payloads.

## 3. What TLC checks

| Run | Question | Result |
|---|---|---|
| `teslaconnection` | Do two requests of one user, each of which may also serve the OAuth redirect, keep the credential usable whatever interleaves, is lost or dies? | holds |
| `identity` | Do overlapping add-users, disables, resets and logins keep both collections consistent? | holds |
| `certificate` | One execution at a time: are needed versions kept and cutovers approved, and does the schedule finish the renewal after a failure anywhere? | holds |
| `certificate_overlap` | Two executions at once: does every manifest name one certificate? | holds |
| `certificate_prunes` | Is the newest release safe from a concurrent execution's pruning? | violated |
| `certificate_rollback` | Does the VM roll back to the last healthy pair? | violated |
| `command_audit` | Do write calls implement the audit log, and are their answers true, whatever fails? | holds |
| `telemetry` | Is every message stored before it is acknowledged, in its owner's dataset or the quarantine, whatever overlaps? | holds |
| `telemetry_control` | Do overlapping configuration requests record only what vehicles ran, keep the fields that were asked for, and move a canary first? | holds |
| `analytics_views` | Does a reconciliation publish its release or nothing, and leave what is not its own alone, next to another one? | holds |
| `gateway` | Do sign-ins, sessions, forms and Tesla's redirects stay with the browser they belong to, however they are replayed or reordered? | holds |
| `fleet_requests` | Are writes carried out once and lists returned whole, with retries, 401s and lost answers, and does a discovery keep every vehicle? | holds |

The type invariants are checked by TLC while the modules are changed and are proved
(section 4); the runs spend their time on the
properties below.

### Properties

*TeslaConnection.* `StoredTokenUsable`: the stored refresh token is accepted by
Tesla unless its whole grant is gone; no order of exchanges, lost answers,
concurrent rotations and reconnects strands the user. `RefusalMeansSuperseded`:
whoever gets `login_required` held a superseded credential or a dead grant. (It does not
keep the mark off the newer credential; see the disagreements.)
`HistorySpec`: the stored token sets implement `CredentialHistory`; no version is given
out twice or skipped, also by a reconnect, and a stored token set is only ever replaced
by one that Tesla issued in exchange for it, or by a new grant. `StateRedeemedOnce`: a duplicate
redirect redeems nothing. `RegionOfStoredGrant`: the stored region is that of the
stored grant, unless a callback was overtaken by another one's `save_connection`
before its own `complete_connection`.

*Identity.* `BindingConsistent`: the mismatch branches of `resolve_or_bind` are
dead code. `OneIdentityPerUser`: between two resets, the served pairs are
one-to-one however emails move. `ActiveImpliesProvisioned`: nobody gets in
before the dataset exists.

*CertificateRenewal.* `ActivationConsistent`: the manifest is the atomic activation
boundary, also with overlapping executions. `NewestReleaseIntact`,
`LastVerifiedIntact`: pruning never removes what the newest, or last verified,
release needs. `CutoversApproved`: no manifest names a profile whose cutover was
never approved. `EventuallyRenewed`: liveness, below.

*CommandAudit.* `AuditLogSpec`: the records implement the abstract log, in which an
operation runs only under an existing record, at most once, and a record is settled
once, truly. `ExecutedAtMostOnce`: the second attempt of `execute()` does not repeat
the command's effect. `NotSentIsTrue`, `ReplyMatchesRecord`: what the caller is told.
`WakesRecorded`: no wake without a record, no command behind an unrecorded wake.
`CallsEnd`: liveness, below.

*TelemetryIngestion.* `AckedIsStored`: only poison leaves the subscription without a
row. `OneOwner` and `RowsAreOwners`: three reads without a transaction are enough, since
the registry never moves a VIN; no user's dataset holds another's vehicle.
`DisabledIsQuarantined`: the doc's promise about disabled users holds for deliveries
that start after the disable, and not for one in progress. `EventuallyAcked`: below.

*TelemetryControl.* `SyncedWasReached`: a stored configuration is one that the vehicle
has run, whichever requests overlap, time out or lose answers. `FieldsWereAsked`: the
reconciler, and a client's upgrade between two of its reads, never bring fields to a
vehicle that no operator asked for. `CutoverProved`: no vehicle after the canary is
touched, and no readiness reported, before the new trust profile has been on the
vehicles that must prove it. `WritesRecorded`: Tesla is only written under a record.
`LoneSuccessAgrees`: after a success that nothing overlapped, Firestore and Tesla agree,
whatever was left behind before. (With an overlap they need not: apply and remove of one
vehicle each save their own outcome.)

*AnalyticsViews.* `PreflightProtects`: a release with one bad definition changes
nothing, also next to another run. `AllOrNothing`, `PublishedExactly`: a run that no
other one overlaps ends with all of its release, or with the views it found, but for
one view whose creation took effect without an answer. `UnmanagedKept`: tables are
never changed, nor are foreign views at names that no release defines. (At a name that a
release defines they may be: a roll-back of another run can put one back between `Prune`
and `Delete`.)

*Gateway.* `SessionOfItsBrowser`: login CSRF and replayed redirects put nobody's session
into a browser that did not start it. `LoginOpensOneSession`: also when its
redirect is served twice at once. `SignedOutStaysOut`: a request that comes with a
session after its logout (from another tab, ahead of the logout's answer, or because
that answer was lost and the browser kept its cookie) acts with no form, sees no page
and completes no authorization that a session started; one that was already past its
authentication when the logout came may finish. `GrantOfItsStarter`: Tesla's
redirect completes only for the session that started it, or for an API caller.

*FleetRequests.* `WritesRunOnce`: neither the retries nor the second execution carry a
write out twice. `ListingsComplete`: a returned list has every vehicle that was on the
account all along, unless one left while the pages were read. `KeptWhileListed`: the
same for the discovery that marks the others `not_returned`.

### Bounds, and why they are enough

- Two concurrent requests. The gateway has two instances with many requests each,
  but all the races are between one request that holds a credential and one that
  replaces it; the proofs have no such bound. Four token sets (`Tokens`) are two
  grants with a refresh each, or one grant refreshed three times: enough for a
  superseded credential to be superseded again while a request holds it. Two OAuth
  states: one may be replayed while the other is redeemed.
- Three emails, identities and users, two operators: an email can move to a second
  identity while a third is unbound. Proved without bounds as well.
- `Materials` bounds the certificates the CA issues: three with one cutover, two for
  the overlapping executions (one each). `MaxFailures` bounds
  the injected failures (a job dies, a boot or the receiver fails, the VM restarts):
  one in the run `certificate`, two where the roll-back needs them, none where two
  executions overlap, whose interleavings alone make the difference; that executions
  which overlap and also die write no mixed manifest is the theorem `ActivationAtomic`.
  `MaxCutovers` is one where cutovers are the question.
- Two write calls: nothing joins them but the vehicle's connectivity. `Polls` is two
  instead of `_WAKE_POLL_ATTEMPTS = 6`: an unsuccessful look followed by another one,
  and the end of the looks, all happen. The proofs leave both open.
- One message, since messages share nothing, and two handlers that may both hold it;
  two users and two VINs, so that a list can hold one free and one foreign VIN.
- Symmetry is used for sets of interchangeable model values in runs without
  liveness properties.
- TelemetryControl: two requests and two vehicles (a canary and another one, or two
  requests about one vehicle), two trust profiles, client versions that differ in both
  optional fields, one of which is upgraded (`OneUpgrade`), and one look at the
  synchronisation. Requests of more vehicles differ only in the number of rounds. The
  proofs have none of these bounds.
- AnalyticsViews: one merge run and one of add-user over two names. Two names are
  enough for "the first was replaced, the second failed", for a stale name next to a
  wanted one, and for all objects of others. Two merges differ from this pair only in
  that both prune.
- Gateway: two browsers, sign-ins, sessions and handlers; one identity, since a
  second one would only be another member of `allowed`; one Tesla state. `Few` keeps to
  one open page, one session signed out and one completed grant.
- FleetRequests: one user (the registry between users is TelemetryIngestion's), three
  vehicles on pages of one with at most two pages, so that both a full list and too long
  a list happen; two calls; two retries, so that some attempts are neither first nor last.
- Deadlock is checked in all runs but four: in `telemetry_control`,
  `analytics_views`, `gateway` and `fleet_requests` each request or run happens once, and
  the system really stops when all are over.

### Fairness

`TelemetryIngestion`: weak fairness of redelivery and of a handler's reads and answers,
strong fairness of the append and of the acknowledgement of each message: BigQuery and
Pub/Sub may fail any number of times, but not every time. `EventuallyAcked` says that
every published message is then stored (by `AckedIsStored`) and acknowledged.

`CommandAudit`: weak fairness of each call's steps, since every remote call of a
request returns or times out; none on `Killed` or on the vehicle, which may sleep
for ever. `CallsEnd` then says that every call ends.

`CertificateRenewal` states it for `EventuallyRenewed`. Weak
fairness of each job's steps: Cloud Scheduler starts an execution twice a day, and
an execution that is not killed makes progress. Weak fairness of `Edge`: a boot
runs to its end. There is none on failures, restarts, the clock or the operator.
`EventuallyRenewed` assumes that the CA can still issue (the bound `Materials` is
never exhausted), that the operator finally approves the configured profile and
that its bundle accepts the certificates issued; then, from every state a failure can leave behind, the endpoint comes to present
the newest release, not due, and stays so.

### Disagreements between documents and code

Each is a run that must find a violation; the counterexample is the evidence.

1. `NewestReleaseIntact` with two executions: `main.py:199-201` and
   `docs/runbooks/telemetry-cert-renewal.md:48-50` say lower version numbers make
   concurrent pruning safe. The numbers are per secret: a newer release may name a
   lower certificate version, which the other execution then destroys.
2. `RollbackRestoresHealthy`: `docs/runbooks/telemetry-cert-renewal.md:53-54`. A boot that
   stops after installing a pair makes the next boot delete the last healthy one.

Four more were found in the same way, are visible in a single action of the model, and
are not kept as runs:

- `docs/security-model.md:209-211` says a competing loser reloads the newer credential
  and `login_required` marks only that connection. The mark is unconditional
  (`tesla_onboarding.py:375`, `Mark`): a request that read a credential, was overtaken by
  a reconnect and then gets refused marks the new, good connection.
- `docs/runbooks/oauth-recovery.md:9-10` says the mark follows a `login_required` during
  refresh. `refresh_fleet_status` also marks when the refresh worked and the Fleet API
  answered 401 again (`MarkAfter`).
- `docs/security-model.md:82` says disable-user changes the access status. `disable` also
  writes `provisioning_state = "ready"` (`SetStatus`).
- `docs/security-model.md:439-440` ("still sent at most once") and
  `docs/mcp-tool-catalog.md:66-68`. After a 401 `execute()` sends the command again with a
  refreshed token (`Again`). `ExecutedAtMostOnce` and `WritesRunOnce` show that no harm is
  done as long as 401 means what the code takes it to mean.

The tool specifications of `coverage.py` call region, vehicle, vehicle_data and
list_vehicles `safe_read`; `fleet.py` (78, 222, 345, 361) never retries those requests.

`docs/security-model.md` also says that a success is answered "only after BigQuery
accepts the raw append"; the processor (`main.py:108-115`) acknowledges malformed envelopes without
one, deliberately, which is why `AckedIsStored` excepts them.

Seen while modelling, with no document to contradict: an unapproved cutover makes
every execution with a due certificate issue another one, since certbot runs
before the approval is checked and the candidate is dropped (`main.py:749-772`); an
add-user run in flight re-enables a user disabled meanwhile; a rotation promotes a
`discovery_pending` connection to `connected`; two overlapping callbacks can put
the earlier one's region on the later one's tokens; a newest release that was never
deployed, is not due and is not accepted by a new trust profile stops every execution
until its certificate falls due (`main.py:749-772`), which is why `EventuallyRenewed`
assumes a bundle that accepts what was issued; a `UserContext` authorizes a request that
outlives a disable or reset; telemetry routing and the explicit `vehicle_id` of a tool
(`mcp_tools.py:197-207`) do not look at `authorization_status`; a `next_page` that does
not increase keeps `list_vehicles` asking; a create of a view whose answer is lost is not
rolled back; a callback stores the new connection before it compares the user of the
session (`app.py:461`); a reader entry that another run holds temporarily is restored for
good by a run that read it as permanent; overlapping discoveries store the list that
synchronises last, and a vehicle that moves up a page while one leaves is missed.

## 4. What is proved

For every value of the constants, with no bound on requests, tokens, states, emails,
identities, users, operators, vehicles, runs, browsers, retries, pages, certificates or
executions (the `Spec` of a theorem is that of its module):

| Theorem | Statement |
|---|---|
| `TypeCorrect` | `Spec => []TypeOK` (TeslaConnection) |
| `CredentialChain` | `Spec => []CredentialInv` |
| `StoredTokenIsUsable` | `Spec => []StoredTokenUsable` |
| `OnlySupersededRefused` | `Spec => []RefusalMeansSuperseded` |
| `ImplementsHistory` | `Spec => HistorySpec` |
| `RedeemedOnce` | `Spec => StateRedeemedOnce` |
| `RegionFitsGrant` | `Spec => RegionOfStoredGrant` |
| `IdentityCorrect` | `IdentitySpec => []IdentityInv` |
| `BindingsConsistent` | `IdentitySpec => []BindingConsistent` |
| `OneIdentity` | `IdentitySpec => []OneIdentityPerUser` |
| `ActiveProvisioned` | `IdentitySpec => []ActiveImpliesProvisioned` |
| `IngestionCorrect` | `Spec => []IngestionInv` (TelemetryIngestion, with its `TypeOK`) |
| `OwnedOnce` | `Spec => []OneOwner` |
| `AckedStored` | `Spec => []AckedIsStored` |
| `RowsOwners` | `Spec => []RowsAreOwners` |
| `DisabledQuarantined` | `Spec => []DisabledIsQuarantined` |
| `AuditCorrect` | `Spec => []AuditInv` (CommandAudit, with its `TypeOK`) |
| `AtMostOnce` | `Spec => []ExecutedAtMostOnce` |
| `NotSentTrue` | `Spec => []NotSentIsTrue` |
| `RepliesRecorded` | `Spec => []ReplyMatchesRecord` |
| `WakesAreRecorded` | `Spec => []WakesRecorded` |
| `ImplementsAuditLog` | `Spec => AuditLogSpec` |
| `GatewayCorrect` | `Spec => []GatewayInv` (with `TypeOK`) |
| `SessionsStayInTheirBrowser` | `Spec => []SessionOfItsBrowser` |
| `OneSessionPerSignIn` | `Spec => []LoginOpensOneSession` |
| `SignedOutForGood` | `Spec => []SignedOutStaysOut` |
| `GrantsStayWithTheirStarter` | `Spec => []GrantOfItsStarter` |
| `RequestsCorrect` | `Spec => []RequestsInv` (FleetRequests, with its `TypeOK`) |
| `NoWriteTwice` | `Spec => []WritesRunOnce` |
| `ListsComplete` | `Spec => []ListingsComplete` |
| `DiscoveryKeeps` | `Spec => KeptWhileListed` |
| `ViewsCorrect` | `Spec => []ViewsInv` (AnalyticsViews, with its `TypeOK`) |
| `RejectedReleasesStayOut` | `Spec => []PreflightProtects` |
| `UnmanagedStay` | `Spec => UnmanagedKept` |
| `LoneRunsCorrect` | `Spec => []LoneInv` |
| `UndoneLeavesNothing` | `Spec => []AllOrNothing` |
| `SuccessPublishesAll` | `Spec => []PublishedExactly` |
| `ControlCorrect` | `Spec => []ControlInv` (TelemetryControl, with its `TypeOK`) |
| `SyncedReached` | `Spec => []SyncedWasReached` |
| `FieldsAsked` | `Spec => []FieldsWereAsked` |
| `CutoversProved` | `Spec => []CutoverProved` |
| `WritesUnderRecord` | `Spec => WritesRecorded` |
| `LoneAgrees` | `Spec => []LoneSuccessAgrees` |
| `RenewalCorrect` | `Spec => []CertificateInv` (CertificateRenewal, with its `TypeOK`) |
| `ActivationAtomic` | `Spec => []ActivationConsistent` |
| `CutoversNeedApproval` | `Spec => []CutoversApproved` |
| `LoneCorrect` | `Spec /\ []OneAtATime => []LoneInv` |
| `NewestIntact` | `Spec /\ []OneAtATime => []NewestReleaseIntact` |
| `VerifiedIntact` | `Spec /\ []OneAtATime => []LastVerifiedIntact` |
| `SingleIntact` | both, of `Spec` alone, when `Jobs` has at most one element |

*TeslaConnection.* `StoredTokenUsable` is not inductive: to know that the stored
token is one Tesla still accepts, one must know what every request in flight
holds and may still exchange. `CredentialInv` orders all token sets ever stored by
the version under which they were stored (`storedAt`): a refresh takes the version
after its parent's, versions are unique, Tesla's most recently used token of a grant
is never older than any exchanged one, and a request holds a credential that
was stored under the version it remembers. So a token exchanged from the stored
one leaves the stored one last used, and the commit either replaces exactly its
parent or fails the version check. The proof has a lemma per conjunct and in it a
step per action. `RedeemedOnce` needs that a state whose redirect is being served is
used up, without a grant, and of one request (`RedeemInv`); `RegionFitsGrant` that a
callback completes the grant it opened (`RegionInv`), and the credential chain for
the rotations, which stay in their grant.

`ImplementsHistory` has one lemma for each way a step can bear on the history: a commit
that passed the version check is a `Rotate` (`CommitRotates`, by `CommitParent`: what it
stores was refreshed with what is stored now), a save is a `Connect` (`SaveConnects`),
and everything else a stutter (`HistoryKept`; Tesla issues only token sets that were not
stored before, so issuing one rewrites no entry). Assumptions: `CallbacksAssumption`, `NoneAssumption`.

*Identity.* `IdentityInv` adds to the three properties that an add-user run past
its first transaction works on an existing record (and past provisioning on a
provisioned one), that user ids name one record, and that a served context is one
the index still stands for; the last is what makes `OneIdentityPerUser` follow from
`BindingConsistent`. Assumption: the constant `None` is no member of the sets.

*CommandAudit.* `AuditInv` says for every next step of a call which of its records
exist, how often it was sent and what its verdict entails. A step of one call leaves
the facts about the others alone (`OthersKeepFacts`), so each action is proved for its
own call only. For the refinement, each action maps to creating, running or settling
the call's entry of the log, or to a stutter. Assumption: `Polls` is a natural number.

*TelemetryIngestion.* `IngestionInv` says what each read of a delivery established
and that it is still true: `SyncKeepsRegistry` shows that an indexed VIN keeps its owner,
so what a handler read from the index holds until it appends. Assumptions:
`NoneAssumption`, `KindsAssumption` (users, VINs, kinds and tables are different things).

*Gateway.* `GatewayInv` is what is known of a request at each of its calls (`Facts`),
where a browser's cookies come from (`CookieFacts`), that a sign-in is in one place at
a time, a redirect in flight or a session (`UsedOnce`), and the histories. The facts
about a request survive the steps of others because sign-ins, sessions and Tesla states
never come back once they are used. `SignedOutStaysOut` needs `LateInv` besides: a
session that was signed out is no longer stored and never will be (`EndedInv`), and a
request that came with it afterwards does not get past its authentication, or goes on
without a session (`LateFacts`). Assumption: `NoneAssumption`.

*FleetRequests.* `WritesRunOnce` needs that a write or command which may still be sent
has not been carried out: a lost answer ends it, and a 401 says so. `ListingsComplete`
needs that the pages read so far, and the account's rows from the next page on, still
cover what is expected; a vehicle that joins comes last, and one that leaves empties
`expected` of lists being read. Assumptions: `BoundsAssumption` and the registry's.

*AnalyticsViews.* `ViewsInv` holds however runs overlap: the shape of a run's state
(`Shape`), that a run past the preflight has a release without a bad definition
(`Checked`), that it writes and undoes only at names of its release and never at a table
(`Target`, `UndoInv`), that what it is about to delete is not a foreign object at a name
that no release defines (`Stale`), and that no view, stored or remembered for a roll-back, is of a
rejected release (`Made`). What a run may claim when it is alone is `LoneInv`: it follows
the promotion name by name, and nobody else's step meets a run that is not in
`overlapped`. Assumption: `ViewsAssumption` (names of releases are no markers).

*TelemetryControl.* `ControlInv` is `SharedInv`, what is stored at Tesla and in
Firestore, with five facts per request: which kinds reach which step (`KindFacts`),
that what is going to be written was asked for and what is going to be saved was
reached (`PlanFacts`), that there is a record (`AuditFacts`), how far a reconciliation
has proved its profile (`ReconcileFacts`), and the looks (`TriesFacts`). Steps of others
only let the histories grow (`StillTrue`). Lone requests are treated as in
AnalyticsViews. Assumptions: `TelemetryAssumption`, `NoConfigAssumption`.

*CertificateRenewal.* `CertificateInv` holds however executions overlap: every manifest
names versions that were added, hold its certificate and carry a profile approved by then
(`ReleaseInv`), the new versions that an execution has added so far are those of its
candidate (`Adding`), and what it has read was there (`JobInv`). Secrets only grow
(`Grows`), so what one execution knows survives the steps of all others; destroying a
version changes `gone` and no secret. That gives `ActivationConsistent` and
`CutoversApproved`.

The two properties about pruning do not follow from it, and cannot: they are false when
executions overlap, which is the run `certificate_prunes`. They are proved of behaviours
in which no two executions are under way at once (`OneAtATime`, a hypothesis on the
behaviour, not on the constants: any number of executions may follow one another, and
die). Then `LoneInv` holds as well: the running execution has read the newest release, names
only versions added since, deploys what it released, and prunes once that is the verified
one (`LoneJobInv`); the newest manifest names no version older than those before it
(`Ascending`); and what was destroyed is older than what the last verified manifest names
(`OldDestroyed`). `SingleIntact` restates the two for the instance of the
run `certificate`, which has one job. Cloud Run does not rule an overlap out, hence the
hypothesis. Assumptions: `NoneAssumption`, `BoundsAssumption`.

*Only model-checked.* Liveness (`EventuallyRenewed`, `CallsEnd`, `EventuallyAcked`),
which needs fairness and ENABLED, and the two properties that must fail. Every other
property of a run is a theorem.

## 5. Not modelled

`PROJECT.json` lists every component with its status. Out of the models for good:
token and session cryptography, OIDC claim checks, HTTP routing and limits, building
requests and parsing answers in the Fleet client, the SQL validator and the static
view definitions (pure functions over text), command-line parsing. Settings and
wiring keep no state. Of components that are modelled in part, what is left out is
the edge VM's choice of image and configuration, descriptive fields of vehicles
(`update_fleet_status`), the partner registration of the Fleet client, and the
seven-day activation floor of the certificate job.

## 6. Plan

What is left, in this order.

1. The audit records of `TelemetryControl` as another implementation of `AuditLog`,
   which needs a history of the configurations each request saved.
2. The seven-day floor and the VM's roll-back to a previous image, in
   `CertificateRenewal`.

A component gets one run for all its properties where one instance serves them all.
