-------------------------- MODULE TelemetryControl --------------------------
(***************************************************************************)
(* The Fleet Telemetry configuration of one user's vehicles: operators     *)
(* apply, repair, verify and remove it, and a reconciler moves opted-in    *)
(* vehicles to a new server trust profile, a canary first.  Requests run   *)
(* on any instance and overlap freely; each of their Firestore and Tesla   *)
(* calls is a step, which may fail, or take effect and lose its answer.    *)
(*                                                                         *)
(* A configuration is a selection of fields and a trust profile, and is    *)
(* its own hash.  What is stored of a vehicle that is not configured, or   *)
(* no longer, is NoConfig.                                                 *)
(***************************************************************************)
EXTENDS Naturals

CONSTANTS
    Vehicles,  \* the user's vehicles
    Ops,       \* requests to the control service
    Trusts,    \* server trust profiles: hostname, port and CA bundle
    Clients,   \* minor versions of the Fleet Telemetry client, 1.0.0 on
    Attempts,  \* sync_attempts
    NoConfig,
    NoVehicle

ASSUME TelemetryAssumption ==
    /\ Attempts \in Nat \ {0}
    /\ Clients \subseteq Nat
    /\ NoVehicle \notin Vehicles

\* broad_profile: what the client is too old for is left out.
Fields(minor) ==
    {"baseline"} \cup (IF minor >= 2 THEN {"self_driving"} ELSE {})
                 \cup (IF minor >= 3 THEN {"include_fields"} ELSE {})

FieldSets == {Fields(minor) : minor \in Clients}

Desired(minor, t) == [fields |-> Fields(minor), trust |-> t]

Config == [fields : FieldSets, trust : Trusts]

ASSUME NoConfigAssumption == NoConfig \notin Config

VARIABLES
    client,    \* per vehicle, its client's version
    tesla,     \* per vehicle, the configuration Tesla holds
    running,   \* per vehicle, the configuration the vehicle has taken
    saved,     \* per vehicle, the stored hashes
    optIn,     \* vehicles with the stored transport_maintenance_opt_in
    audit,     \* per request and vehicle, the result in its audit record
    step,      \* per request, its next call
    kind,      \* per request, the operation
    trust,     \* per request, its instance's trust profile
    vehicle,   \* per request, the vehicle it is working on
    expected,  \* per request, expected_config_hash
    want,      \* per request, the desired configuration
    keep,      \* requests that will store the opt-in
    tries,     \* per request, looks at the synchronization
    canary,    \* per request, the vehicle a reconciliation starts with
    listed,    \* per request, the vehicles a reconciliation covers
    left,      \* per request, those it has not come to
    unblocked, \* reconciliations that have found every vehicle synced so far
    reply,     \* per request, what its caller was told
    reached,   \* history: configurations of Tesla's that a vehicle had taken
    asked,     \* history: the fields operators asked for, per vehicle
    overlapped \* history: requests that ran while another one did

carVars   == <<client, running, reached>>
storeVars == <<saved, optIn>>
planVars  == <<kind, trust, expected, want, keep>>
listVars  == <<vehicle, canary, listed, left, unblocked>>
history   == <<asked, overlapped>>
vars == <<carVars, tesla, storeVars, audit, step, planVars, tries, listVars,
          reply, history>>

Kinds == {"apply", "repair", "verify", "remove", "reconcile"}
Steps == {"idle", "list", "read", "compare", "plan", "audit", "write", "wait",
          "save", "succeeded", "failed", "done"}

TypeOK ==
    /\ client \in [Vehicles -> Clients]
    /\ tesla \in [Vehicles -> Config \cup {NoConfig}]
    /\ running \in [Vehicles -> Config \cup {NoConfig}]
    /\ saved \in [Vehicles -> Config \cup {NoConfig}]
    /\ optIn \subseteq Vehicles
    /\ audit \in [Ops \X Vehicles ->
                    {"none", "attempted", "succeeded", "failed"}]
    /\ step \in [Ops -> Steps]
    /\ kind \in [Ops -> Kinds]
    /\ trust \in [Ops -> Trusts]
    /\ vehicle \in [Ops -> Vehicles]
    /\ expected \in [Ops -> Config \cup {NoConfig}]
    /\ want \in [Ops -> Config \cup {NoConfig}]
    /\ keep \subseteq Ops
    /\ tries \in [Ops -> 0..Attempts]
    /\ canary \in [Ops -> Vehicles \cup {NoVehicle}]
    /\ listed \in [Ops -> SUBSET Vehicles]
    /\ left \in [Ops -> SUBSET Vehicles]
    /\ unblocked \subseteq Ops
    /\ reply \in [Ops -> {"none", "ok", "error", "ready", "blocked"}]
    /\ reached \subseteq Vehicles \X Config
    /\ asked \subseteq Vehicles \X FieldSets
    /\ overlapped \subseteq Ops

\* The control service has been in use: some vehicles run a configuration that
\* an operator asked for, and some of those are opted in.
Init ==
    /\ client \in [Vehicles -> Clients]
    /\ \E configured \in SUBSET Vehicles, t \in Trusts :
          tesla = [v \in Vehicles |-> IF v \in configured
                                     THEN Desired(client[v], t) ELSE NoConfig]
    /\ running = tesla
    /\ saved = tesla
    /\ optIn \in SUBSET {v \in Vehicles : tesla[v] # NoConfig}
    /\ reached = {<<v, tesla[v]>> : v \in {w \in Vehicles : tesla[w] # NoConfig}}
    /\ asked = {<<v, tesla[v].fields>> :
                  v \in {w \in Vehicles : tesla[w] # NoConfig}}
    /\ audit = [r \in Ops \X Vehicles |-> "none"]
    /\ step = [o \in Ops |-> "idle"]
    /\ kind \in [Ops -> Kinds]
    /\ trust \in [Ops -> Trusts]
    /\ vehicle \in [Ops -> Vehicles]
    /\ expected = [o \in Ops |-> NoConfig]
    /\ want = [o \in Ops |-> NoConfig]
    /\ keep = {}
    /\ tries = [o \in Ops |-> 0]
    /\ canary = [o \in Ops |->
                   IF kind[o] = "reconcile" THEN vehicle[o] ELSE NoVehicle]
    /\ listed = [o \in Ops |-> {}]
    /\ left = [o \in Ops |-> {}]
    /\ unblocked = {}
    /\ reply = [o \in Ops |-> "none"]
    /\ overlapped = {}

Goto(o, s) == step' = [step EXCEPT ![o] = s]

Running(o) == step[o] \notin {"idle", "done"}

Reply(o, r) ==
    /\ reply' = [reply EXCEPT ![o] = r]
    /\ Goto(o, "done")

(***************************************************************************)
(* A request begins.  Whoever applies or repairs has inspected the vehicle *)
(* and confirms the plan that was shown (one with another trust profile is *)
(* always refused).                                                        *)
(***************************************************************************)
FirstStep(o) ==
    IF kind[o] = "reconcile" THEN "list"
    ELSE IF kind[o] = "repair" THEN "read" ELSE "plan"

Start(o) ==
    /\ step[o] = "idle"
    /\ Goto(o, FirstStep(o))
    /\ expected' = [expected EXCEPT ![o] =
                      IF kind[o] \in {"apply", "repair"}
                      THEN Desired(client[vehicle[o]], trust[o]) ELSE @]
    /\ \/ kind[o] = "apply" /\ keep' = keep \cup {o}
       \/ UNCHANGED keep
    /\ overlapped' = LET others == {p \in Ops \ {o} : Running(p)}
                     IN  IF others = {} THEN overlapped
                         ELSE overlapped \cup others \cup {o}
    /\ UNCHANGED <<carVars, tesla, storeVars, audit, kind, trust, want, tries,
                   listVars, reply, asked>>

\* list_vehicles: the active ones; the canary must be among them.
List(o) ==
    /\ step[o] = "list"
    /\ \E active \in SUBSET Vehicles :
          /\ vehicle[o] \in active
          /\ listed' = [listed EXCEPT ![o] = active]
          /\ left' = [left EXCEPT ![o] = active \ {vehicle[o]}]
    /\ unblocked' = unblocked \cup {o}
    /\ Goto(o, "read")
    /\ UNCHANGED <<carVars, tesla, storeVars, audit, planVars, tries, vehicle,
                   canary, reply, history>>

(***************************************************************************)
(* How the work on one vehicle ends.  For the four operations that is the  *)
(* end of the request; a reconciliation goes on unless the canary failed.  *)
(***************************************************************************)
\* (variant: the other vehicles do not wait for the canary)
GoOnAnyway(o, u) == left[o] # {}

GoOn(o, u) == left[o] # {} /\ (vehicle[o] = canary[o] => o \in u)

Proceed(o, u) ==
    \/ /\ GoOn(o, u)
       /\ \E v \in left[o] :
             /\ vehicle' = [vehicle EXCEPT ![o] = v]
             /\ left' = [left EXCEPT ![o] = @ \ {v}]
       /\ tries' = [tries EXCEPT ![o] = 0]
       /\ Goto(o, "read")
       /\ UNCHANGED reply
    \/ /\ ~GoOn(o, u)
       /\ Reply(o, IF left[o] = {} /\ o \in u THEN "ready" ELSE "blocked")
       /\ UNCHANGED <<vehicle, left, tries>>

\* opt_in_required, field_drift_blocked or failed.
Blocked(o) ==
    /\ unblocked' = unblocked \ {o}
    /\ Proceed(o, unblocked \ {o})
    /\ UNCHANGED <<canary, listed>>

Succeed(o) ==
    /\ UNCHANGED <<canary, listed, unblocked>>
    /\ \/ kind[o] = "reconcile" /\ Proceed(o, unblocked)
       \/ /\ kind[o] # "reconcile"
          /\ Reply(o, "ok")
          /\ UNCHANGED <<vehicle, left, tries>>

\* A reconciliation itself passes on what is wrong with the connection or the
\* vehicle's owner.
Raise(o) ==
    \/ Reply(o, "error") /\ UNCHANGED <<listVars, tries>>
    \/ kind[o] = "reconcile" /\ Blocked(o)

(***************************************************************************)
(* Reading, comparing, planning: no configuration is touched yet.          *)
(***************************************************************************)

\* get_telemetry_configuration: what repair and verify keep, and the
\* reconciler compares.
Read(o) ==
    /\ step[o] = "read"
    /\ keep' = IF vehicle[o] \in optIn THEN keep \cup {o} ELSE keep \ {o}
    /\ expected' = [expected EXCEPT ![o] =
                      IF kind[o] = "reconcile" THEN saved[vehicle[o]] ELSE @]
    /\ Goto(o, IF kind[o] = "reconcile" THEN "compare"
               ELSE IF kind[o] = "repair" THEN "plan" ELSE "audit")
    /\ UNCHANGED <<carVars, tesla, storeVars, audit, kind, trust, want, tries,
                   listVars, reply, history>>

SameFields(c, minor) == c # NoConfig /\ c.fields = Fields(minor)

Compare(o) ==
    /\ step[o] = "compare"
    /\ LET v == vehicle[o]
       IN  \/ /\ o \in keep
              /\ SameFields(expected[o], client[v])
              /\ expected' = [expected EXCEPT ![o] =
                                Desired(client[v], trust[o])]
              /\ Goto(o, "plan")
              /\ UNCHANGED <<tries, listVars, reply>>
           \/ /\ ~(o \in keep /\ SameFields(expected[o], client[v]))
              /\ Blocked(o)
              /\ UNCHANGED expected
    /\ UNCHANGED <<carVars, tesla, storeVars, audit, kind, trust, want, keep,
                   history>>

\* (variant: the plan is not compared again)
AlwaysFresh(o, c) == TRUE

\* The plan that was confirmed is still the plan.
Fresh(o, c) == kind[o] \in {"verify", "remove"} \/ expected[o] = c

\* _eligible_vehicle, then fleet_status of the vehicle (remove has no plan).
Plan(o) ==
    /\ step[o] = "plan"
    /\ LET v == vehicle[o]
           c == IF kind[o] = "remove" THEN NoConfig
                ELSE Desired(client[v], trust[o])
       IN  /\ Fresh(o, c)
           /\ want' = [want EXCEPT ![o] = c]
           /\ asked' = IF kind[o] \in {"apply", "repair"}
                       THEN asked \cup {<<v, c.fields>>} ELSE asked
    /\ Goto(o, IF kind[o] = "verify" THEN "read" ELSE "audit")
    /\ UNCHANGED <<carVars, tesla, storeVars, audit, kind, trust, expected,
                   keep, tries, listVars, reply, overlapped>>

\* A stale plan, an ineligible vehicle or a failed call, outside the audited
\* part.  The reconciler's own calls are not guarded by its except clauses.
Refuse(o) ==
    /\ \/ step[o] \in {"list", "read", "compare"}
          /\ Reply(o, "error") /\ UNCHANGED <<listVars, tries>>
       \/ step[o] = "plan" /\ Raise(o)
    /\ UNCHANGED <<carVars, tesla, storeVars, audit, planVars, history>>

(***************************************************************************)
(* The audited part.                                                       *)
(***************************************************************************)
Record(o, result) == audit' = [audit EXCEPT ![<<o, vehicle[o]>>] = result]

\* begin_telemetry_config_audit: the record exists before Tesla is called.
BeginAudit(o) ==
    /\ step[o] = "audit"
    /\ Record(o, "attempted")
    /\ \/ Goto(o, IF kind[o] = "verify" THEN "wait" ELSE "write")
          /\ UNCHANGED <<tries, listVars, reply>>
       \/ Raise(o)
    /\ UNCHANGED <<carVars, tesla, storeVars, planVars, history>>

\* (variant: Tesla is called all the same)
BeginAuditFailsOpen(o) ==
    /\ step[o] = "audit"
    /\ Goto(o, IF kind[o] = "verify" THEN "wait" ELSE "write")
    /\ UNCHANGED <<carVars, tesla, storeVars, audit, planVars, tries, listVars,
                   reply, history>>

BeginAuditFails(o) ==
    /\ step[o] = "audit"
    /\ Raise(o)
    /\ UNCHANGED <<carVars, tesla, storeVars, audit, planVars, history>>

\* fleet_telemetry_config_create or _delete: Tesla takes it and says so, or
\* skips the vehicle, or does either and the answer is lost.
Write(o) ==
    /\ step[o] = "write"
    /\ \/ /\ tesla' = [tesla EXCEPT ![vehicle[o]] = want[o]]
          /\ \/ Goto(o, IF kind[o] = "remove" THEN "save" ELSE "wait")
             \/ Goto(o, "failed")
       \/ UNCHANGED tesla /\ Goto(o, "failed")
    /\ UNCHANGED <<carVars, storeVars, audit, planVars, tries, listVars,
                   reply, history>>

\* (variant: only the fields are read back)
InSyncFields(c, d) == c # NoConfig /\ c.fields = d.fields

\* config_diff: trust and fields, read back from Tesla.
InSync(c, d) == c = d

\* (variant: the last look is taken for an answer)
WaitThenSave(o) ==
    /\ step[o] = "wait"
    /\ tries' = [tries EXCEPT ![o] = @ + 1]
    /\ Goto(o, IF tries[o] + 1 < Attempts THEN "wait" ELSE "save")
    /\ UNCHANGED <<carVars, tesla, storeVars, audit, planVars, listVars, reply,
                   history>>

\* fleet_telemetry_config_get: synced is Tesla's word for a vehicle that runs
\* what Tesla holds.  Then fleet_telemetry_errors: none of the last fifteen
\* minutes, and none undated.
Wait(o) ==
    /\ step[o] = "wait"
    /\ LET v == vehicle[o]
       IN  IF running[v] = tesla[v] /\ InSync(tesla[v], want[o])
           THEN (Goto(o, "save") \/ Goto(o, "failed")) /\ UNCHANGED tries
           ELSE /\ tries' = [tries EXCEPT ![o] = @ + 1]
                /\ \/ tries[o] + 1 < Attempts /\ UNCHANGED step
                   \/ Goto(o, "failed")
    /\ UNCHANGED <<carVars, tesla, storeVars, audit, planVars, listVars, reply,
                   history>>

\* save_telemetry_configuration: every field of the stored configuration.
Store(o) ==
    LET v == vehicle[o]
    IN  /\ saved' = [saved EXCEPT ![v] = want[o]]
        /\ optIn' = IF kind[o] # "remove" /\ o \in keep
                    THEN optIn \cup {v} ELSE optIn \ {v}

Save(o) ==
    /\ step[o] = "save"
    /\ Store(o)
    /\ Goto(o, "succeeded") \/ Goto(o, "failed")
    /\ UNCHANGED <<carVars, tesla, audit, planVars, tries, listVars, reply,
                   history>>

SaveFails(o) ==
    /\ step[o] = "save"
    /\ Goto(o, "failed")
    /\ UNCHANGED <<carVars, tesla, storeVars, audit, planVars, tries, listVars,
                   reply, history>>

\* complete_telemetry_config_audit.  When that fails, a configuration that was
\* saved is reported as an error.
Settle(o) ==
    /\ \/ /\ step[o] = "succeeded"
          /\ Record(o, "succeeded")
          /\ Succeed(o) \/ Raise(o)
       \/ /\ step[o] = "failed"
          /\ Record(o, "failed")
          /\ Raise(o)
    /\ UNCHANGED <<carVars, tesla, storeVars, planVars, history>>

SettleFails(o) ==
    /\ step[o] \in {"succeeded", "failed"}
    /\ Raise(o)
    /\ UNCHANGED <<carVars, tesla, storeVars, audit, planVars, history>>

(***************************************************************************)
(* The vehicles.                                                           *)
(***************************************************************************)

\* A vehicle takes over what Tesla holds for it.
Adopt(v) ==
    /\ running[v] # tesla[v]
    /\ running' = [running EXCEPT ![v] = tesla[v]]
    /\ reached' = IF tesla[v] = NoConfig THEN reached
                  ELSE reached \cup {<<v, tesla[v]>>}
    /\ UNCHANGED <<client, tesla, storeVars, audit, step, planVars, tries,
                   listVars, reply, history>>

Upgrade(v) ==
    /\ \E minor \in Clients :
          minor > client[v] /\ client' = [client EXCEPT ![v] = minor]
    /\ UNCHANGED <<running, reached, tesla, storeVars, audit, step, planVars,
                   tries, listVars, reply, history>>

OpStep(o) ==
    \/ List(o) \/ Read(o) \/ Compare(o) \/ Plan(o) \/ Refuse(o)
    \/ BeginAudit(o) \/ BeginAuditFails(o) \/ Write(o) \/ Wait(o)
    \/ Save(o) \/ SaveFails(o) \/ Settle(o) \/ SettleFails(o)

Next ==
    \/ \E o \in Ops : Start(o) \/ OpStep(o)
    \/ \E v \in Vehicles : Adopt(v) \/ Upgrade(v)

\* Nothing is fair: a request that is killed takes no further step.
Spec == Init /\ [][Next]_vars

(***************************************************************************)
(* Properties.                                                             *)
(***************************************************************************)

\* A configuration is recorded as synced only if the vehicle has run exactly
\* it, whatever overlaps with the request that records it.
SyncedWasReached ==
    \A v \in Vehicles : saved[v] # NoConfig => <<v, saved[v]>> \in reached

\* No vehicle ever gets a selection of fields that no operator asked for: the
\* reconciler changes the transport and nothing else, also when the client is
\* upgraded between its comparison and its plan.
FieldsWereAsked ==
    \A v \in Vehicles : tesla[v] # NoConfig => <<v, tesla[v].fields>> \in asked

\* A vehicle after the canary is touched only when the canary has run a
\* configuration with the new trust profile, and the reconciliation reports
\* ready_for_server_cutover only when every vehicle it covers has.
Proved(v, t) == \E c \in Config : c.trust = t /\ <<v, c>> \in reached

CutoverProved ==
    \A o \in Ops : kind[o] = "reconcile" =>
        /\ reply[o] = "ready" => \A v \in listed[o] : Proved(v, trust[o])
        /\ \A v \in Vehicles \ {canary[o]} :
              audit[<<o, v>>] # "none" => Proved(canary[o], trust[o])

\* A request that no other request overlapped with and that succeeded leaves
\* the stored configuration in agreement with Tesla, whatever earlier ones left
\* behind when they failed.
LoneSuccessAgrees ==
    \A o \in Ops \ overlapped :
        step[o] = "succeeded" => saved[vehicle[o]] = tesla[vehicle[o]]

\* Tesla's configuration of a vehicle changes only under a record that says so.
WritesRecorded ==
    [][\A v \in Vehicles : tesla'[v] # tesla[v] =>
          \E o \in Ops : vehicle[o] = v /\ audit[<<o, v>>] = "attempted"]_vars
=============================================================================
