------------------------- MODULE TelemetryControlProofs -------------------------
(***************************************************************************)
(* Theorems about TelemetryControl, for any vehicles, trust profiles and   *)
(* client versions and any number of requests that overlap in any way.     *)
(***************************************************************************)
EXTENDS TelemetryControl, TLAPS

\* The kinds that take a step.
KindFacts(o) ==
    /\ step[o] \in {"list", "compare"} => kind[o] = "reconcile"
    /\ step[o] = "read" => kind[o] \in {"repair", "verify", "reconcile"}
    /\ step[o] = "write" => kind[o] # "verify"

\* What a request is going to write or to record.
PlanFacts(o) ==
    /\ step[o] = "compare" /\ expected[o] # NoConfig =>
         <<vehicle[o], expected[o].fields>> \in asked
    /\ step[o] = "plan" /\ kind[o] = "reconcile" =>
         /\ expected[o] # NoConfig
         /\ <<vehicle[o], expected[o].fields>> \in asked
    /\ step[o] \in {"audit", "write", "wait", "save"} =>
         /\ kind[o] = "remove" => want[o] = NoConfig
         /\ kind[o] = "reconcile" =>
              want[o] # NoConfig /\ want[o].trust = trust[o]
         /\ kind[o] # "verify" /\ want[o] # NoConfig =>
              <<vehicle[o], want[o].fields>> \in asked
    /\ step[o] = "save" /\ want[o] # NoConfig =>
         /\ <<vehicle[o], want[o]>> \in reached
         /\ <<vehicle[o], want[o].fields>> \in asked

\* Tesla is called under a record.
AuditFacts(o) ==
    step[o] \in {"write", "wait", "save", "succeeded", "failed"} =>
       audit[<<o, vehicle[o]>>] = "attempted"

\* How far a reconciliation has come.
ReconcileFacts(o) ==
    kind[o] = "reconcile" =>
      /\ step[o] \in {"idle", "list"} => vehicle[o] = canary[o]
      /\ step[o] \notin {"idle", "list", "done"} =>
           /\ canary[o] \in listed[o] \ left[o]
           /\ left[o] \subseteq listed[o]
           /\ vehicle[o] \in listed[o] \ left[o]
           /\ o \in unblocked =>
                \A v \in listed[o] \ left[o] :
                   v = vehicle[o] \/ Proved(v, trust[o])
           /\ vehicle[o] = canary[o] \/ Proved(canary[o], trust[o])
      /\ step[o] # "done" => reply[o] = "none"
      /\ step[o] = "succeeded" => Proved(vehicle[o], trust[o])
      /\ reply[o] = "ready" => \A v \in listed[o] : Proved(v, trust[o])
      /\ \A v \in Vehicles \ {canary[o]} :
           audit[<<o, v>>] # "none" => Proved(canary[o], trust[o])

\* Looks at the synchronization are counted per vehicle.
TriesFacts(o) ==
    /\ step[o] \notin {"wait", "save", "succeeded", "failed", "done"} =>
         tries[o] = 0
    /\ step[o] = "wait" => tries[o] < Attempts

RequestInv(o) ==
    /\ KindFacts(o) /\ PlanFacts(o) /\ AuditFacts(o)
    /\ ReconcileFacts(o) /\ TriesFacts(o)

\* What is stored, at Tesla and in Firestore.
SharedInv ==
    /\ \A v \in Vehicles : running[v] # NoConfig => <<v, running[v]>> \in reached
    /\ SyncedWasReached
    /\ FieldsWereAsked
    /\ \A v \in Vehicles : saved[v] # NoConfig => <<v, saved[v].fields>> \in asked

\* The inductive invariant.
ControlInv == TypeOK /\ SharedInv /\ \A o \in Ops : RequestInv(o)

\* What a plan wants is a configuration with the fields and trust it was made
\* for.
LEMMA DesiredIsConfig ==
  ASSUME NEW m \in Clients, NEW t \in Trusts
  PROVE  /\ Desired(m, t) \in Config /\ Desired(m, t) # NoConfig
         /\ Desired(m, t).fields = Fields(m) /\ Desired(m, t).trust = t
  <1>1. Fields(m) \in FieldSets
    BY DEF FieldSets
  <1>2. Desired(m, t) \in Config
    BY <1>1 DEF Desired, Config
  <1> QED
    BY <1>2, NoConfigAssumption DEF Desired

\* A configuration's two parts have their types.
LEMMA ConfigFields ==
  ASSUME NEW c \in Config
  PROVE  c.fields \in FieldSets /\ c.trust \in Trusts
  BY DEF Config

\* The initial state satisfies the invariant.
LEMMA InitControl == Init => ControlInv
  <1> SUFFICES ASSUME Init PROVE ControlInv
    OBVIOUS
  <1>1. tesla \in [Vehicles -> Config \cup {NoConfig}]
    <2>1. PICK configured \in SUBSET Vehicles, t \in Trusts :
            tesla = [v \in Vehicles |-> IF v \in configured
                                        THEN Desired(client[v], t) ELSE NoConfig]
      BY DEF Init
    <2>2. \A v \in Vehicles : Desired(client[v], t) \in Config
      BY DesiredIsConfig DEF Init
    <2> QED
      BY <2>1, <2>2
  <1>2. \A v \in Vehicles : tesla[v] # NoConfig =>
           tesla[v] \in Config /\ tesla[v].fields \in FieldSets
    BY <1>1, ConfigFields
  <1>3. TypeOK
    <2>1. /\ client \in [Vehicles -> Clients] /\ running = tesla /\ saved = tesla
          /\ optIn \subseteq Vehicles
      BY DEF Init
    <2>2. reached \subseteq Vehicles \X Config /\ asked \subseteq Vehicles \X FieldSets
      <3> DEFINE S == {w \in Vehicles : tesla[w] # NoConfig}
      <3>1. \A v \in S : /\ v \in Vehicles /\ tesla[v] \in Config
                         /\ tesla[v].fields \in FieldSets
        BY <1>2
      <3>2. /\ reached = {<<v, tesla[v]>> : v \in S}
            /\ asked = {<<v, tesla[v].fields>> : v \in S}
        BY DEF Init
      <3> HIDE DEF S
      <3>3. reached \subseteq Vehicles \X Config
        BY <3>1, <3>2
      <3>4. asked \subseteq Vehicles \X FieldSets
        BY <3>1, <3>2
      <3> QED
        BY <3>3, <3>4
    <2>3. /\ audit \in [Ops \X Vehicles -> {"none", "attempted", "succeeded", "failed"}]
          /\ step \in [Ops -> Steps] /\ kind \in [Ops -> Kinds]
          /\ trust \in [Ops -> Trusts] /\ vehicle \in [Ops -> Vehicles]
          /\ expected \in [Ops -> Config \cup {NoConfig}]
          /\ want \in [Ops -> Config \cup {NoConfig}]
          /\ keep \subseteq Ops
      BY DEF Init, Steps
    <2>4. /\ tries \in [Ops -> 0..Attempts]
          /\ listed \in [Ops -> SUBSET Vehicles]
          /\ left \in [Ops -> SUBSET Vehicles] /\ unblocked \subseteq Ops
          /\ reply \in [Ops -> {"none", "ok", "error", "ready", "blocked"}]
          /\ overlapped \subseteq Ops
      <3>1. 0 \in 0..Attempts
        BY TelemetryAssumption
      <3>2. tries \in [Ops -> 0..Attempts]
        BY <3>1 DEF Init
      <3> QED
        BY <3>2 DEF Init
    <2>5. canary \in [Ops -> Vehicles \cup {NoVehicle}]
      BY DEF Init
    <2> QED
      BY <1>1, <2>1, <2>2, <2>3, <2>4, <2>5 DEF TypeOK
  <1>4. SharedInv
    BY DEF Init, SharedInv, SyncedWasReached, FieldsWereAsked
  <1>5. \A o \in Ops : RequestInv(o)
    <2> SUFFICES ASSUME NEW o \in Ops PROVE RequestInv(o)
      OBVIOUS
    <2>1. /\ step[o] = "idle" /\ reply[o] = "none"
          /\ \A v \in Vehicles : audit[<<o, v>>] = "none"
          /\ kind[o] = "reconcile" => vehicle[o] = canary[o]
      BY DEF Init
    <2>2. TriesFacts(o)
      BY <2>1 DEF Init, TriesFacts
    <2> QED
      BY <2>1, <2>2
      DEF RequestInv, KindFacts, PlanFacts, AuditFacts, ReconcileFacts
  <1> QED
    BY <1>3, <1>4, <1>5 DEF ControlInv

(***************************************************************************)
(* Types.                                                                  *)
(***************************************************************************)
RequestTypes ==
    /\ step \in [Ops -> Steps]
    /\ kind \in [Ops -> Kinds]
    /\ trust \in [Ops -> Trusts]
    /\ vehicle \in [Ops -> Vehicles]
    /\ expected \in [Ops -> Config \cup {NoConfig}]
    /\ want \in [Ops -> Config \cup {NoConfig}]
    /\ keep \subseteq Ops
    /\ tries \in [Ops -> 0..Attempts]
    /\ canary \in [Ops -> Vehicles \cup {NoVehicle}]
    /\ listed \in [Ops -> SUBSET Vehicles]
    /\ left \in [Ops -> SUBSET Vehicles]
    /\ unblocked \subseteq Ops
    /\ reply \in [Ops -> {"none", "ok", "error", "ready", "blocked"}]

SharedTypes ==
    /\ client \in [Vehicles -> Clients]
    /\ tesla \in [Vehicles -> Config \cup {NoConfig}]
    /\ running \in [Vehicles -> Config \cup {NoConfig}]
    /\ saved \in [Vehicles -> Config \cup {NoConfig}]
    /\ optIn \subseteq Vehicles
    /\ audit \in [Ops \X Vehicles ->
                    {"none", "attempted", "succeeded", "failed"}]
    /\ reached \subseteq Vehicles \X Config
    /\ asked \subseteq Vehicles \X FieldSets
    /\ overlapped \subseteq Ops

\* The type invariant in the two parts that are kept separately.
LEMMA Types ==
  /\ TypeOK <=> RequestTypes /\ SharedTypes
  /\ TypeOK' <=> RequestTypes' /\ SharedTypes'
  BY DEF TypeOK, RequestTypes, SharedTypes

(***************************************************************************)
(* How the work on one vehicle ends.                                       *)
(***************************************************************************)
EndTypes ==
    /\ step \in [Ops -> Steps] /\ vehicle \in [Ops -> Vehicles]
    /\ left \in [Ops -> SUBSET Vehicles] /\ tries \in [Ops -> 0..Attempts]
    /\ reply \in [Ops -> {"none", "ok", "error", "ready", "blocked"}]
    /\ unblocked \subseteq Ops

\* The other requests notice nothing.
EndOwn(o) ==
    \A p \in Ops \ {o} :
       /\ step'[p] = step[p] /\ vehicle'[p] = vehicle[p] /\ left'[p] = left[p]
       /\ reply'[p] = reply[p] /\ tries'[p] = tries[p]
       /\ p \in unblocked' <=> p \in unblocked

\* The request is done; "ready" takes that nothing is left and nothing blocked.
Finished(o, u) ==
    /\ step'[o] = "done"
    /\ vehicle' = vehicle /\ left' = left
    /\ reply'[o] = "ready" => o \in u /\ left[o] = {}

\* The reconciliation goes on with another vehicle.
GoesOn(o, u) ==
    /\ step'[o] = "read" /\ reply' = reply /\ tries'[o] = 0
    /\ vehicle'[o] \in left[o] /\ left'[o] = left[o] \ {vehicle'[o]}
    /\ vehicle[o] = canary[o] => o \in u

\* A reconciliation either ends or goes on with one of the vehicles left.
LEMMA ProceedEnds ==
  ASSUME RequestTypes, NEW o \in Ops, NEW u \in SUBSET Ops,
         unblocked' = u, unblocked \ {o} \subseteq u, u \subseteq unblocked,
         Proceed(o, u)
  PROVE  EndTypes' /\ EndOwn(o) /\ (Finished(o, u) \/ GoesOn(o, u))
  <1>0. EndTypes
    BY DEF RequestTypes, EndTypes
  <1>1. CASE /\ GoOn(o, u)
             /\ \E v \in left[o] : /\ vehicle' = [vehicle EXCEPT ![o] = v]
                                   /\ left' = [left EXCEPT ![o] = @ \ {v}]
             /\ tries' = [tries EXCEPT ![o] = 0]
             /\ Goto(o, "read") /\ UNCHANGED reply
    <2>1. PICK v \in left[o] : /\ vehicle' = [vehicle EXCEPT ![o] = v]
                               /\ left' = [left EXCEPT ![o] = @ \ {v}]
      BY <1>1
    <2>2. 0 \in 0..Attempts /\ v \in Vehicles /\ left[o] \ {v} \subseteq Vehicles
      BY <1>0, TelemetryAssumption DEF EndTypes
    <2>3. /\ step' \in [Ops -> Steps] /\ step'[o] = "read"
          /\ \A p \in Ops \ {o} : step'[p] = step[p]
      BY <1>0, <1>1 DEF EndTypes, Goto, Steps
    <2>4. /\ vehicle' \in [Ops -> Vehicles] /\ left' \in [Ops -> SUBSET Vehicles]
          /\ vehicle'[o] = v /\ left'[o] = left[o] \ {v}
          /\ \A p \in Ops \ {o} : vehicle'[p] = vehicle[p] /\ left'[p] = left[p]
      BY <1>0, <2>1, <2>2 DEF EndTypes
    <2>5. /\ tries' \in [Ops -> 0..Attempts] /\ tries'[o] = 0
          /\ \A p \in Ops \ {o} : tries'[p] = tries[p]
      BY <1>0, <1>1, <2>2 DEF EndTypes
    <2> QED
      BY <1>0, <1>1, <2>1, <2>3, <2>4, <2>5
      DEF EndTypes, EndOwn, GoesOn, GoOn
  <1>2. CASE /\ Reply(o, IF left[o] = {} /\ o \in u THEN "ready" ELSE "blocked")
             /\ UNCHANGED <<vehicle, left, tries>>
    <2>1. /\ step' \in [Ops -> Steps] /\ step'[o] = "done"
          /\ \A p \in Ops \ {o} : step'[p] = step[p]
      BY <1>0, <1>2 DEF EndTypes, Reply, Goto, Steps
    <2>2. /\ reply' \in [Ops -> {"none", "ok", "error", "ready", "blocked"}]
          /\ reply'[o] = "ready" => o \in u /\ left[o] = {}
          /\ \A p \in Ops \ {o} : reply'[p] = reply[p]
      BY <1>0, <1>2 DEF EndTypes, Reply
    <2> QED
      BY <1>0, <1>2, <2>1, <2>2 DEF EndTypes, EndOwn, Finished
  <1> QED
    BY <1>1, <1>2 DEF Proceed

\* What ends the work on a vehicle, well or not.
LEMMA SucceedEnds ==
  ASSUME RequestTypes, NEW o \in Ops, Succeed(o)
  PROVE  /\ EndTypes' /\ EndOwn(o) /\ UNCHANGED <<canary, listed, unblocked>>
         /\ \/ Finished(o, unblocked)
            \/ GoesOn(o, unblocked) /\ kind[o] = "reconcile"
  <1>0. EndTypes
    BY DEF RequestTypes, EndTypes
  <1>1. UNCHANGED <<canary, listed, unblocked>>
    BY DEF Succeed
  <1>2. CASE kind[o] = "reconcile" /\ Proceed(o, unblocked)
    <2>1. unblocked \in SUBSET Ops
      BY <1>0 DEF EndTypes
    <2> QED
      BY <1>1, <1>2, <2>1, ProceedEnds
  <1>3. CASE Reply(o, "ok") /\ UNCHANGED <<vehicle, left, tries>>
    <2>1. /\ step' \in [Ops -> Steps] /\ step'[o] = "done"
          /\ \A p \in Ops \ {o} : step'[p] = step[p]
      BY <1>0, <1>3 DEF EndTypes, Reply, Goto, Steps
    <2>2. /\ reply' \in [Ops -> {"none", "ok", "error", "ready", "blocked"}]
          /\ reply'[o] = "ok"
          /\ \A p \in Ops \ {o} : reply'[p] = reply[p]
      BY <1>0, <1>3 DEF EndTypes, Reply
    <2> QED
      BY <1>0, <1>1, <1>3, <2>1, <2>2 DEF EndTypes, EndOwn, Finished
  <1> QED
    BY <1>2, <1>3 DEF Succeed

\* A vehicle that is blocked ends a reconciliation, or spoils its readiness.
LEMMA BlockedEnds ==
  ASSUME RequestTypes, NEW o \in Ops, Blocked(o)
  PROVE  /\ EndTypes' /\ EndOwn(o) /\ UNCHANGED <<canary, listed>>
         /\ o \notin unblocked'
         /\ Finished(o, unblocked') \/ GoesOn(o, unblocked')
  <1>1. unblocked' = unblocked \ {o} /\ Proceed(o, unblocked \ {o})
    BY DEF Blocked
  <1>2. unblocked \ {o} \in SUBSET Ops
    BY DEF RequestTypes
  <1>3. EndTypes' /\ EndOwn(o)
    BY <1>1, <1>2, ProceedEnds
  <1>4. Finished(o, unblocked \ {o}) \/ GoesOn(o, unblocked \ {o})
    BY <1>1, <1>2, ProceedEnds
  <1> QED
    BY <1>1, <1>3, <1>4 DEF Blocked

\* A request that raises is over.
LEMMA ErrorEnds ==
  ASSUME RequestTypes, NEW o \in Ops,
         Reply(o, "error"), UNCHANGED <<listVars, tries>>
  PROVE  /\ EndTypes' /\ EndOwn(o) /\ UNCHANGED <<canary, listed, unblocked>>
         /\ Finished(o, {})
  <1>0. EndTypes
    BY DEF RequestTypes, EndTypes
  <1>1. /\ step' \in [Ops -> Steps] /\ step'[o] = "done"
        /\ \A p \in Ops \ {o} : step'[p] = step[p]
    BY <1>0 DEF EndTypes, Reply, Goto, Steps
  <1>2. /\ reply' \in [Ops -> {"none", "ok", "error", "ready", "blocked"}]
        /\ reply'[o] = "error"
        /\ \A p \in Ops \ {o} : reply'[p] = reply[p]
    BY <1>0 DEF EndTypes, Reply
  <1> QED
    BY <1>0, <1>1, <1>2 DEF EndTypes, EndOwn, Finished, listVars

\* A request that fails, or finds that it must not touch the vehicle.
Fails(o) ==
    \/ Reply(o, "error") /\ UNCHANGED <<listVars, tries>>
    \/ Blocked(o) /\ kind[o] = "reconcile"

\* A request that fails is over without being ready, or goes on as blocked.
LEMMA FailsEnds ==
  ASSUME RequestTypes, NEW o \in Ops, Fails(o)
  PROVE  /\ EndTypes' /\ EndOwn(o) /\ UNCHANGED <<canary, listed>>
         /\ \/ step'[o] = "done" /\ vehicle' = vehicle /\ reply'[o] # "ready"
            \/ /\ GoesOn(o, {}) /\ o \notin unblocked' /\ kind[o] = "reconcile"
  <1>1. CASE Reply(o, "error") /\ UNCHANGED <<listVars, tries>>
    BY <1>1, ErrorEnds DEF Finished
  <1>2. CASE Blocked(o) /\ kind[o] = "reconcile"
    BY <1>2, BlockedEnds DEF Finished, GoesOn
  <1> QED
    BY <1>1, <1>2 DEF Fails

\* Raising is a way of failing.
LEMMA RaiseFails == \A o \in Ops : Raise(o) => Fails(o)
  BY DEF Raise, Fails

(***************************************************************************)
(* Types, action by action.                                                *)
(***************************************************************************)
RequestStep(o) == Start(o) \/ OpStep(o)

\* The types of what an end may change give those of all requests.
LEMMA EndTypesSuffice ==
  ASSUME RequestTypes, EndTypes', UNCHANGED <<planVars, canary, listed>>
  PROVE  RequestTypes'
  BY DEF RequestTypes, EndTypes, planVars

\* A request's step keeps the types of what requests hold in memory.
LEMMA RequestTypesKept ==
  ASSUME ControlInv, NEW o \in Ops, RequestStep(o)
  PROVE  RequestTypes'
  <1>0. RequestTypes /\ SharedTypes /\ RequestInv(o)
    BY Types DEF ControlInv
  <1>1. CASE Start(o)
    <2>1. step' \in [Ops -> Steps]
      BY <1>0, <1>1 DEF RequestTypes, Start, Goto, FirstStep, Steps
    <2>2. expected' \in [Ops -> Config \cup {NoConfig}]
      <3>1. Desired(client[vehicle[o]], trust[o]) \in Config
        BY <1>0, DesiredIsConfig DEF RequestTypes, SharedTypes
      <3> QED
        BY <1>0, <1>1, <3>1 DEF RequestTypes, Start
    <2>3. keep' \subseteq Ops
      BY <1>0, <1>1 DEF RequestTypes, Start
    <2> QED
      BY <1>0, <1>1, <2>1, <2>2, <2>3 DEF RequestTypes, Start, listVars
  <1>2. CASE List(o)
    <2>1. step' \in [Ops -> Steps]
      BY <1>0, <1>2 DEF RequestTypes, List, Goto, Steps
    <2>2. listed' \in [Ops -> SUBSET Vehicles] /\ left' \in [Ops -> SUBSET Vehicles]
      BY <1>0, <1>2 DEF RequestTypes, List
    <2> QED
      BY <1>0, <1>2, <2>1, <2>2 DEF RequestTypes, List, planVars
  <1>3. CASE Read(o)
    <2>1. step' \in [Ops -> Steps]
      BY <1>0, <1>3 DEF RequestTypes, Read, Goto, Steps
    <2>2. expected' \in [Ops -> Config \cup {NoConfig}] /\ keep' \subseteq Ops
      BY <1>0, <1>3 DEF RequestTypes, SharedTypes, Read
    <2> QED
      BY <1>0, <1>3, <2>1, <2>2 DEF RequestTypes, Read, listVars
  <1>4. CASE /\ Compare(o) /\ Goto(o, "plan")
             /\ expected' = [expected EXCEPT ![o] =
                               Desired(client[vehicle[o]], trust[o])]
             /\ UNCHANGED <<tries, listVars, reply>>
    <2>1. step' \in [Ops -> Steps]
      BY <1>0, <1>4 DEF RequestTypes, Goto, Steps
    <2>2. Desired(client[vehicle[o]], trust[o]) \in Config
      BY <1>0, DesiredIsConfig DEF RequestTypes, SharedTypes
    <2>3. expected' \in [Ops -> Config \cup {NoConfig}]
      BY <1>0, <1>4, <2>2 DEF RequestTypes
    <2> QED
      BY <1>0, <1>4, <2>1, <2>3 DEF RequestTypes, Compare, listVars
  <1>5. CASE Compare(o) /\ Blocked(o) /\ UNCHANGED expected
    <2>1. UNCHANGED planVars
      BY <1>5 DEF Compare, planVars
    <2> QED
      BY <1>0, <1>5, <2>1, BlockedEnds, EndTypesSuffice
  <1>6. CASE Plan(o)
    <2>1. step' \in [Ops -> Steps]
      BY <1>0, <1>6 DEF RequestTypes, Plan, Goto, Steps
    <2>2. Desired(client[vehicle[o]], trust[o]) \in Config
      BY <1>0, DesiredIsConfig DEF RequestTypes, SharedTypes
    <2>3. want' \in [Ops -> Config \cup {NoConfig}]
      BY <1>0, <1>6, <2>2 DEF RequestTypes, Plan
    <2> QED
      BY <1>0, <1>6, <2>1, <2>3 DEF RequestTypes, Plan, listVars
  <1>7. CASE Refuse(o) \/ BeginAuditFails(o) \/ SettleFails(o)
    <2>1. Fails(o) /\ UNCHANGED planVars
      BY <1>7, RaiseFails DEF Refuse, BeginAuditFails, SettleFails, Fails
    <2> QED
      BY <1>0, <2>1, FailsEnds, EndTypesSuffice
  <1>8. CASE BeginAudit(o)
    <2>1. CASE Raise(o)
      BY <1>0, <1>8, <2>1, RaiseFails, FailsEnds, EndTypesSuffice
      DEF BeginAudit, planVars
    <2>2. CASE ~Raise(o)
      <3>1. step' \in [Ops -> Steps]
        BY <1>0, <1>8, <2>2 DEF RequestTypes, BeginAudit, Goto, Steps
      <3> QED
        BY <1>0, <1>8, <2>2, <3>1
        DEF RequestTypes, BeginAudit, listVars, planVars
    <2> QED
      BY <2>1, <2>2
  <1>9. CASE Write(o) \/ Save(o) \/ SaveFails(o)
    <2>1. step' \in [Ops -> Steps]
      BY <1>0, <1>9 DEF RequestTypes, Write, Save, SaveFails, Goto, Steps
    <2> QED
      BY <1>0, <1>9, <2>1
      DEF RequestTypes, Write, Save, SaveFails, listVars, planVars
  <1>10. CASE Wait(o)
    <2>1. step' \in [Ops -> Steps]
      BY <1>0, <1>10 DEF RequestTypes, Wait, Goto, Steps
    <2>2. tries' \in [Ops -> 0..Attempts]
      <3>1. tries[o] + 1 \in 0..Attempts
        BY <1>0, <1>10, TelemetryAssumption
        DEF RequestTypes, RequestInv, TriesFacts, Wait
      <3> QED
        BY <1>0, <1>10, <3>1 DEF RequestTypes, Wait
    <2> QED
      BY <1>0, <1>10, <2>1, <2>2 DEF RequestTypes, Wait, listVars, planVars
  <1>11. CASE Settle(o)
    <2>1. UNCHANGED planVars
      BY <1>11 DEF Settle
    <2> QED
      BY <1>0, <1>11, <2>1, RaiseFails, FailsEnds, SucceedEnds, EndTypesSuffice
      DEF Settle
  <1>12. CASE Compare(o)
    BY <1>4, <1>5, <1>12 DEF Compare
  <1> QED
    BY <1>1, <1>2, <1>3, <1>6, <1>7, <1>8, <1>9, <1>10, <1>11, <1>12
    DEF RequestStep, OpStep

(***************************************************************************)
(* What a step of request o does to what is shared.                        *)
(***************************************************************************)
SharedStep(o) ==
    /\ UNCHANGED <<client, running, reached, trust, kind>>
    /\ \/ tesla' = tesla
       \/ step[o] = "write" /\ tesla' = [tesla EXCEPT ![vehicle[o]] = want[o]]
    /\ \/ saved' = saved
       \/ step[o] = "save" /\ saved' = [saved EXCEPT ![vehicle[o]] = want[o]]
    /\ \/ audit' = audit
       \/ /\ step[o] = "audit"
          /\ audit' = [audit EXCEPT ![<<o, vehicle[o]>>] = "attempted"]
       \/ /\ step[o] \in {"succeeded", "failed"}
          /\ audit' = [audit EXCEPT ![<<o, vehicle[o]>>] = step[o]]
    /\ asked \subseteq asked'

\* A request's step changes what is shared only as SharedStep says.
LEMMA ShareSteps ==
  ASSUME NEW o \in Ops, RequestStep(o)
  PROVE  SharedStep(o)
  <1>1. UNCHANGED <<client, running, reached, trust, kind>>
    BY DEF RequestStep, OpStep, carVars, planVars, Start, List, Read, Compare,
           Plan, Refuse, BeginAudit, BeginAuditFails, Write, Wait, Save,
           SaveFails, Settle, SettleFails
  <1>2. \/ tesla' = tesla
        \/ step[o] = "write" /\ tesla' = [tesla EXCEPT ![vehicle[o]] = want[o]]
    BY DEF RequestStep, OpStep, Start, List, Read, Compare,
           Plan, Refuse, BeginAudit, BeginAuditFails, Write, Wait, Save,
           SaveFails, Settle, SettleFails
  <1>3. \/ saved' = saved
        \/ step[o] = "save" /\ saved' = [saved EXCEPT ![vehicle[o]] = want[o]]
    BY DEF RequestStep, OpStep, storeVars, Start, List, Read, Compare,
           Plan, Refuse, BeginAudit, BeginAuditFails, Write, Wait, Save, Store,
           SaveFails, Settle, SettleFails
  <1>4. \/ audit' = audit
        \/ /\ step[o] = "audit"
           /\ audit' = [audit EXCEPT ![<<o, vehicle[o]>>] = "attempted"]
        \/ /\ step[o] \in {"succeeded", "failed"}
           /\ audit' = [audit EXCEPT ![<<o, vehicle[o]>>] = step[o]]
    BY DEF RequestStep, OpStep, Record, Start, List, Read, Compare,
           Plan, Refuse, BeginAudit, BeginAuditFails, Write, Wait, Save,
           SaveFails, Settle, SettleFails
  <1>5. asked \subseteq asked'
    BY DEF RequestStep, OpStep, history, Start, List, Read, Compare,
           Plan, Refuse, BeginAudit, BeginAuditFails, Write, Wait, Save,
           SaveFails, Settle, SettleFails
  <1> QED
    BY <1>1, <1>2, <1>3, <1>4, <1>5 DEF SharedStep

\* A request's step keeps the types of what is stored and at Tesla.
LEMMA SharedTypesKept ==
  ASSUME ControlInv, NEW o \in Ops, RequestStep(o)
  PROVE  SharedTypes'
  <1>0. RequestTypes /\ SharedTypes /\ SharedStep(o)
    BY Types, ShareSteps DEF ControlInv
  <1>1. tesla' \in [Vehicles -> Config \cup {NoConfig}]
    BY <1>0 DEF RequestTypes, SharedTypes, SharedStep
  <1>2. saved' \in [Vehicles -> Config \cup {NoConfig}]
    BY <1>0 DEF RequestTypes, SharedTypes, SharedStep
  <1>3. audit' \in [Ops \X Vehicles -> {"none", "attempted", "succeeded", "failed"}]
    <2>1. <<o, vehicle[o]>> \in Ops \X Vehicles
      BY <1>0 DEF RequestTypes
    <2>2. audit \in [Ops \X Vehicles -> {"none", "attempted", "succeeded", "failed"}]
      BY <1>0 DEF SharedTypes
    <2> QED
      BY <1>0, <2>1, <2>2 DEF SharedStep
  <1>4. optIn' \subseteq Vehicles
    <2>1. optIn \subseteq Vehicles /\ vehicle[o] \in Vehicles
      BY <1>0 DEF RequestTypes, SharedTypes
    <2> QED
      BY <2>1
      DEF RequestStep, OpStep, storeVars, Start, List, Read, Compare,
          Plan, Refuse, BeginAudit, BeginAuditFails, Write, Wait, Save, Store,
          SaveFails, Settle, SettleFails
  <1>5. asked' \subseteq Vehicles \X FieldSets
    <2>1. CASE Plan(o)
      <3>1. /\ Desired(client[vehicle[o]], trust[o]).fields \in FieldSets
            /\ vehicle[o] \in Vehicles
        BY <1>0, DesiredIsConfig, ConfigFields DEF RequestTypes, SharedTypes
      <3>2. \/ asked' = asked
            \/ asked' = asked \cup
                 {<<vehicle[o], Desired(client[vehicle[o]], trust[o]).fields>>}
        BY <2>1 DEF Plan
      <3> QED
        BY <1>0, <3>1, <3>2 DEF SharedTypes
    <2>2. CASE asked' = asked
      BY <1>0, <2>2 DEF SharedTypes
    <2> QED
      BY <2>1, <2>2
      DEF RequestStep, OpStep, history, Start, List, Read, Compare, Refuse,
          BeginAudit, BeginAuditFails, Write, Wait, Save, SaveFails, Settle,
          SettleFails
  <1>6. overlapped' \subseteq Ops
    BY <1>0
    DEF SharedTypes, RequestStep, OpStep, history, Start, List, Read, Compare,
        Plan, Refuse, BeginAudit, BeginAuditFails, Write, Wait, Save,
        SaveFails, Settle, SettleFails
  <1> QED
    BY <1>0, <1>1, <1>2, <1>3, <1>4, <1>5, <1>6 DEF SharedTypes, SharedStep

\* A request's step keeps all types.
LEMMA TypesKept ==
  ASSUME ControlInv, NEW o \in Ops, RequestStep(o)
  PROVE  TypeOK'
  BY RequestTypesKept, SharedTypesKept, Types

(***************************************************************************)
(* The other requests keep their local state and their records.            *)
(***************************************************************************)
Others(o) ==
    \A p \in Ops \ {o} :
       /\ step'[p] = step[p] /\ vehicle'[p] = vehicle[p] /\ left'[p] = left[p]
       /\ reply'[p] = reply[p] /\ tries'[p] = tries[p]
       /\ expected'[p] = expected[p] /\ want'[p] = want[p]
       /\ canary'[p] = canary[p] /\ listed'[p] = listed[p]
       /\ p \in unblocked' <=> p \in unblocked
       /\ \A v \in Vehicles : audit'[<<p, v>>] = audit[<<p, v>>]

\* The end of the work on a vehicle leaves other requests alone.
LEMMA EndOwnSuffices ==
  ASSUME RequestTypes, NEW o \in Ops, EndOwn(o),
         UNCHANGED <<expected, want, canary, listed>>,
         NEW p \in Ops \ {o}
  PROVE  /\ step'[p] = step[p] /\ vehicle'[p] = vehicle[p] /\ left'[p] = left[p]
         /\ reply'[p] = reply[p] /\ tries'[p] = tries[p]
         /\ expected'[p] = expected[p] /\ want'[p] = want[p]
         /\ canary'[p] = canary[p] /\ listed'[p] = listed[p]
         /\ p \in unblocked' <=> p \in unblocked
  BY DEF EndOwn

\* A request's step leaves what other requests hold in memory alone.
LEMMA OthersStay ==
  ASSUME ControlInv, NEW o \in Ops, RequestStep(o)
  PROVE  Others(o)
  <1> SUFFICES ASSUME NEW p \in Ops \ {o}
      PROVE  /\ step'[p] = step[p] /\ vehicle'[p] = vehicle[p]
             /\ left'[p] = left[p]
             /\ reply'[p] = reply[p] /\ tries'[p] = tries[p]
             /\ expected'[p] = expected[p] /\ want'[p] = want[p]
             /\ canary'[p] = canary[p] /\ listed'[p] = listed[p]
             /\ p \in unblocked' <=> p \in unblocked
             /\ \A v \in Vehicles : audit'[<<p, v>>] = audit[<<p, v>>]
    BY DEF Others
  <1>0. RequestTypes /\ SharedTypes
    BY Types DEF ControlInv
  <1>1. \A v \in Vehicles : audit'[<<p, v>>] = audit[<<p, v>>]
    <2>1. /\ audit \in [Ops \X Vehicles -> {"none", "attempted", "succeeded", "failed"}]
          /\ \A v \in Vehicles : <<p, v>> \in Ops \X Vehicles
                                 /\ <<p, v>> # <<o, vehicle[o]>>
      BY <1>0 DEF SharedTypes
    <2> QED
      BY <2>1, ShareSteps DEF SharedStep
  <1>2. CASE Fails(o) /\ UNCHANGED planVars
    BY <1>0, <1>1, <1>2, FailsEnds, EndOwnSuffices DEF planVars
  <1>3. CASE Succeed(o) /\ UNCHANGED planVars
    BY <1>0, <1>1, <1>3, SucceedEnds, EndOwnSuffices DEF planVars
  <1>4. CASE Start(o)
    BY <1>0, <1>1, <1>4 DEF RequestTypes, Start, Goto, listVars
  <1>5. CASE List(o)
    BY <1>0, <1>1, <1>5 DEF RequestTypes, List, Goto, planVars
  <1>6. CASE Read(o)
    BY <1>0, <1>1, <1>6 DEF RequestTypes, Read, Goto, listVars
  <1>7. CASE Compare(o)
    <2>1. CASE Blocked(o) /\ UNCHANGED <<expected, want>>
      BY <1>0, <1>1, <2>1, BlockedEnds, EndOwnSuffices
    <2>2. CASE ~(Blocked(o) /\ UNCHANGED <<expected, want>>)
      BY <1>0, <1>1, <1>7, <2>2 DEF RequestTypes, Compare, Goto, listVars
    <2> QED
      BY <2>1, <2>2
  <1>8. CASE Plan(o)
    BY <1>0, <1>1, <1>8 DEF RequestTypes, Plan, Goto, listVars
  <1>9. CASE BeginAudit(o)
    BY <1>0, <1>1, <1>2, <1>9, RaiseFails
    DEF RequestTypes, BeginAudit, Goto, listVars, planVars
  <1>10. CASE Write(o) \/ Save(o) \/ SaveFails(o)
    BY <1>0, <1>1, <1>10
    DEF RequestTypes, Write, Save, SaveFails, Goto, listVars, planVars
  <1>11. CASE Wait(o)
    BY <1>0, <1>1, <1>11 DEF RequestTypes, Wait, Goto, listVars, planVars
  <1>12. CASE Refuse(o) \/ BeginAuditFails(o) \/ SettleFails(o)
    BY <1>2, <1>12, RaiseFails DEF Refuse, BeginAuditFails, SettleFails, Fails
  <1>13. CASE Settle(o)
    BY <1>2, <1>3, <1>13, RaiseFails DEF Settle
  <1> QED
    BY <1>4, <1>5, <1>6, <1>7, <1>8, <1>9, <1>10, <1>11, <1>12, <1>13
    DEF RequestStep, OpStep

(***************************************************************************)
(* The request's own invariant.                                            *)
(***************************************************************************)

\* What a vehicle has run, it has run.
LEMMA ProvedStays ==
  ASSUME UNCHANGED <<reached, trust>>
  PROVE  \A v, t : Proved(v, t)' <=> Proved(v, t)
  BY DEF Proved

\* The canary comes first in the records, too.
LEMMA CanaryFirst ==
  ASSUME ControlInv, NEW o \in Ops, RequestStep(o), kind[o] = "reconcile",
         step[o] \in {"audit", "succeeded", "failed"} \/ audit' = audit,
         NEW v \in Vehicles \ {canary[o]}, audit'[<<o, v>>] # "none"
  PROVE  Proved(canary[o], trust[o])
  <1>0. /\ RequestTypes /\ SharedTypes /\ SharedStep(o) /\ ReconcileFacts(o)
    BY Types, ShareSteps DEF ControlInv, RequestInv
  <1>1. CASE audit[<<o, v>>] # "none"
    BY <1>0, <1>1 DEF ReconcileFacts
  <1>2. CASE audit[<<o, v>>] = "none"
    <2>1. /\ audit \in [Ops \X Vehicles -> {"none", "attempted", "succeeded", "failed"}]
          /\ <<o, v>> \in Ops \X Vehicles
      BY <1>0 DEF SharedTypes
    <2>2. audit'[<<o, v>>] # audit[<<o, v>>]
      BY <1>2
    <2>3. v = vehicle[o]
      BY <1>0, <2>1, <2>2 DEF SharedStep
    <2>4. step[o] \in {"audit", "succeeded", "failed"}
      BY <2>2
    <2> QED
      BY <1>0, <2>3, <2>4 DEF ReconcileFacts
  <1> QED
    BY <1>1, <1>2

\* A request that is done.
LEMMA DoneKeeps ==
  ASSUME ControlInv, NEW o \in Ops, RequestStep(o),
         step[o] \in {"audit", "succeeded", "failed"} \/ audit' = audit,
         step'[o] = "done", canary' = canary, listed' = listed,
         kind[o] = "reconcile" /\ reply'[o] = "ready" =>
            \A v \in listed[o] : Proved(v, trust[o])
  PROVE  RequestInv(o)'
  <1>1. UNCHANGED <<reached, trust, kind>>
    BY ShareSteps DEF SharedStep
  <1>2. ReconcileFacts(o)'
    BY <1>1, CanaryFirst, ProvedStays DEF ReconcileFacts
  <1> QED
    BY <1>2 DEF RequestInv, KindFacts, PlanFacts, AuditFacts, TriesFacts

\* A reconciliation that goes on.
LEMMA GoesOnKeeps ==
  ASSUME ControlInv, NEW o \in Ops, RequestStep(o), kind[o] = "reconcile",
         step[o] \in {"audit", "succeeded", "failed"} \/ audit' = audit,
         step[o] \notin {"idle", "list", "done"},
         NEW u, GoesOn(o, u), UNCHANGED <<canary, listed>>,
         o \in u => Proved(vehicle[o], trust[o]),
         o \in unblocked' => o \in unblocked /\ o \in u
  PROVE  RequestInv(o)'
  <1>0. /\ RequestTypes /\ ReconcileFacts(o) /\ UNCHANGED <<reached, trust, kind>>
    BY Types, ShareSteps DEF ControlInv, RequestInv, SharedStep
  <1>1. /\ step'[o] = "read" /\ reply' = reply /\ tries'[o] = 0
        /\ vehicle'[o] \in left[o] /\ left'[o] = left[o] \ {vehicle'[o]}
        /\ vehicle[o] = canary[o] => o \in u
    BY DEF GoesOn
  <1>2. /\ canary[o] \in listed[o] \ left[o] /\ left[o] \subseteq listed[o]
        /\ vehicle[o] \in listed[o] \ left[o]
        /\ o \in unblocked =>
             \A v \in listed[o] \ left[o] :
                v = vehicle[o] \/ Proved(v, trust[o])
        /\ vehicle[o] = canary[o] \/ Proved(canary[o], trust[o])
        /\ reply[o] = "none"
    BY <1>0 DEF ReconcileFacts
  <1>3. Proved(canary[o], trust[o])
    BY <1>1, <1>2
  <1>4. o \in unblocked' =>
          \A v \in listed[o] \ left'[o] :
             v = vehicle'[o] \/ Proved(v, trust[o])
    BY <1>1, <1>2
  <1>5. ReconcileFacts(o)'
    BY <1>0, <1>1, <1>2, <1>3, <1>4, ProvedStays DEF ReconcileFacts
  <1> QED
    BY <1>0, <1>1, <1>5 DEF RequestInv, KindFacts, PlanFacts, AuditFacts, TriesFacts

\* A request that fails in its audited part keeps its facts.
LEMMA FailsKeeps ==
  ASSUME ControlInv, NEW o \in Ops, RequestStep(o), Fails(o),
         step[o] \in {"audit", "succeeded", "failed"} \/ audit' = audit,
         step[o] \notin {"idle", "list", "done"}
  PROVE  RequestInv(o)'
  <1>0. RequestTypes
    BY Types DEF ControlInv
  <1>1. CASE step'[o] = "done" /\ reply'[o] # "ready"
    BY <1>0, <1>1, FailsEnds, DoneKeeps
  <1>2. CASE GoesOn(o, {}) /\ o \notin unblocked' /\ kind[o] = "reconcile"
    BY <1>0, <1>2, FailsEnds, GoesOnKeeps
  <1> QED
    BY <1>0, <1>1, <1>2, FailsEnds

\* A request that raises keeps its facts.
LEMMA ErrorKeeps ==
  ASSUME ControlInv, NEW o \in Ops, RequestStep(o),
         Reply(o, "error"), UNCHANGED <<listVars, tries>>, audit' = audit
  PROVE  RequestInv(o)'
  <1>0. RequestTypes
    BY Types DEF ControlInv
  <1>1. /\ step'[o] = "done" /\ reply'[o] # "ready"
        /\ UNCHANGED <<canary, listed>>
    BY <1>0 DEF RequestTypes, Reply, Goto, listVars
  <1> QED
    BY <1>1, DoneKeeps

\* A request that ends well has proved what it reports.
LEMMA SucceedKeeps ==
  ASSUME ControlInv, NEW o \in Ops, RequestStep(o), Succeed(o),
         step[o] = "succeeded"
  PROVE  RequestInv(o)'
  <1>0. RequestTypes /\ ReconcileFacts(o)
    BY Types DEF ControlInv, RequestInv
  <1>1. CASE Finished(o, unblocked)
    <2>1. /\ step'[o] = "done" /\ canary' = canary /\ listed' = listed
          /\ reply'[o] = "ready" => o \in unblocked /\ left[o] = {}
      BY <1>0, <1>1, SucceedEnds DEF Finished
    <2>2. kind[o] = "reconcile" /\ reply'[o] = "ready" =>
            \A v \in listed[o] : Proved(v, trust[o])
      BY <1>0, <2>1 DEF ReconcileFacts
    <2> QED
      BY <2>1, <2>2, DoneKeeps
  <1>2. CASE GoesOn(o, unblocked) /\ kind[o] = "reconcile"
    <2>1. UNCHANGED <<canary, listed, unblocked>>
      BY <1>0, SucceedEnds
    <2>2. Proved(vehicle[o], trust[o])
      BY <1>0, <1>2 DEF ReconcileFacts
    <2> QED
      BY <1>2, <2>1, <2>2, GoesOnKeeps
  <1> QED
    BY <1>0, <1>1, <1>2, SucceedEnds

\* A request that stays with its vehicle.
LEMMA StaysKeeps ==
  ASSUME ControlInv, NEW o \in Ops, RequestStep(o),
         UNCHANGED <<listVars, reply>>,
         step[o] \in {"audit", "succeeded", "failed"} \/ audit' = audit,
         step[o] \notin {"idle", "list", "done"},
         step'[o] \notin {"idle", "list", "done"},
         kind[o] = "reconcile" /\ step'[o] = "succeeded" =>
            Proved(vehicle[o], trust[o])
  PROVE  ReconcileFacts(o)'
  <1>0. ReconcileFacts(o) /\ UNCHANGED <<reached, trust, kind>>
    BY ShareSteps DEF ControlInv, RequestInv, SharedStep
  <1>1. UNCHANGED <<vehicle, canary, listed, left, unblocked, reply>>
    BY DEF listVars
  <1> SUFFICES ASSUME kind[o] = "reconcile"
               PROVE  ReconcileFacts(o)'
    BY <1>0 DEF ReconcileFacts
  <1>2. \A v \in Vehicles \ {canary[o]} :
           audit'[<<o, v>>] # "none" => Proved(canary[o], trust[o])
    BY CanaryFirst
  <1> QED
    BY <1>0, <1>1, <1>2, ProvedStays DEF ReconcileFacts

(***************************************************************************)
(* The request's own steps.                                                *)
(***************************************************************************)
LEMMA StartKeeps ==
  ASSUME ControlInv, NEW o \in Ops, Start(o)
  PROVE  RequestInv(o)'
  <1>0. /\ RequestTypes /\ SharedTypes /\ SharedStep(o) /\ RequestInv(o)
    BY Types, ShareSteps DEF ControlInv, RequestStep
  <1>1. /\ step[o] = "idle" /\ step'[o] = FirstStep(o)
        /\ UNCHANGED <<trust, kind, audit, vehicle, canary, listed, left,
                       unblocked, tries, reply, reached>>
    BY <1>0 DEF RequestTypes, Start, Goto, listVars, carVars
  <1>2. /\ FirstStep(o) \in {"list", "read", "plan"}
        /\ FirstStep(o) = "list" <=> kind[o] = "reconcile"
        /\ FirstStep(o) = "read" => kind[o] = "repair"
    BY DEF FirstStep
  <1>3. KindFacts(o)' /\ PlanFacts(o)' /\ AuditFacts(o)'
    BY <1>1, <1>2 DEF KindFacts, PlanFacts, AuditFacts
  <1>4. TriesFacts(o)'
    BY <1>0, <1>1, <1>2 DEF RequestInv, TriesFacts
  <1>5. ReconcileFacts(o)'
    BY <1>0, <1>1, <1>2, ProvedStays DEF RequestInv, ReconcileFacts
  <1> QED
    BY <1>3, <1>4, <1>5 DEF RequestInv

\* The canary is among the listed vehicles and comes first (list_vehicles).
LEMMA ListKeeps ==
  ASSUME ControlInv, NEW o \in Ops, List(o)
  PROVE  RequestInv(o)'
  <1>0. /\ RequestTypes /\ RequestInv(o)
    BY Types DEF ControlInv
  <1>1. PICK active \in SUBSET Vehicles :
          /\ vehicle[o] \in active
          /\ listed' = [listed EXCEPT ![o] = active]
          /\ left' = [left EXCEPT ![o] = active \ {vehicle[o]}]
    BY DEF List
  <1>2. /\ step[o] = "list" /\ step'[o] = "read"
        /\ listed'[o] = active /\ left'[o] = active \ {vehicle[o]}
        /\ UNCHANGED <<trust, kind, audit, vehicle, canary, tries, reply, reached>>
    BY <1>0, <1>1 DEF RequestTypes, List, Goto, planVars, carVars
  <1>3. kind[o] = "reconcile" /\ vehicle[o] = canary[o]
    BY <1>0, <1>2 DEF RequestInv, KindFacts, ReconcileFacts
  <1>4. KindFacts(o)' /\ PlanFacts(o)' /\ AuditFacts(o)'
    BY <1>2, <1>3 DEF KindFacts, PlanFacts, AuditFacts
  <1>5. TriesFacts(o)'
    BY <1>0, <1>2 DEF RequestInv, TriesFacts
  <1>6. ReconcileFacts(o)'
    BY <1>0, <1>1, <1>2, <1>3, ProvedStays DEF RequestInv, ReconcileFacts
  <1> QED
    BY <1>4, <1>5, <1>6 DEF RequestInv

\* What is read of a vehicle is what is compared with next.
LEMMA ReadKeeps ==
  ASSUME ControlInv, NEW o \in Ops, Read(o)
  PROVE  RequestInv(o)'
  <1>0. /\ RequestTypes /\ SharedTypes /\ SharedInv /\ RequestInv(o)
        /\ RequestStep(o)
    BY Types DEF ControlInv, RequestStep, OpStep
  <1>1. /\ step[o] = "read"
        /\ step'[o] = IF kind[o] = "reconcile" THEN "compare"
                      ELSE IF kind[o] = "repair" THEN "plan" ELSE "audit"
        /\ expected'[o] = IF kind[o] = "reconcile" THEN saved[vehicle[o]]
                          ELSE expected[o]
        /\ UNCHANGED <<trust, kind, audit, want, tries, listVars, vehicle,
                       reply, asked, reached>>
    BY <1>0 DEF RequestTypes, Read, Goto, listVars, carVars, history
  <1>2. kind[o] \in {"repair", "verify", "reconcile"}
    BY <1>0, <1>1 DEF RequestInv, KindFacts
  <1>3. KindFacts(o)' /\ AuditFacts(o)'
    BY <1>1, <1>2 DEF KindFacts, AuditFacts
  <1>4. saved[vehicle[o]] # NoConfig =>
          <<vehicle[o], saved[vehicle[o]].fields>> \in asked
    BY <1>0 DEF SharedInv, RequestTypes
  <1>5. PlanFacts(o)'
    BY <1>1, <1>2, <1>4 DEF PlanFacts
  <1>6. TriesFacts(o)'
    BY <1>0, <1>1 DEF RequestInv, TriesFacts
  <1>7. ReconcileFacts(o)'
    BY <1>0, <1>1, <1>2, StaysKeeps
  <1> QED
    BY <1>3, <1>5, <1>6, <1>7 DEF RequestInv

\* A reconciliation goes on only with fields that were asked for.
LEMMA CompareKeeps ==
  ASSUME ControlInv, NEW o \in Ops, Compare(o)
  PROVE  RequestInv(o)'
  <1>0. /\ RequestTypes /\ SharedTypes /\ RequestInv(o) /\ RequestStep(o)
    BY Types DEF ControlInv, RequestStep, OpStep
  <1> DEFINE d == Desired(client[vehicle[o]], trust[o])
  <1>1. /\ step[o] = "compare" /\ kind[o] = "reconcile"
        /\ UNCHANGED <<trust, kind, audit, want, asked, reached>>
    BY <1>0 DEF Compare, RequestInv, KindFacts, carVars, history
  <1>2. CASE Blocked(o)
    BY <1>0, <1>1, <1>2, FailsKeeps DEF Fails
  <1>3. CASE /\ SameFields(expected[o], client[vehicle[o]])
             /\ expected' = [expected EXCEPT ![o] = d]
             /\ Goto(o, "plan") /\ UNCHANGED <<tries, listVars, reply>>
    <2>1. /\ step'[o] = "plan" /\ expected'[o] = d
          /\ UNCHANGED <<tries, vehicle>>
      BY <1>0, <1>3 DEF RequestTypes, Goto, listVars
    <2>2. /\ d # NoConfig /\ d.fields = Fields(client[vehicle[o]])
      BY <1>0, DesiredIsConfig DEF RequestTypes, SharedTypes
    <2>3. <<vehicle[o], d.fields>> \in asked
      BY <1>0, <1>1, <1>3, <2>2 DEF RequestInv, PlanFacts, SameFields
    <2>4. KindFacts(o)' /\ AuditFacts(o)'
      BY <2>1 DEF KindFacts, AuditFacts
    <2>5. PlanFacts(o)'
      BY <1>1, <2>1, <2>2, <2>3 DEF PlanFacts
    <2>6. TriesFacts(o)'
      BY <1>0, <1>1, <2>1 DEF RequestInv, TriesFacts
    <2>7. ReconcileFacts(o)'
      BY <1>0, <1>1, <1>3, <2>1, StaysKeeps
    <2> QED
      BY <2>4, <2>5, <2>6, <2>7 DEF RequestInv
  <1> QED
    BY <1>2, <1>3 DEF Compare

\* What is planned was asked for, whatever was upgraded in between.
LEMMA PlanKeeps ==
  ASSUME ControlInv, NEW o \in Ops, Plan(o)
  PROVE  RequestInv(o)'
  <1>0. /\ RequestTypes /\ SharedTypes /\ RequestInv(o) /\ RequestStep(o)
    BY Types DEF ControlInv, RequestStep, OpStep
  <1> DEFINE d == Desired(client[vehicle[o]], trust[o])
             c == IF kind[o] = "remove" THEN NoConfig ELSE d
  <1>1. /\ step[o] = "plan"
        /\ step'[o] = IF kind[o] = "verify" THEN "read" ELSE "audit"
        /\ want'[o] = c /\ Fresh(o, c)
        /\ UNCHANGED <<trust, kind, audit, expected, tries, listVars, vehicle,
                       reply, reached>>
    BY <1>0 DEF RequestTypes, Plan, Goto, listVars, carVars
  <1>2. /\ asked \subseteq asked'
        /\ kind[o] \in {"apply", "repair"} => <<vehicle[o], c.fields>> \in asked'
    BY DEF Plan
  <1>3. /\ d # NoConfig /\ d.trust = trust[o]
    BY <1>0, DesiredIsConfig DEF RequestTypes, SharedTypes
  <1>4. kind[o] = "reconcile" => <<vehicle[o], c.fields>> \in asked'
    BY <1>0, <1>1, <1>2 DEF RequestInv, PlanFacts, Fresh
  <1>5. kind[o] \in Kinds
    BY <1>0 DEF RequestTypes
  <1>6. KindFacts(o)' /\ AuditFacts(o)'
    BY <1>1 DEF KindFacts, AuditFacts
  <1>7. PlanFacts(o)'
    BY <1>1, <1>2, <1>3, <1>4, <1>5 DEF PlanFacts, Kinds
  <1>8. TriesFacts(o)'
    BY <1>0, <1>1 DEF RequestInv, TriesFacts
  <1>9. ReconcileFacts(o)'
    BY <1>0, <1>1, StaysKeeps
  <1> QED
    BY <1>6, <1>7, <1>8, <1>9 DEF RequestInv

\* Past the start of its record, a request has one; a failed start ends it.
LEMMA BeginAuditKeeps ==
  ASSUME ControlInv, NEW o \in Ops, BeginAudit(o) \/ BeginAuditFails(o)
  PROVE  RequestInv(o)'
  <1>0. /\ RequestTypes /\ SharedTypes /\ RequestInv(o) /\ RequestStep(o)
    BY Types DEF ControlInv, RequestStep, OpStep
  <1>1. /\ step[o] = "audit"
        /\ UNCHANGED <<trust, kind, want, asked, reached>>
    BY DEF BeginAudit, BeginAuditFails, carVars, planVars, history
  <1>2. CASE Raise(o)
    BY <1>0, <1>1, <1>2, RaiseFails, FailsKeeps
  <1>3. CASE /\ Record(o, "attempted")
             /\ Goto(o, IF kind[o] = "verify" THEN "wait" ELSE "write")
             /\ UNCHANGED <<tries, listVars, reply>>
    <2>1. /\ step'[o] = IF kind[o] = "verify" THEN "wait" ELSE "write"
          /\ UNCHANGED <<tries, vehicle>>
      BY <1>0, <1>3 DEF RequestTypes, Goto, listVars
    <2>2. audit'[<<o, vehicle[o]>>] = "attempted"
      <3>1. <<o, vehicle[o]>> \in Ops \X Vehicles
        BY <1>0 DEF RequestTypes
      <3> QED
        BY <1>0, <1>3, <3>1 DEF SharedTypes, Record
    <2>3. KindFacts(o)' /\ AuditFacts(o)'
      BY <1>1, <2>1, <2>2 DEF KindFacts, AuditFacts
    <2>4. PlanFacts(o)'
      BY <1>0, <1>1, <2>1 DEF RequestInv, PlanFacts
    <2>5. TriesFacts(o)'
      BY <1>0, <1>1, <2>1, TelemetryAssumption DEF RequestInv, TriesFacts
    <2>6. ReconcileFacts(o)'
      BY <1>0, <1>1, <1>3, <2>1, StaysKeeps
    <2> QED
      BY <2>3, <2>4, <2>5, <2>6 DEF RequestInv
  <1> QED
    BY <1>2, <1>3 DEF BeginAudit, BeginAuditFails

\* Writing to Tesla keeps the request's facts, also when the answer is lost.
LEMMA WriteKeeps ==
  ASSUME ControlInv, NEW o \in Ops, Write(o)
  PROVE  RequestInv(o)'
  <1>0. /\ RequestTypes /\ RequestInv(o) /\ RequestStep(o)
    BY Types DEF ControlInv, RequestStep, OpStep
  <1>1. /\ step[o] = "write"
        /\ \/ step'[o] = "save" /\ kind[o] = "remove"
           \/ step'[o] \in {"wait", "failed"}
        /\ UNCHANGED <<trust, kind, audit, want, tries, listVars, vehicle,
                       reply, asked, reached>>
    BY <1>0 DEF RequestTypes, Write, Goto, listVars, planVars, carVars, history
  <1>2. KindFacts(o)' /\ AuditFacts(o)'
    BY <1>0, <1>1 DEF RequestInv, KindFacts, AuditFacts
  <1>3. PlanFacts(o)'
    BY <1>0, <1>1 DEF RequestInv, PlanFacts
  <1>4. TriesFacts(o)'
    BY <1>0, <1>1, TelemetryAssumption DEF RequestInv, TriesFacts
  <1>5. ReconcileFacts(o)'
    BY <1>0, <1>1, StaysKeeps
  <1> QED
    BY <1>2, <1>3, <1>4, <1>5 DEF RequestInv

\* What is found synchronized is what the vehicle has taken over.
LEMMA WaitKeeps ==
  ASSUME ControlInv, NEW o \in Ops, Wait(o)
  PROVE  RequestInv(o)'
  <1>0. /\ RequestTypes /\ SharedTypes /\ SharedInv /\ RequestInv(o)
        /\ RequestStep(o)
    BY Types DEF ControlInv, RequestStep, OpStep
  <1>1. /\ step[o] = "wait"
        /\ UNCHANGED <<trust, kind, audit, want, listVars, vehicle,
                       reply, asked, reached>>
    BY DEF Wait, listVars, planVars, carVars, history
  <1>2. \/ /\ step'[o] = "save" /\ running[vehicle[o]] = tesla[vehicle[o]]
           /\ tesla[vehicle[o]] = want[o]
        \/ step'[o] = "failed"
        \/ step'[o] = "wait" /\ tries'[o] < Attempts
    <2>1. CASE /\ running[vehicle[o]] = tesla[vehicle[o]]
               /\ InSync(tesla[vehicle[o]], want[o])
      BY <1>0, <2>1 DEF RequestTypes, Wait, Goto, InSync
    <2>2. CASE /\ tries' = [tries EXCEPT ![o] = @ + 1]
               /\ \/ tries[o] + 1 < Attempts /\ UNCHANGED step
                  \/ Goto(o, "failed")
      BY <1>0, <1>1, <2>2 DEF RequestTypes, Goto
    <2> QED
      BY <2>1, <2>2 DEF Wait
  <1>3. KindFacts(o)' /\ AuditFacts(o)'
    BY <1>0, <1>1, <1>2 DEF RequestInv, KindFacts, AuditFacts
  <1>4. step'[o] = "save" /\ want[o] # NoConfig =>
          /\ <<vehicle[o], want[o]>> \in reached
          /\ <<vehicle[o], want[o].fields>> \in asked
    BY <1>0, <1>2 DEF SharedInv, FieldsWereAsked, RequestTypes
  <1>5. PlanFacts(o)'
    BY <1>0, <1>1, <1>2, <1>4 DEF RequestInv, PlanFacts
  <1>6. TriesFacts(o)'
    BY <1>0, <1>1, <1>2 DEF RequestInv, TriesFacts
  <1>7. ReconcileFacts(o)'
    BY <1>0, <1>1, <1>2, StaysKeeps
  <1> QED
    BY <1>3, <1>5, <1>6, <1>7 DEF RequestInv

\* Storing a configuration keeps the request's facts, also without an answer.
LEMMA SaveKeeps ==
  ASSUME ControlInv, NEW o \in Ops, Save(o) \/ SaveFails(o)
  PROVE  RequestInv(o)'
  <1>0. /\ RequestTypes /\ RequestInv(o) /\ RequestStep(o)
    BY Types DEF ControlInv, RequestStep, OpStep
  <1>1. /\ step[o] = "save" /\ step'[o] \in {"succeeded", "failed"}
        /\ UNCHANGED <<trust, kind, audit, want, tries, listVars, vehicle,
                       reply, asked, reached>>
    BY <1>0
    DEF RequestTypes, Save, SaveFails, Goto, listVars, planVars, carVars, history
  <1>2. KindFacts(o)' /\ AuditFacts(o)' /\ PlanFacts(o)'
    BY <1>0, <1>1 DEF RequestInv, KindFacts, AuditFacts, PlanFacts
  <1>3. TriesFacts(o)'
    BY <1>1 DEF TriesFacts
  <1>4. kind[o] = "reconcile" => Proved(vehicle[o], trust[o])
    BY <1>0, <1>1 DEF RequestInv, PlanFacts, RequestTypes, Proved
  <1>5. ReconcileFacts(o)'
    BY <1>0, <1>1, <1>4, StaysKeeps
  <1> QED
    BY <1>2, <1>3, <1>5 DEF RequestInv

\* Settling a record, or failing to, keeps the request's facts.
LEMMA SettleKeeps ==
  ASSUME ControlInv, NEW o \in Ops, Settle(o) \/ SettleFails(o)
  PROVE  RequestInv(o)'
  <1>1. RequestStep(o) /\ step[o] \in {"succeeded", "failed"}
    BY DEF RequestStep, OpStep, Settle, SettleFails
  <1>2. CASE Raise(o)
    BY <1>1, <1>2, RaiseFails, FailsKeeps
  <1>3. CASE Succeed(o) /\ step[o] = "succeeded"
    BY <1>1, <1>3, SucceedKeeps
  <1> QED
    BY <1>2, <1>3 DEF Settle, SettleFails

\* A refused request keeps its facts.
LEMMA RefuseKeeps ==
  ASSUME ControlInv, NEW o \in Ops, Refuse(o)
  PROVE  RequestInv(o)'
  <1>1. RequestStep(o) /\ audit' = audit
    BY DEF RequestStep, OpStep, Refuse
  <1>2. CASE Reply(o, "error") /\ UNCHANGED <<listVars, tries>>
    BY <1>1, <1>2, ErrorKeeps
  <1>3. CASE step[o] = "plan" /\ Raise(o)
    BY <1>1, <1>3, RaiseFails, FailsKeeps
  <1> QED
    BY <1>2, <1>3 DEF Refuse

\* Every step of a request keeps its own facts.
LEMMA OwnKeeps ==
  ASSUME ControlInv, NEW o \in Ops, RequestStep(o)
  PROVE  RequestInv(o)'
  BY StartKeeps, ListKeeps, ReadKeeps, CompareKeeps, PlanKeeps,
     BeginAuditKeeps, WriteKeeps, WaitKeeps, SaveKeeps, SettleKeeps,
     RefuseKeeps
  DEF RequestStep, OpStep

(***************************************************************************)
(* What the steps of others leave true.                                    *)
(***************************************************************************)

\* A request whose own state stays, while histories grow.
LEMMA StillTrue ==
  ASSUME RequestTypes, NEW p \in Ops, RequestInv(p),
         step'[p] = step[p], vehicle'[p] = vehicle[p], left'[p] = left[p],
         reply'[p] = reply[p], tries'[p] = tries[p],
         expected'[p] = expected[p], want'[p] = want[p],
         canary'[p] = canary[p], listed'[p] = listed[p],
         p \in unblocked' <=> p \in unblocked,
         \A v \in Vehicles : audit'[<<p, v>>] = audit[<<p, v>>],
         UNCHANGED <<kind, trust>>,
         asked \subseteq asked', reached \subseteq reached'
  PROVE  RequestInv(p)'
  <1>1. \A v : Proved(v, trust[p]) => Proved(v, trust[p])'
    BY DEF Proved
  <1>2. vehicle[p] \in Vehicles
    BY DEF RequestTypes
  <1>3. KindFacts(p)' /\ TriesFacts(p)'
    BY DEF RequestInv, KindFacts, TriesFacts
  <1>4. AuditFacts(p)'
    BY <1>2 DEF RequestInv, AuditFacts
  <1>5. PlanFacts(p)'
    BY DEF RequestInv, PlanFacts
  <1>6. ReconcileFacts(p)'
    <2> DEFINE t == trust[p]
    <2>1. \A v : Proved(v, t) => Proved(v, t)'
      BY <1>1
    <2>2. ReconcileFacts(p)
      BY DEF RequestInv
    <2> QED
      BY <1>1, <2>2 DEF ReconcileFacts
  <1> QED
    BY <1>3, <1>4, <1>5, <1>6 DEF RequestInv

\* Every step of a request keeps the facts of all requests.
LEMMA RequestsKeep ==
  ASSUME ControlInv, NEW o \in Ops, RequestStep(o), NEW p \in Ops
  PROVE  RequestInv(p)'
  <1>1. CASE p = o
    BY <1>1, OwnKeeps
  <1>2. CASE p # o
    <2>1. /\ RequestTypes /\ RequestInv(p) /\ UNCHANGED <<kind, trust, reached>>
          /\ asked \subseteq asked'
      BY Types, ShareSteps DEF ControlInv, SharedStep
    <2> QED
      BY <1>2, <2>1, OthersStay, StillTrue DEF Others
  <1> QED
    BY <1>1, <1>2

\* Every step of a request keeps the facts about what is shared.
LEMMA SharedKeeps ==
  ASSUME ControlInv, NEW o \in Ops, RequestStep(o)
  PROVE  SharedInv'
  <1>0. /\ RequestTypes /\ SharedTypes /\ SharedInv /\ RequestInv(o)
        /\ SharedStep(o)
    BY Types, ShareSteps DEF ControlInv
  <1>1. \A v \in Vehicles : running'[v] # NoConfig => <<v, running'[v]>> \in reached'
    BY <1>0 DEF SharedInv, SharedStep
  <1>2. step[o] = "save" /\ want[o] # NoConfig =>
          /\ <<vehicle[o], want[o]>> \in reached
          /\ <<vehicle[o], want[o].fields>> \in asked
    BY <1>0 DEF RequestInv, PlanFacts
  <1>3. step[o] = "write" /\ want[o] # NoConfig =>
          <<vehicle[o], want[o].fields>> \in asked
    BY <1>0 DEF RequestInv, PlanFacts, KindFacts
  <1>4. SyncedWasReached'
    BY <1>0, <1>2 DEF SharedInv, SyncedWasReached, SharedStep, SharedTypes
  <1>5. \A v \in Vehicles : saved'[v] # NoConfig => <<v, saved'[v].fields>> \in asked'
    BY <1>0, <1>2 DEF SharedInv, SharedStep, SharedTypes
  <1>6. FieldsWereAsked'
    BY <1>0, <1>3 DEF SharedInv, FieldsWereAsked, SharedStep, SharedTypes
  <1> QED
    BY <1>1, <1>4, <1>5, <1>6 DEF SharedInv

\* A vehicle that takes over a configuration or is upgraded keeps them all.
LEMMA VehiclesKeep ==
  ASSUME ControlInv, NEW v \in Vehicles, Adopt(v) \/ Upgrade(v)
  PROVE  ControlInv'
  <1>0. TypeOK /\ RequestTypes /\ SharedInv
    BY Types DEF ControlInv
  <1>1. /\ UNCHANGED <<tesla, saved, audit, step, kind, trust, expected, want,
                       tries, vehicle, canary, listed, left, unblocked, reply,
                       asked>>
        /\ reached \subseteq reached'
    BY DEF Adopt, Upgrade, storeVars, planVars, listVars, history
  <1>2. RequestTypes'
    BY <1>0 DEF RequestTypes, Adopt, Upgrade, planVars, listVars
  <1>3. SharedTypes'
    <2>1. client' \in [Vehicles -> Clients]
      BY <1>0 DEF TypeOK, Adopt, Upgrade
    <2>2. running' \in [Vehicles -> Config \cup {NoConfig}]
      BY <1>0 DEF TypeOK, Adopt, Upgrade
    <2>3. reached' \subseteq Vehicles \X Config
      <3>1. CASE reached' = reached
        BY <1>0, <3>1 DEF TypeOK
      <3>2. CASE tesla[v] # NoConfig /\ reached' = reached \cup {<<v, tesla[v]>>}
        BY <1>0, <3>2 DEF TypeOK
      <3> QED
        BY <3>1, <3>2 DEF Adopt, Upgrade
    <2>4. UNCHANGED <<tesla, saved, optIn, audit, asked, overlapped>>
      BY DEF Adopt, Upgrade, storeVars, history
    <2> QED
      BY <1>0, <2>1, <2>2, <2>3, <2>4 DEF TypeOK, SharedTypes
  <1>4. SharedInv'
    <2>1. \A w \in Vehicles : running'[w] # NoConfig => <<w, running'[w]>> \in reached'
      BY <1>0 DEF SharedInv, TypeOK, Adopt, Upgrade
    <2> QED
      BY <1>0, <1>1, <2>1 DEF SharedInv, SyncedWasReached, FieldsWereAsked
  <1>5. \A p \in Ops : RequestInv(p)'
    BY <1>0, <1>1, StillTrue DEF ControlInv
  <1> QED
    BY <1>2, <1>3, <1>4, <1>5, Types DEF ControlInv

\* Every step preserves the invariant.
LEMMA StepControl == ControlInv /\ [Next]_vars => ControlInv'
  <1> SUFFICES ASSUME ControlInv, [Next]_vars PROVE ControlInv'
    OBVIOUS
  <1>1. ASSUME NEW o \in Ops, RequestStep(o)
        PROVE  ControlInv'
    BY <1>1, TypesKept, SharedKeeps, RequestsKeep DEF ControlInv
  <1>2. ASSUME NEW v \in Vehicles, Adopt(v) \/ Upgrade(v)
        PROVE  ControlInv'
    BY <1>2, VehiclesKeep
  <1>3. CASE UNCHANGED vars
    <2> USE <1>3 DEF vars, carVars, storeVars, planVars, listVars, history
    <2>1. TypeOK'
      BY DEF ControlInv, TypeOK
    <2>2. SharedInv'
      BY DEF ControlInv, SharedInv, SyncedWasReached, FieldsWereAsked
    <2>3. \A p \in Ops : RequestInv(p)'
      BY Types, StillTrue DEF ControlInv
    <2> QED
      BY <2>1, <2>2, <2>3 DEF ControlInv
  <1> QED
    BY <1>1, <1>2, <1>3 DEF Next, RequestStep

\* The invariant the other theorems draw on: what is stored and what every
\* request knows at each of its calls, however requests overlap.
THEOREM ControlCorrect == Spec => []ControlInv
  BY InitControl, StepControl, PTL DEF Spec

\* What is stored as synced has been run by the vehicle: _wait_until_synced
\* comes between the write and save_telemetry_configuration.
THEOREM SyncedReached == Spec => []SyncedWasReached
  <1>1. ControlInv => SyncedWasReached
    BY DEF ControlInv, SharedInv
  <1> QED
    BY <1>1, ControlCorrect, PTL

\* Only an operator's apply or repair chooses fields: the reconciler passes the
\* hash of what it compared as expected_config_hash, and _plan refuses another.
THEOREM FieldsAsked == Spec => []FieldsWereAsked
  <1>1. ControlInv => FieldsWereAsked
    BY DEF ControlInv, SharedInv
  <1> QED
    BY <1>1, ControlCorrect, PTL

\* reconcile() stops at a canary that is not synced, and counts a vehicle as
\* ready only when it is.
THEOREM CutoversProved == Spec => []CutoverProved
  <1>1. ControlInv => CutoverProved
    <2> SUFFICES ASSUME ControlInv, NEW o \in Ops, kind[o] = "reconcile"
        PROVE  /\ reply[o] = "ready" => \A v \in listed[o] : Proved(v, trust[o])
               /\ \A v \in Vehicles \ {canary[o]} :
                    audit[<<o, v>>] # "none" => Proved(canary[o], trust[o])
      BY DEF CutoverProved
    <2>1. ReconcileFacts(o)
      BY DEF ControlInv, RequestInv
    <2> QED
      BY <2>1 DEF ReconcileFacts
  <1> QED
    BY <1>1, ControlCorrect, PTL

\* begin_telemetry_config_audit comes before Tesla's call, and nothing writes
\* to the record in between.
THEOREM WritesUnderRecord == Spec => WritesRecorded
  <1>1. ASSUME ControlInv, [Next]_vars
        PROVE  [\A v \in Vehicles : tesla'[v] # tesla[v] =>
                  \E o \in Ops : vehicle[o] = v /\ audit[<<o, v>>] = "attempted"]_vars
    <2>1. ASSUME NEW o \in Ops, RequestStep(o), NEW v \in Vehicles,
                 tesla'[v] # tesla[v]
          PROVE  vehicle[o] = v /\ audit[<<o, v>>] = "attempted"
      <3>1. step[o] = "write" /\ tesla' = [tesla EXCEPT ![vehicle[o]] = want[o]]
        BY <2>1, ShareSteps DEF SharedStep
      <3>2. vehicle[o] = v
        BY <1>1, <2>1, <3>1 DEF ControlInv, TypeOK
      <3>3. AuditFacts(o)
        BY <1>1 DEF ControlInv, RequestInv
      <3> QED
        BY <3>1, <3>2, <3>3 DEF AuditFacts
    <2>2. ASSUME NEW w \in Vehicles, Adopt(w) \/ Upgrade(w)
          PROVE  tesla' = tesla
      BY <2>2 DEF Adopt, Upgrade
    <2> QED
      BY <1>1, <2>1, <2>2 DEF Next, RequestStep
  <1> QED
    BY <1>1, ControlCorrect, PTL DEF Spec, WritesRecorded

(***************************************************************************)
(* Requests that no other one overlaps.                                    *)
(***************************************************************************)
Lone(o) ==
    o \notin overlapped /\ Running(o) => \A p \in Ops \ {o} : ~Running(p)

Agreement(o) ==
    o \notin overlapped =>
      /\ step[o] = "save" => tesla[vehicle[o]] = want[o]
      /\ step[o] = "succeeded" => saved[vehicle[o]] = tesla[vehicle[o]]

LoneInv == ControlInv /\ \A o \in Ops : Lone(o) /\ Agreement(o)

\* No request has begun: nothing overlaps.
LEMMA InitLone == Init => LoneInv
  <1> SUFFICES ASSUME Init PROVE LoneInv
    OBVIOUS
  <1>1. \A o \in Ops : Lone(o) /\ Agreement(o)
    BY DEF Init, Lone, Running, Agreement
  <1> QED
    BY <1>1, InitControl DEF LoneInv

\* Requests that are found to overlap stay so.
LEMMA OverlapsGrow ==
  ASSUME NEW o \in Ops, RequestStep(o)
  PROVE  /\ overlapped \subseteq overlapped'
         /\ \A p \in Ops \ {o} : Running(p) => ~Start(o) \/ p \in overlapped'
         /\ Start(o) /\ (\E p \in Ops \ {o} : Running(p)) => o \in overlapped'
  BY DEF history, RequestStep, OpStep, Start, List, Read, Compare, Plan, Refuse,
         BeginAudit, BeginAuditFails, Write, Wait, Save, SaveFails, Settle,
         SettleFails

\* Only a request that runs, or starts, takes a step.
LEMMA OnlyRunningSteps ==
  ASSUME NEW o \in Ops, RequestStep(o)
  PROVE  Start(o) \/ Running(o)
  BY DEF Running, RequestStep, OpStep, List, Read, Compare, Plan, Refuse,
         BeginAudit, BeginAuditFails, Write, Wait, Save, SaveFails, Settle,
         SettleFails

\* A request that is alone remains so, or is marked as overlapped.
LEMMA LoneKept ==
  ASSUME LoneInv, NEW o \in Ops, RequestStep(o), NEW q \in Ops
  PROVE  Lone(q)'
  <1>0. Others(o)
    BY OthersStay DEF LoneInv
  <1> SUFFICES ASSUME q \notin overlapped', Running(q)', NEW p \in Ops \ {q}
               PROVE  ~Running(p)'
    BY DEF Lone
  <1>1. q \notin overlapped
    BY <1>0, OverlapsGrow
  <1>2. CASE q = o
    <2>1. Running(p)' <=> Running(p)
      BY <1>0, <1>2 DEF Others, Running
    <2>2. CASE Start(o)
      BY <1>2, <2>1, <2>2, OverlapsGrow
    <2>3. CASE Running(o)
      BY <1>1, <1>2, <2>1, <2>3 DEF LoneInv, Lone
    <2> QED
      BY <2>2, <2>3, OnlyRunningSteps
  <1>3. CASE q # o
    <2>1. Running(q)
      BY <1>0, <1>3 DEF Others, Running
    <2>2. ~Start(o)
      BY <1>0, <1>3, <2>1, OverlapsGrow
    <2>3. ~Running(o)
      BY <1>1, <1>3, <2>1 DEF LoneInv, Lone
    <2> QED
      BY <2>2, <2>3, OnlyRunningSteps
  <1> QED
    BY <1>2, <1>3

\* Nobody else's step meets a lone request at work.
LEMMA AgreementOfOthers ==
  ASSUME LoneInv, NEW o \in Ops, RequestStep(o), NEW q \in Ops, q # o
  PROVE  Agreement(q)'
  <1>0. Others(o)
    BY OthersStay DEF LoneInv
  <1>1. CASE Running(q)
    <2> SUFFICES ASSUME q \notin overlapped' PROVE FALSE
      BY DEF Agreement
    <2>1. q \notin overlapped /\ ~Start(o)
      BY <1>0, <1>1, OverlapsGrow
    <2>2. ~Running(o)
      BY <1>1, <2>1 DEF LoneInv, Lone
    <2> QED
      BY <2>1, <2>2, OnlyRunningSteps
  <1>2. CASE ~Running(q)
    <2>1. step'[q] \in {"idle", "done"}
      BY <1>0, <1>2 DEF Others, Running
    <2> QED
      BY <2>1 DEF Agreement
  <1> QED
    BY <1>1, <1>2

\* It saves what it has read back from Tesla, or has just deleted there.
LEMMA OwnAgreement ==
  ASSUME LoneInv, NEW o \in Ops, RequestStep(o)
  PROVE  Agreement(o)'
  <1>0. RequestTypes /\ SharedTypes /\ RequestInv(o)
    BY Types DEF LoneInv, ControlInv
  <1> SUFFICES ASSUME o \notin overlapped', step'[o] \in {"save", "succeeded"}
      PROVE  /\ step'[o] = "save" => tesla'[vehicle'[o]] = want'[o]
             /\ step'[o] = "succeeded" => saved'[vehicle'[o]] = tesla'[vehicle'[o]]
    BY DEF Agreement
  <1>1. Agreement(o) /\ o \notin overlapped
    BY OverlapsGrow DEF LoneInv
  <1>2. Write(o) \/ Wait(o) \/ Save(o)
    <2>1. ~Start(o) /\ ~List(o) /\ ~Read(o) /\ ~Plan(o) /\ ~SaveFails(o)
      BY <1>0
      DEF RequestTypes, Start, FirstStep, List, Read, Plan, SaveFails, Goto
    <2>2. \A p \in Ops : Reply(p, "error") => step' = [step EXCEPT ![p] = "done"]
      BY DEF Reply, Goto
    <2>3. ASSUME Fails(o) PROVE FALSE
      <3>1. step'[o] = "done" \/ step'[o] = "read"
        BY <1>0, <2>3, FailsEnds DEF GoesOn
      <3> QED
        BY <3>1
    <2>4. ~Raise(o)
      BY <2>3, RaiseFails
    <2>5. ASSUME Succeed(o) PROVE FALSE
      <3>1. step'[o] = "done" \/ step'[o] = "read"
        BY <1>0, <2>5, SucceedEnds DEF GoesOn, Finished
      <3> QED
        BY <3>1
    <2>6. ~Settle(o) /\ ~SettleFails(o) /\ ~BeginAuditFails(o)
      BY <2>4, <2>5 DEF Settle, SettleFails, BeginAuditFails
    <2>7. ~BeginAudit(o)
      BY <1>0, <2>4 DEF RequestTypes, BeginAudit, Goto
    <2>8. ~Refuse(o)
      BY <1>0, <2>2, <2>4 DEF RequestTypes, Refuse
    <2>9. ASSUME Compare(o) PROVE FALSE
      <3>1. ~Blocked(o)
        BY <1>0, <2>3, <2>9 DEF Fails, Compare, RequestInv, KindFacts
      <3> QED
        BY <1>0, <2>9, <3>1 DEF RequestTypes, Compare, Goto
    <2> QED
      BY <2>1, <2>6, <2>7, <2>8, <2>9 DEF RequestStep, OpStep
  <1>3. CASE Write(o)
    BY <1>0, <1>3
    DEF RequestTypes, SharedTypes, Write, Goto, listVars, planVars
  <1>4. CASE Wait(o)
    BY <1>0, <1>4
    DEF RequestTypes, Wait, InSync, Goto, listVars, planVars
  <1>5. CASE Save(o)
    BY <1>0, <1>1, <1>5
    DEF RequestTypes, SharedTypes, Save, Store, Goto, listVars, planVars, Agreement
  <1> QED
    BY <1>2, <1>3, <1>4, <1>5

\* Every step preserves the invariant of the requests that are alone.
LEMMA StepLone == LoneInv /\ [Next]_vars => LoneInv'
  <1> SUFFICES ASSUME LoneInv, [Next]_vars PROVE LoneInv'
    OBVIOUS
  <1>1. ControlInv'
    BY StepControl DEF LoneInv
  <1>2. ASSUME NEW o \in Ops, RequestStep(o)
        PROVE  LoneInv'
    BY <1>1, <1>2, LoneKept, AgreementOfOthers, OwnAgreement DEF LoneInv
  <1>3. CASE UNCHANGED <<step, vehicle, want, saved, tesla, overlapped>>
    BY <1>1, <1>3 DEF LoneInv, Lone, Running, Agreement
  <1>4. ASSUME NEW v \in Vehicles, Adopt(v) \/ Upgrade(v)
        PROVE  UNCHANGED <<step, vehicle, want, saved, tesla, overlapped>>
    BY <1>4 DEF Adopt, Upgrade, storeVars, planVars, listVars, history
  <1>5. UNCHANGED vars =>
          UNCHANGED <<step, vehicle, want, saved, tesla, overlapped>>
    BY DEF vars, storeVars, planVars, listVars, history
  <1> QED
    BY <1>2, <1>3, <1>4, <1>5 DEF Next, RequestStep

\* A request that succeeds alone leaves Firestore and Tesla in agreement: it
\* saves the configuration that config_diff has just read back.
THEOREM LoneAgrees == Spec => []LoneSuccessAgrees
  <1>1. LoneInv => LoneSuccessAgrees
    BY DEF LoneInv, Agreement, LoneSuccessAgrees
  <1>2. Spec => []LoneInv
    BY InitLone, StepLone, PTL DEF Spec
  <1> QED
    BY <1>1, <1>2, PTL
=============================================================================
