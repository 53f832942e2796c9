----------------------- MODULE TelemetryIngestionProofs -----------------------
(***************************************************************************)
(* Theorems about TelemetryIngestion and the vehicle registry it reads,    *)
(* for any sets of users, VINs, messages and handlers.                     *)
(***************************************************************************)
EXTENDS TelemetryIngestion, TLAPS

\* An empty registry, nothing published, every handler idle.
LEMMA InitIngestion == Init => IngestionInv
  BY NoneAssumption, KindsAssumption
  DEF Init, RegistryInit, IngestionInv, TypeOK, RegistryTypeOK, OneOwner,
      DeliveryInv, AckedIsStored, RowsAreOwners, DisabledIsQuarantined, Kinds,
      Tables, Steps

(***************************************************************************)
(* The registry: a synchronization keeps index and documents together, and *)
(* never moves a VIN from one user to another.                             *)
(***************************************************************************)
LEMMA SyncKeepsRegistry ==
  ASSUME RegistryTypeOK, OneOwner,
         NEW u \in Users, NEW listed \in SUBSET VINs, SyncVehicles(u, listed)
  PROVE  /\ RegistryTypeOK'
         /\ OneOwner'
         /\ \A v \in VINs : index[v] # None => index'[v] = index[v]
  <1>1. \A v \in VINs : index'[v] = IF v \in listed THEN u ELSE index[v]
    BY DEF SyncVehicles, IndexListed
  <1>2. \A w \in Users, v \in VINs :
          vehicles'[<<w, v>>] =
            IF w # u THEN vehicles[<<w, v>>]
            ELSE IF v \in listed THEN "active"
            ELSE IF vehicles[<<w, v>>] = "absent" THEN "absent"
            ELSE "not_returned"
    BY DEF SyncVehicles, WriteVehicles
  <1>3. \A v \in listed : index[v] = None \/ index[v] = u
    BY DEF SyncVehicles, Claimable
  <1>4. RegistryTypeOK'
    <2>1. index' \in [VINs -> Users \cup {None}]
      BY DEF RegistryTypeOK, SyncVehicles, IndexListed
    <2>2. vehicles' \in [Users \X VINs -> {"absent", "active", "not_returned"}]
      BY DEF RegistryTypeOK, SyncVehicles, WriteVehicles
    <2> QED
      BY <2>1, <2>2 DEF RegistryTypeOK
  <1>5. \A v \in VINs : index[v] # None => index'[v] = index[v]
    BY <1>1, <1>3
  <1>6. OneOwner'
    <2> SUFFICES ASSUME NEW w \in Users, NEW v \in VINs
                 PROVE  vehicles'[<<w, v>>] # "absent" <=> index'[v] = w
      BY DEF OneOwner
    <2>1. vehicles[<<w, v>>] # "absent" <=> index[v] = w
      BY DEF OneOwner
    <2>2. w # None
      BY NoneAssumption
    <2>3. CASE v \in listed
      BY <1>1, <1>2, <1>3, <2>1, <2>2, <2>3
    <2>4. CASE v \notin listed
      BY <1>1, <1>2, <2>1, <2>4
    <2> QED
      BY <2>3, <2>4
  <1> QED
    BY <1>4, <1>5, <1>6

\* Deliveries in progress and stored rows stay with the owner of their VIN.
LEMMA SyncKeeps ==
  ASSUME IngestionInv, Sync
  PROVE  IngestionInv'
  <1>1. PICK u \in Users : \E listed \in SUBSET VINs : SyncVehicles(u, listed)
    BY DEF Sync, RegistryNext
  <1>2. PICK listed \in SUBSET VINs : SyncVehicles(u, listed)
    BY <1>1
  <1>3. /\ RegistryTypeOK'
        /\ OneOwner'
        /\ \A v \in VINs : index[v] # None => index'[v] = index[v]
    BY <1>2, SyncKeepsRegistry DEF IngestionInv, TypeOK
  <1>4. UNCHANGED <<enabled, content, acked, fixtures, rows, step, message,
                    target, enabledSince>>
    BY DEF Sync, pubsubVars, storeVars, handlerVars
  <1>5. TypeOK'
    BY <1>3, <1>4 DEF IngestionInv, TypeOK
  <1>6. \A h \in Handlers : DeliveryInv(h)'
    BY <1>3, <1>4, NoneAssumption DEF IngestionInv, DeliveryInv
  <1>7. RowsAreOwners'
    BY <1>3, <1>4, NoneAssumption DEF IngestionInv, RowsAreOwners
  <1> QED
    BY <1>3, <1>4, <1>5, <1>6, <1>7
    DEF IngestionInv, AckedIsStored, DisabledIsQuarantined

(***************************************************************************)
(* The surroundings.                                                       *)
(***************************************************************************)
LEMMA PublishKeeps ==
  ASSUME IngestionInv, NEW m \in Messages, Publish(m)
  PROVE  IngestionInv'
  BY NoneAssumption, KindsAssumption
  DEF IngestionInv, TypeOK, RegistryTypeOK, OneOwner, DeliveryInv,
      AckedIsStored, RowsAreOwners, DisabledIsQuarantined, Publish, Kinds,
      Tables, Steps, registryVars, storeVars, handlerVars

\* Disabling or enabling a user keeps what the deliveries have established.
LEMMA SetStatusKeeps ==
  ASSUME IngestionInv, NEW u \in Users, SetStatus(u)
  PROVE  IngestionInv'
  <1>1. /\ enabled' \subseteq enabled \cup {u}
        /\ enabledSince' = [h \in Handlers |->
             IF step[h] = "idle" THEN {} ELSE enabledSince[h] \cup {u}]
    BY DEF SetStatus
  <1>2. UNCHANGED <<index, vehicles, content, acked, fixtures, rows, step,
                    message, target>>
    BY DEF SetStatus, registryVars, pubsubVars, storeVars
  <1>3. TypeOK'
    BY <1>1, <1>2 DEF IngestionInv, TypeOK, RegistryTypeOK
  <1>4. \A h \in Handlers : DeliveryInv(h)'
    BY <1>1, <1>2 DEF IngestionInv, DeliveryInv
  <1>5. DisabledIsQuarantined'
    BY <1>1, <1>2 DEF IngestionInv, DisabledIsQuarantined
  <1> QED
    BY <1>2, <1>3, <1>4, <1>5
    DEF IngestionInv, OneOwner, AckedIsStored, RowsAreOwners

(***************************************************************************)
(* One push.                                                               *)
(***************************************************************************)

\* A new push is routed by its kind: no owner has been read, and what needs no
\* owner goes to the tables that belong to nobody.
LEMMA DeliverKeeps ==
  ASSUME IngestionInv, NEW h \in Handlers, NEW m \in Messages, Deliver(h, m)
  PROVE  IngestionInv'
  <1>1. /\ step[h] = "idle" /\ content[m] # None
        /\ message' = [message EXCEPT ![h] = m]
        /\ enabledSince' = [enabledSince EXCEPT ![h] = enabled]
    BY DEF Deliver
  <1>2. UNCHANGED <<index, vehicles, enabled, content, acked, fixtures, rows>>
    BY DEF Deliver, registryVars, pubsubVars, storeVars
  <1>3. /\ TypeOK /\ OneOwner /\ AckedIsStored /\ RowsAreOwners
        /\ DisabledIsQuarantined
        /\ \A g \in Handlers : DeliveryInv(g)
        /\ \A n \in Messages : content[n] = None => n \notin acked /\ rows[n] = {}
    BY DEF IngestionInv
  <1>4. PICK s \in Steps, t \in Tables \cup {None} :
          /\ step' = [step EXCEPT ![h] = s]
          /\ target' = [target EXCEPT ![h] = t]
          /\ t \notin Users
          /\ s \in {"append", "ok", "gate", "index"}
          /\ s = "append" => t \in Tables
          /\ s = "ok" => content[m] = "malformed"
          /\ s = "index" => content[m] \in VINs
    <2>1. target[h] = None
      BY <1>1, <1>3 DEF DeliveryInv
    <2>2. target' = [target EXCEPT ![h] = None] \/ ~UNCHANGED target
      BY <1>3, <2>1 DEF TypeOK
    <2>3. {"append", "ok", "gate", "index"} \subseteq Steps
          /\ {"quarantine", "synthetic"} \subseteq Tables
      BY DEF Steps, Tables
    <2>4. None \notin Users /\ "quarantine" \notin Users
          /\ "synthetic" \notin Users
      BY NoneAssumption, KindsAssumption
    <2>5. \/ step' = [step EXCEPT ![h] = "append"]
             /\ target' = [target EXCEPT ![h] = "quarantine"]
          \/ step' = [step EXCEPT ![h] = "append"]
             /\ target' = [target EXCEPT ![h] = "synthetic"]
          \/ step' = [step EXCEPT ![h] = "ok"] /\ content[m] = "malformed"
             /\ target' = [target EXCEPT ![h] = None]
          \/ step' = [step EXCEPT ![h] = "gate"]
             /\ target' = [target EXCEPT ![h] = None]
          \/ step' = [step EXCEPT ![h] = "index"] /\ content[m] \in VINs
             /\ target' = [target EXCEPT ![h] = None]
      BY <2>2 DEF Deliver, Route, Goto
    <2> QED
      BY <2>3, <2>4, <2>5
  <1>5. TypeOK'
    BY <1>1, <1>2, <1>3, <1>4 DEF TypeOK, RegistryTypeOK
  <1>6. ASSUME NEW g \in Handlers PROVE DeliveryInv(g)'
    <2>1. CASE g = h
      <3>1. /\ step'[h] = s /\ target'[h] = t /\ message'[h] = m
            /\ enabledSince'[h] = enabled
        BY <1>1, <1>3, <1>4 DEF TypeOK
      <3> QED
        BY <1>1, <1>2, <1>4, <2>1, <3>1 DEF DeliveryInv
    <2>2. CASE g # h
      <3>1. /\ step'[g] = step[g] /\ target'[g] = target[g]
            /\ message'[g] = message[g] /\ enabledSince'[g] = enabledSince[g]
        BY <1>1, <1>4, <2>2, <1>3 DEF TypeOK
      <3> QED
        BY <1>2, <1>3, <3>1 DEF DeliveryInv
    <2> QED
      BY <2>1, <2>2
  <1>7. DisabledIsQuarantined'
    BY <1>1, <1>3, <1>4 DEF DisabledIsQuarantined, TypeOK
  <1>8. OneOwner' /\ AckedIsStored' /\ RowsAreOwners'
    BY <1>2, <1>3 DEF OneOwner, AckedIsStored, RowsAreOwners
  <1> QED
    BY <1>2, <1>3, <1>5, <1>6, <1>7, <1>8 DEF IngestionInv

\* The fixture's gate and the three reads of resolve() establish their facts.
LEMMA ReadsKeep ==
  ASSUME IngestionInv, NEW h \in Handlers,
         Gate(h) \/ ReadIndex(h) \/ ReadVehicle(h) \/ ReadUser(h)
  PROVE  IngestionInv'
  <1> USE NoneAssumption, KindsAssumption
      DEF IngestionInv, TypeOK, RegistryTypeOK, OneOwner, DeliveryInv,
          AckedIsStored, RowsAreOwners, DisabledIsQuarantined, Route, Goto,
          Kinds, Tables, Steps, registryVars, storeVars, pubsubVars
  <1>1. CASE Gate(h)
    BY <1>1 DEF Gate
  <1>2. CASE ReadIndex(h)
    BY <1>2 DEF ReadIndex
  <1>3. CASE ReadVehicle(h)
    BY <1>3 DEF ReadVehicle
  <1>4. CASE ReadUser(h)
    BY <1>4 DEF ReadUser
  <1> QED
    BY <1>1, <1>2, <1>3, <1>4

\* An append stores the row, or fails, where the reads have led.
LEMMA AppendKeeps ==
  ASSUME IngestionInv, NEW h \in Handlers, AppendSucceeds(h) \/ AppendFails(h)
  PROVE  IngestionInv'
  <1> DEFINE m == message[h]
  <1>1. /\ step[h] = "append"
        /\ m \in Messages /\ content[m] # None /\ target[h] \in Tables
        /\ target[h] \in Users =>
             content[m] \in VINs /\ index[content[m]] = target[h]
        /\ rows \in [Messages -> SUBSET Tables]
    BY DEF AppendSucceeds, AppendFails, IngestionInv, DeliveryInv, TypeOK
  <1>2. UNCHANGED <<index, vehicles, enabled, content, acked, fixtures, message,
                    target, enabledSince>>
    BY DEF AppendSucceeds, AppendFails, registryVars, pubsubVars
  <1>3. rows' = rows \/ rows' = [rows EXCEPT ![m] = @ \cup {target[h]}]
    BY DEF AppendSucceeds, AppendFails, Stored
  <1>4. /\ rows' \in [Messages -> SUBSET Tables]
        /\ \A n \in Messages : rows[n] \subseteq rows'[n]
        /\ \A n \in Messages \ {m} : rows'[n] = rows[n]
        /\ rows'[m] \subseteq rows[m] \cup {target[h]}
    BY <1>1, <1>3
  <1>5. \/ step' = [step EXCEPT ![h] = "ok"] /\ rows'[m] # {}
        \/ step' = [step EXCEPT ![h] = "retry"]
    BY <1>1 DEF AppendSucceeds, AppendFails, Stored, Goto
  <1>6. TypeOK'
    BY <1>2, <1>4, <1>5 DEF IngestionInv, TypeOK, RegistryTypeOK, Steps
  <1>7. ASSUME NEW j \in Handlers PROVE DeliveryInv(j)'
    <2>1. DeliveryInv(j)
      BY DEF IngestionInv
    <2>2. step \in [Handlers -> Steps]
      BY DEF IngestionInv, TypeOK
    <2>3. CASE j = h
      <3>1. step'[h] \in {"ok", "retry"} /\ (step'[h] = "ok" => rows'[m] # {})
        BY <1>5, <2>2
      <3> QED
        BY <1>1, <1>2, <2>1, <2>3, <3>1 DEF DeliveryInv
    <2>4. CASE j # h
      <3>1. step'[j] = step[j]
        BY <1>5, <2>2, <2>4
      <3>2. message[j] \in Messages /\ rows[message[j]] # {}
              => rows'[message[j]] # {}
        BY <1>4
      <3> QED
        BY <1>2, <2>1, <3>1, <3>2 DEF DeliveryInv
    <2> QED
      BY <2>3, <2>4
  <1>8. \A n \in Messages : content'[n] = None => n \notin acked' /\ rows'[n] = {}
    BY <1>1, <1>2, <1>4 DEF IngestionInv
  <1>9. AckedIsStored'
    <2> SUFFICES ASSUME NEW n \in acked, content[n] # "malformed"
                 PROVE  rows'[n] # {}
      BY <1>2 DEF AckedIsStored
    <2> QED
      BY <1>4 DEF IngestionInv, TypeOK, AckedIsStored
  <1>10. RowsAreOwners'
    BY <1>1, <1>2, <1>4 DEF IngestionInv, RowsAreOwners
  <1>11. DisabledIsQuarantined'
    BY <1>2, <1>5 DEF IngestionInv, TypeOK, DisabledIsQuarantined
  <1>12. OneOwner'
    BY <1>2 DEF IngestionInv, OneOwner
  <1> QED
    BY <1>6, <1>7, <1>8, <1>9, <1>10, <1>11, <1>12 DEF IngestionInv

\* An acknowledged message is stored or poison; a dropped one is delivered
\* again.
LEMMA EndKeeps ==
  ASSUME IngestionInv, NEW h \in Handlers, Acknowledge(h) \/ Drop(h)
  PROVE  IngestionInv'
  <1> USE NoneAssumption, KindsAssumption
      DEF IngestionInv, TypeOK, RegistryTypeOK, OneOwner, DeliveryInv,
          AckedIsStored, RowsAreOwners, DisabledIsQuarantined, Finish, Goto,
          Kinds, Tables, Steps, registryVars, storeVars, pubsubVars
  <1>1. CASE Acknowledge(h)
    BY <1>1 DEF Acknowledge
  <1>2. CASE Drop(h)
    BY <1>2 DEF Drop
  <1> QED
    BY <1>1, <1>2

\* Steps that change nothing keep the invariant.
LEMMA StutterKeeps ==
  ASSUME IngestionInv, UNCHANGED vars
  PROVE  IngestionInv'
  BY DEF IngestionInv, TypeOK, RegistryTypeOK, OneOwner, DeliveryInv,
     AckedIsStored, RowsAreOwners, DisabledIsQuarantined, vars, registryVars,
     pubsubVars, storeVars, handlerVars

(***************************************************************************)
(* The theorems.                                                           *)
(***************************************************************************)

\* The inductive invariant of the registry, the deliveries and the rows.
THEOREM IngestionCorrect == Spec => []IngestionInv
  <1>1. IngestionInv /\ [Next]_vars => IngestionInv'
    <2> SUFFICES ASSUME IngestionInv, [Next]_vars PROVE IngestionInv'
      OBVIOUS
    <2>1. CASE \E h \in Handlers : HandlerStep(h)
      BY <2>1, DeliverKeeps, ReadsKeep, AppendKeeps, EndKeeps DEF HandlerStep
    <2>2. CASE \E m \in Messages : Publish(m)
      BY <2>2, PublishKeeps
    <2>3. CASE \E u \in Users : SetStatus(u)
      BY <2>3, SetStatusKeeps
    <2>4. CASE Sync
      BY <2>4, SyncKeeps
    <2>5. CASE UNCHANGED vars
      BY <2>5, StutterKeeps
    <2> QED
      BY <2>1, <2>2, <2>3, <2>4, <2>5 DEF Next
  <1> QED
    BY InitIngestion, <1>1, PTL DEF Spec

\* A VIN has one owner, and index and documents agree on it.
THEOREM OwnedOnce == Spec => []OneOwner
  <1>1. IngestionInv => OneOwner
    BY DEF IngestionInv
  <1> QED
    BY <1>1, IngestionCorrect, PTL

\* What was acknowledged is stored, unless it was poison.
THEOREM AckedStored == Spec => []AckedIsStored
  <1>1. IngestionInv => AckedIsStored
    BY DEF IngestionInv
  <1> QED
    BY <1>1, IngestionCorrect, PTL

\* A user's dataset only ever holds rows of VINs that are the user's.
THEOREM RowsOwners == Spec => []RowsAreOwners
  <1>1. IngestionInv => RowsAreOwners
    BY DEF IngestionInv
  <1> QED
    BY <1>1, IngestionCorrect, PTL

\* A delivery that starts after a disable does not reach the user's dataset.
THEOREM DisabledQuarantined == Spec => []DisabledIsQuarantined
  <1>1. IngestionInv => DisabledIsQuarantined
    BY DEF IngestionInv
  <1> QED
    BY <1>1, IngestionCorrect, PTL
=============================================================================
