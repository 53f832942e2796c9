-------------------------- MODULE TelemetryIngestion --------------------------
(***************************************************************************)
(* The telemetry processor: Pub/Sub pushes each message until one push of  *)
(* it is answered with success, possibly to two handlers at once.  A       *)
(* handler reads the VIN index, the vehicle document and the user's        *)
(* allowlist record one after the other, outside any transaction, and      *)
(* appends one row to the dataset they lead to, or to the quarantine.      *)
(* Meanwhile callbacks change the registry and operators the allowlist.    *)
(***************************************************************************)
EXTENDS VehicleRegistry

CONSTANTS
    Messages,
    Handlers   \* HTTP requests in progress, over all instances

VARIABLES
    enabled,      \* allowlist: the active users
    content,      \* per message, what it is; None: not published
    acked,        \* the messages Pub/Sub no longer delivers
    fixtures,     \* telemetry_pipeline_fixtures: fixtures that failed once
    rows,         \* per message, the tables that hold a row of it
    step,         \* per handler, its next remote call
    message,      \* per handler, its message
    target,       \* per handler, the owner read from the index, then the table
    enabledSince  \* history: users active at some time of this delivery

pubsubVars  == <<content, acked>>
storeVars   == <<fixtures, rows>>
handlerVars == <<step, message, target, enabledSince>>
vars == <<registryVars, enabled, pubsubVars, storeVars, handlerVars>>

\* A vehicle's message is named by its VIN.  "invalid": a validation error or
\* no VIN; "malformed": no envelope; "fail_first": a fixture whose first
\* delivery is to fail.
Kinds  == {"invalid", "malformed", "fixture", "fail_first"}
Tables == Users \cup {"quarantine", "synthetic"}
Steps  == {"idle", "index", "vehicle", "user", "gate", "append", "ok", "retry"}

ASSUME KindsAssumption ==
    /\ VINs \cap (Kinds \cup {None}) = {}
    /\ None \notin Kinds \cup Tables
    /\ Users \cap {"quarantine", "synthetic"} = {}

TypeOK ==
    /\ RegistryTypeOK
    /\ enabled \subseteq Users
    /\ content \in [Messages -> VINs \cup Kinds \cup {None}]
    /\ acked \subseteq Messages
    /\ fixtures \subseteq Messages
    /\ rows \in [Messages -> SUBSET Tables]
    /\ step \in [Handlers -> Steps]
    /\ message \in [Handlers -> Messages \cup {None}]
    /\ target \in [Handlers -> Tables \cup {None}]
    /\ enabledSince \in [Handlers -> SUBSET Users]

Init ==
    /\ RegistryInit
    /\ enabled \in SUBSET Users
    /\ content = [m \in Messages |-> None]
    /\ acked = {}
    /\ fixtures = {}
    /\ rows = [m \in Messages |-> {}]
    /\ step = [h \in Handlers |-> "idle"]
    /\ message = [h \in Handlers |-> None]
    /\ target = [h \in Handlers |-> None]
    /\ enabledSince = [h \in Handlers |-> {}]

(***************************************************************************)
(* The surroundings.                                                       *)
(***************************************************************************)

\* The receiver publishes what a vehicle streamed, or an operator a fixture.
Publish(m) ==
    /\ content[m] = None
    /\ \E c \in VINs \cup Kinds : content' = [content EXCEPT ![m] = c]
    /\ UNCHANGED <<registryVars, enabled, acked, storeVars, handlerVars>>

\* add-user and disable-user.
SetStatus(u) ==
    /\ enabled' = IF u \in enabled THEN enabled \ {u} ELSE enabled \cup {u}
    /\ enabledSince' = [h \in Handlers |->
                          IF step[h] = "idle" THEN {} ELSE enabledSince[h] \cup {u}]
    /\ UNCHANGED <<registryVars, pubsubVars, storeVars, step, message, target>>

\* A callback synchronizes the registry.
Sync ==
    /\ RegistryNext
    /\ UNCHANGED <<enabled, pubsubVars, storeVars, handlerVars>>

(***************************************************************************)
(* One push.                                                               *)
(***************************************************************************)
Goto(h, s) == step' = [step EXCEPT ![h] = s]

Route(h, t) ==
    /\ target' = [target EXCEPT ![h] = t]
    /\ Goto(h, "append")

\* do_POST and the routing by kind of process().  A malformed envelope is
\* acknowledged as poison.
Deliver(h, m) ==
    /\ step[h] = "idle"
    /\ content[m] # None
    /\ m \notin acked
    /\ message' = [message EXCEPT ![h] = m]
    /\ enabledSince' = [enabledSince EXCEPT ![h] = enabled]
    /\ \/ /\ content[m] = "invalid" /\ Route(h, "quarantine")
       \/ /\ content[m] = "fixture" /\ Route(h, "synthetic")
       \/ /\ content[m] = "malformed" /\ Goto(h, "ok") /\ UNCHANGED target
       \/ /\ content[m] = "fail_first" /\ Goto(h, "gate") /\ UNCHANGED target
       \/ /\ content[m] \in VINs /\ Goto(h, "index") /\ UNCHANGED target
    /\ UNCHANGED <<registryVars, enabled, pubsubVars, storeVars>>

\* (variant: the fixture fails every time)
GateAlways(h) ==
    /\ step[h] = "gate"
    /\ fixtures' = fixtures \cup {message[h]}
    /\ Goto(h, "retry")
    /\ UNCHANGED <<registryVars, enabled, pubsubVars, rows, message, target,
                   enabledSince>>

\* should_fail_first: creating the fixture's document either succeeds, and this
\* delivery fails, or it exists.
Gate(h) ==
    /\ step[h] = "gate"
    /\ \/ /\ message[h] \notin fixtures
          /\ fixtures' = fixtures \cup {message[h]}
          /\ Goto(h, "retry")
          /\ UNCHANGED target
       \/ /\ message[h] \in fixtures
          /\ Route(h, "synthetic")
          /\ UNCHANGED fixtures
    /\ UNCHANGED <<registryVars, enabled, pubsubVars, rows, message,
                   enabledSince>>

\* resolve(), first read: an unknown VIN is quarantined.
ReadIndex(h) ==
    /\ step[h] = "index"
    /\ LET owner == index[content[message[h]]]
       IN \/ owner = None /\ Route(h, "quarantine")
          \/ /\ owner # None
             /\ target' = [target EXCEPT ![h] = owner]
             /\ Goto(h, "vehicle")
    /\ UNCHANGED <<registryVars, enabled, pubsubVars, storeVars, message,
                   enabledSince>>

\* Second read: the document must be there (its owner and VIN are those it is
\* named by); its authorization_status is not looked at.
ReadVehicle(h) ==
    /\ step[h] = "vehicle"
    /\ IF vehicles[<<target[h], content[message[h]]>>] = "absent"
         THEN Route(h, "quarantine")
         ELSE Goto(h, "user") /\ UNCHANGED target
    /\ UNCHANGED <<registryVars, enabled, pubsubVars, storeVars, message,
                   enabledSince>>

\* (variant: the allowlist status is not looked at)
ReadUserOnly(h) ==
    /\ step[h] = "user"
    /\ Goto(h, "append")
    /\ UNCHANGED <<registryVars, enabled, pubsubVars, storeVars, message,
                   target, enabledSince>>

\* Third read: the owner's dataset, if the owner is active.
ReadUser(h) ==
    /\ step[h] = "user"
    /\ IF target[h] \in enabled
         THEN Goto(h, "append") /\ UNCHANGED target
         ELSE Route(h, "quarantine")
    /\ UNCHANGED <<registryVars, enabled, pubsubVars, storeVars, message,
                   enabledSince>>

Stored(h) == rows' = [rows EXCEPT ![message[h]] = @ \cup {target[h]}]

AppendSucceeds(h) ==
    /\ step[h] = "append"
    /\ Stored(h)
    /\ Goto(h, "ok")
    /\ UNCHANGED <<registryVars, enabled, pubsubVars, fixtures, message, target,
                   enabledSince>>

\* (variant: a failed append is acknowledged)
AppendFailsQuietly(h) ==
    /\ step[h] = "append"
    /\ Goto(h, "ok")
    /\ UNCHANGED <<registryVars, enabled, pubsubVars, storeVars, message,
                   target, enabledSince>>

\* RetryableProcessingError: the row was rejected, or the answer was lost.
AppendFails(h) ==
    /\ step[h] = "append"
    /\ Stored(h) \/ UNCHANGED rows
    /\ Goto(h, "retry")
    /\ UNCHANGED <<registryVars, enabled, pubsubVars, fixtures, message, target,
                   enabledSince>>

Finish(h) ==
    /\ Goto(h, "idle")
    /\ message' = [message EXCEPT ![h] = None]
    /\ target' = [target EXCEPT ![h] = None]
    /\ enabledSince' = [enabledSince EXCEPT ![h] = {}]

\* 204, received in time.
Acknowledge(h) ==
    /\ step[h] = "ok"
    /\ acked' = acked \cup {message[h]}
    /\ Finish(h)
    /\ UNCHANGED <<registryVars, enabled, content, storeVars>>

\* 503, or the handler died, or its answer came too late.  A handler that dies
\* before its append has changed nothing but the fixture's document, after
\* which it drops the message in any case: that is left out.
Drop(h) ==
    /\ step[h] \in {"append", "ok", "retry"}
    /\ Finish(h)
    /\ UNCHANGED <<registryVars, enabled, pubsubVars, storeVars>>

HandlerStep(h) ==
    \/ \E m \in Messages : Deliver(h, m)
    \/ Gate(h) \/ ReadIndex(h) \/ ReadVehicle(h) \/ ReadUser(h)
    \/ AppendSucceeds(h) \/ AppendFails(h) \/ Acknowledge(h) \/ Drop(h)

Next ==
    \/ \E h \in Handlers : HandlerStep(h)
    \/ \E m \in Messages : Publish(m)
    \/ \E u \in Users : SetStatus(u)
    \/ Sync

\* Pub/Sub redelivers what is not acknowledged, a handler goes on until it
\* answers, and of infinitely many appends or answers of a message not all fail.
Fairness ==
    /\ \A h \in Handlers :
         WF_vars(Gate(h) \/ ReadIndex(h) \/ ReadVehicle(h) \/ ReadUser(h)
                 \/ Drop(h))
    /\ \A m \in Messages :
         /\ WF_vars(\E h \in Handlers : Deliver(h, m))
         /\ SF_vars(\E h \in Handlers : message[h] = m /\ AppendSucceeds(h))
         /\ SF_vars(\E h \in Handlers : message[h] = m /\ Acknowledge(h))

Spec == Init /\ [][Next]_vars /\ Fairness

(***************************************************************************)
(* Properties.                                                             *)
(***************************************************************************)

\* A success is answered only after BigQuery accepted the row (do_POST):
\* nothing but poison disappears from the subscription unstored.
AckedIsStored ==
    \A m \in acked : content[m] # "malformed" => rows[m] # {}

\* "Ownership is never guessed": a row in a user's dataset is of a VIN that
\* is that user's, now as at the time of the three reads, and fixtures and
\* invalid messages never get there.
RowsAreOwners ==
    \A m \in Messages, u \in Users :
        u \in rows[m] => content[m] \in VINs /\ index[content[m]] = u

\* A delivery that starts after a user was disabled does not write to the
\* user's dataset; one in progress still may.
DisabledIsQuarantined ==
    \A h \in Handlers :
        step[h] = "append" /\ target[h] \in Users => target[h] \in enabledSince[h]

\* Why: where each delivery stands, as a function of its next step.
DeliveryInv(h) ==
    /\ step[h] = "idle" => target[h] = None
    /\ step[h] # "idle" =>
         /\ message[h] \in Messages
         /\ content[message[h]] # None
         /\ enabled \subseteq enabledSince[h]
         /\ target[h] \in Users =>
              /\ content[message[h]] \in VINs
              /\ index[content[message[h]]] = target[h]
    /\ step[h] \in {"index", "vehicle", "user"} => content[message[h]] \in VINs
    /\ step[h] \in {"vehicle", "user"} => target[h] \in Users
    /\ step[h] = "append" => target[h] \in Tables
    /\ step[h] = "ok" /\ content[message[h]] # "malformed"
         => rows[message[h]] # {}

IngestionInv ==
    /\ TypeOK
    /\ OneOwner
    /\ \A h \in Handlers : DeliveryInv(h)
    /\ \A m \in Messages : content[m] = None => m \notin acked /\ rows[m] = {}
    /\ AckedIsStored
    /\ RowsAreOwners
    /\ DisabledIsQuarantined

\* Every message is eventually stored, or acknowledged as poison, whatever
\* happens to single deliveries.
EventuallyAcked ==
    \A m \in Messages : content[m] # None ~> m \in acked
=============================================================================
