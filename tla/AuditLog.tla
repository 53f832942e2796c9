------------------------------ MODULE AuditLog ------------------------------
(***************************************************************************)
(* What the command audit promises: an operation runs only after its       *)
(* record exists, at most once, and the record is settled at most once,    *)
(* with an outcome that is true of it.  A record may stay "attempted".     *)
(***************************************************************************)
CONSTANT Calls  \* tool calls, each with one audit record

VARIABLES
    log,  \* per call, its audit record's result
    ran   \* the calls whose operation the vehicle has carried out

Init ==
    /\ log = [c \in Calls |-> "none"]
    /\ ran = {}

Attempt(c) ==
    /\ log[c] = "none"
    /\ log' = [log EXCEPT ![c] = "attempted"]
    /\ UNCHANGED ran

Run(c) ==
    /\ log[c] = "attempted"
    /\ c \notin ran
    /\ ran' = ran \cup {c}
    /\ UNCHANGED log

\* "failure" says nothing about the operation: a missing response does not
\* prove that it was not carried out.
Settle(c, result) ==
    /\ log[c] = "attempted"
    /\ result = "success" => c \in ran
    /\ result = "rejected" => c \notin ran
    /\ log' = [log EXCEPT ![c] = result]
    /\ UNCHANGED ran

Next ==
    \E c \in Calls :
        \/ Attempt(c)
        \/ Run(c)
        \/ \E result \in {"success", "rejected", "failure"} : Settle(c, result)

Spec == Init /\ [][Next]_<<log, ran>>
=============================================================================
