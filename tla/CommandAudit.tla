---------------------------- MODULE CommandAudit ----------------------------
(***************************************************************************)
(* MCP write calls for one vehicle: each creates its audit record, looks   *)
(* whether the vehicle is awake, wakes it if necessary (with a record of   *)
(* its own), sends the operation and finalizes the record.  Every          *)
(* Firestore and Tesla call is a step; each may fail, take effect and lose *)
(* its answer, and the request may be killed between any two of them.      *)
(*                                                                         *)
(* Which operation is requested and its parameters do not matter here.     *)
(* Nothing joins the calls but the vehicle, which sleeps and wakes at any  *)
(* time.                                                                   *)
(***************************************************************************)
EXTENDS Naturals

CONSTANTS
    Calls,  \* tool calls that write
    Polls   \* _WAKE_POLL_ATTEMPTS

ASSUME PollsAssumption == Polls \in Nat

VARIABLES
    online,     \* the vehicle is awake
    step,       \* per call, its next remote call
    refreshed,  \* per call, execute() is in its second attempt
    polled,     \* per call, polls since the wake
    woken,      \* per call, the wake's answer said "online"
    verdict,    \* per call, how it will end if its record can be finalized
    audit,      \* per call, the result in its audit record
    wakeAudit,  \* per call, the result in the automatic wake's record
    reply,      \* per call, what the caller was told
    sent,       \* history: requests with the operation that left the gateway
    wakes,      \* history: wake requests that left the gateway
    executed    \* history: times the vehicle carried the operation out

recordVars == <<audit, wakeAudit>>
localVars  == <<step, refreshed, polled, woken, verdict, reply>>
tallyVars  == <<sent, wakes, executed>>
vars       == <<online, recordVars, localVars, tallyVars>>

Steps    == {"begin", "preflight", "begin_wake", "wake", "end_wake", "poll",
             "send", "end", "done"}
Verdicts == {"none", "success", "rejected", "failed", "not_sent",
             "indeterminate"}
Results  == {"none", "attempted", "success", "rejected", "failure"}

TypeOK ==
    /\ online \in BOOLEAN
    /\ step \in [Calls -> Steps]
    /\ refreshed \in [Calls -> BOOLEAN]
    /\ polled \in [Calls -> 0..Polls]
    /\ woken \in [Calls -> BOOLEAN]
    /\ verdict \in [Calls -> Verdicts]
    /\ audit \in [Calls -> Results]
    /\ wakeAudit \in [Calls -> Results]
    /\ reply \in [Calls -> Verdicts]
    /\ sent \in [Calls -> 0..2]
    /\ wakes \in [Calls -> 0..2]
    /\ executed \in [Calls -> Nat]

Init ==
    /\ online \in BOOLEAN
    /\ step = [c \in Calls |-> "begin"]
    /\ refreshed = [c \in Calls |-> FALSE]
    /\ polled = [c \in Calls |-> 0]
    /\ woken = [c \in Calls |-> FALSE]
    /\ verdict = [c \in Calls |-> "none"]
    /\ audit = [c \in Calls |-> "none"]
    /\ wakeAudit = [c \in Calls |-> "none"]
    /\ reply = [c \in Calls |-> "none"]
    /\ sent = [c \in Calls |-> 0]
    /\ wakes = [c \in Calls |-> 0]
    /\ executed = [c \in Calls |-> 0]

Goto(c, s) == step' = [step EXCEPT ![c] = s]

\* The call ends as v: with its record finalized first.
Conclude(c, v) ==
    /\ verdict' = [verdict EXCEPT ![c] = v]
    /\ Goto(c, "end")

Answer(c, r) ==
    /\ reply' = [reply EXCEPT ![c] = r]
    /\ Goto(c, "done")

(***************************************************************************)
(* The records.                                                            *)
(***************************************************************************)

\* begin_command_audit: the record must exist before anything is sent.  Where
\* the call goes next depends on the tool (only vehicle commands look at the
\* vehicle first) and on the vehicle's virtual key.
Begin(c) ==
    /\ step[c] = "begin"
    /\ audit' = [audit EXCEPT ![c] = "attempted"]
    /\ \/ Goto(c, "preflight") /\ UNCHANGED verdict
       \/ Goto(c, "send") /\ UNCHANGED verdict
       \/ Conclude(c, "not_sent")
    /\ UNCHANGED <<online, wakeAudit, refreshed, polled, woken, reply,
                   tallyVars>>

\* (variant: the command is sent all the same)
BeginFailsOpen(c) ==
    /\ step[c] = "begin"
    /\ Goto(c, "send")
    /\ UNCHANGED <<online, recordVars, refreshed, polled, woken, verdict,
                   reply, tallyVars>>

\* audit_unavailable: the record was not created, or it was and the answer got
\* lost.
BeginFails(c) ==
    /\ step[c] = "begin"
    /\ \/ audit' = [audit EXCEPT ![c] = "attempted"]
       \/ UNCHANGED audit
    /\ Answer(c, "not_sent")
    /\ UNCHANGED <<online, wakeAudit, refreshed, polled, woken, verdict,
                   tallyVars>>

Recorded(v) == IF v \in {"success", "rejected"} THEN v ELSE "failure"

\* complete_command_audit, then the document or the error is returned.
Finalize(c) ==
    /\ step[c] = "end"
    /\ audit' = [audit EXCEPT ![c] = Recorded(verdict[c])]
    /\ Answer(c, verdict[c])
    /\ UNCHANGED <<online, wakeAudit, refreshed, polled, woken, verdict,
                   tallyVars>>

\* (variant: the caller hears the verdict although nothing was recorded)
FinalizeFailsQuietly(c) ==
    /\ step[c] = "end"
    /\ Answer(c, verdict[c])
    /\ UNCHANGED <<online, recordVars, refreshed, polled, woken, verdict,
                   tallyVars>>

\* command_result_indeterminate.
FinalizeFails(c) ==
    /\ step[c] = "end"
    /\ \/ audit' = [audit EXCEPT ![c] = Recorded(verdict[c])]
       \/ UNCHANGED audit
    /\ Answer(c, "indeterminate")
    /\ UNCHANGED <<online, wakeAudit, refreshed, polled, woken, verdict,
                   tallyVars>>

(***************************************************************************)
(* Waking the vehicle.                                                     *)
(***************************************************************************)

\* _live_vehicle before the command.
Preflight(c) ==
    /\ step[c] = "preflight"
    /\ \/ Goto(c, IF online THEN "send" ELSE "begin_wake") /\ UNCHANGED verdict
       \/ Conclude(c, "not_sent")
    /\ UNCHANGED <<online, recordVars, refreshed, polled, woken, reply,
                   tallyVars>>

\* (variant: the wake is sent all the same)
BeginWakeFailsOpen(c) ==
    /\ step[c] = "begin_wake"
    /\ \/ wakeAudit' = [wakeAudit EXCEPT ![c] = "attempted"]
       \/ UNCHANGED wakeAudit
    /\ Goto(c, "wake")
    /\ UNCHANGED <<online, audit, refreshed, polled, woken, verdict, reply,
                   tallyVars>>

\* The automatic wake has an audit record of its own.
BeginWake(c) ==
    /\ step[c] = "begin_wake"
    /\ \/ /\ wakeAudit' = [wakeAudit EXCEPT ![c] = "attempted"]
          /\ Goto(c, "wake")
          /\ UNCHANGED verdict
       \/ /\ \/ wakeAudit' = [wakeAudit EXCEPT ![c] = "attempted"]
             \/ UNCHANGED wakeAudit
          /\ Conclude(c, "not_sent")
    /\ UNCHANGED <<online, audit, refreshed, polled, woken, reply, tallyVars>>

\* A request was answered 401: execute() refreshes the token and sends it
\* once more.
Again(c) == ~refreshed[c] /\ refreshed' = [refreshed EXCEPT ![c] = TRUE]

\* There is no access token: the connection needs reauthorization, a refresh
\* failed, or it was lost to another request.
WakeWithoutAccess(c) ==
    /\ step[c] = "wake"
    /\ verdict' = [verdict EXCEPT ![c] = "not_sent"]
    /\ refreshed' = [refreshed EXCEPT ![c] = FALSE]
    /\ Goto(c, "end_wake")
    /\ UNCHANGED <<online, recordVars, polled, woken, reply, tallyVars>>

\* wake_up: it wakes the vehicle or not, whatever is answered.
Wake(c) ==
    /\ step[c] = "wake"
    /\ wakes' = [wakes EXCEPT ![c] = @ + 1]
    /\ \/ Again(c) /\ UNCHANGED <<online, step, verdict, woken>>
       \/ /\ \/ /\ online' \in {online, TRUE}
                /\ woken' = [woken EXCEPT ![c] = online']
                /\ UNCHANGED verdict
             \/ /\ online' \in {online, TRUE}
                /\ verdict' = [verdict EXCEPT ![c] = "not_sent"]
                /\ UNCHANGED woken
          /\ refreshed' = [refreshed EXCEPT ![c] = FALSE]
          /\ Goto(c, "end_wake")
    /\ UNCHANGED <<recordVars, polled, reply, sent, executed>>

\* The wake's record is finalized; the command goes on only if that and the
\* wake succeeded.
EndWake(c) ==
    /\ step[c] = "end_wake"
    /\ wakeAudit' = [wakeAudit EXCEPT ![c] =
                       IF verdict[c] = "none" THEN "success" ELSE "failure"]
    /\ Goto(c, IF verdict[c] = "not_sent" THEN "end"
               ELSE IF woken[c] THEN "send" ELSE "poll")
    /\ UNCHANGED <<online, audit, refreshed, polled, woken, verdict, reply,
                   tallyVars>>

\* The error of the wake's record takes the place of whatever happened.
EndWakeFails(c) ==
    /\ step[c] = "end_wake"
    /\ \/ wakeAudit' = [wakeAudit EXCEPT ![c] =
                          IF verdict[c] = "none" THEN "success" ELSE "failure"]
       \/ UNCHANGED wakeAudit
    /\ Conclude(c, "indeterminate")
    /\ UNCHANGED <<online, audit, refreshed, polled, woken, reply, tallyVars>>

\* (variant: the number of polls is not limited)
PollForever(c) ==
    /\ step[c] = "poll"
    /\ \/ online /\ Goto(c, "send") /\ UNCHANGED verdict
       \/ ~online /\ UNCHANGED <<step, verdict>>
       \/ Conclude(c, "not_sent")
    /\ polled' = [polled EXCEPT ![c] = (@ + 1) % (Polls + 1)]
    /\ UNCHANGED <<online, recordVars, refreshed, woken, reply, tallyVars>>

\* Up to Polls looks at the vehicle; it did not come online, or a look failed.
Poll(c) ==
    /\ step[c] = "poll"
    /\ \/ /\ polled[c] < Polls
          /\ polled' = [polled EXCEPT ![c] = @ + 1]
          /\ \/ online /\ Goto(c, "send") /\ UNCHANGED verdict
             \/ ~online /\ UNCHANGED <<step, verdict>>
             \/ Conclude(c, "not_sent")
       \/ polled[c] = Polls /\ Conclude(c, "not_sent") /\ UNCHANGED polled
    /\ UNCHANGED <<online, recordVars, refreshed, woken, reply, tallyVars>>

(***************************************************************************)
(* The operation.                                                          *)
(***************************************************************************)
Sending(c) ==
    /\ step[c] = "send"
    /\ sent' = [sent EXCEPT ![c] = @ + 1]
    /\ UNCHANGED <<recordVars, polled, woken, reply, wakes, online>>

Carried(c) == executed' = [executed EXCEPT ![c] = @ + 1]

\* It may also be one that a sleeping vehicle answers (an explicit wake), or one
\* that reached the vehicle just before it fell asleep again.
SendSucceeds(c) ==
    /\ Sending(c)
    /\ Carried(c)
    /\ Conclude(c, "success")
    /\ UNCHANGED refreshed

\* Tesla answers that the vehicle did not carry it out.
SendRejected(c) ==
    /\ Sending(c)
    /\ Conclude(c, "rejected")
    /\ UNCHANGED <<refreshed, executed>>

\* 401 means that Tesla rejected the credential before the operation.
SendUnauthorized(c) ==
    /\ Sending(c)
    /\ Again(c)
    /\ UNCHANGED <<step, verdict, executed>>

\* What the gateway knows when the answer is missing, or is an error: nothing.
Unanswered(c) ==
    /\ Sending(c)
    /\ Carried(c) \/ UNCHANGED executed

\* (variant: the request is sent again after a transport error)
SendFailsThenAgain(c) == Unanswered(c) /\ Again(c) /\ UNCHANGED <<step, verdict>>

\* (variant: a missing answer counts as "not sent")
SendFailsAsNotSent(c) ==
    Unanswered(c) /\ Conclude(c, "not_sent") /\ UNCHANGED refreshed

SendFails(c) == Unanswered(c) /\ Conclude(c, "failed") /\ UNCHANGED refreshed

SendWithoutAccess(c) ==
    /\ step[c] = "send"
    /\ Conclude(c, "failed")
    /\ UNCHANGED <<online, recordVars, refreshed, polled, woken, reply,
                   tallyVars>>

\* The instance is stopped in the middle of the request.
Killed(c) ==
    /\ step[c] \notin {"begin", "done"}
    /\ Goto(c, "done")
    /\ UNCHANGED <<online, recordVars, refreshed, polled, woken, verdict,
                   reply, tallyVars>>

\* The vehicle falls asleep, or somebody wakes it.
Toggle ==
    /\ online' = ~online
    /\ UNCHANGED <<recordVars, localVars, tallyVars>>

CallStep(c) ==
    \/ Begin(c) \/ BeginFails(c) \/ Finalize(c) \/ FinalizeFails(c)
    \/ Preflight(c) \/ BeginWake(c) \/ Wake(c) \/ EndWake(c)
    \/ EndWakeFails(c) \/ Poll(c)
    \/ SendSucceeds(c) \/ SendRejected(c) \/ SendUnauthorized(c)
    \/ SendFails(c) \/ SendWithoutAccess(c) \/ WakeWithoutAccess(c)

Next ==
    \/ \E c \in Calls : CallStep(c) \/ Killed(c)
    \/ Toggle

\* Every remote call of a request returns or times out.
Fairness == \A c \in Calls : WF_vars(CallStep(c))

Spec == Init /\ [][Next]_vars /\ Fairness

(***************************************************************************)
(* Properties.                                                             *)
(***************************************************************************)

\* The audit records implement the audit log: an operation is carried out only
\* after its record exists and at most once, also when execute() sends it
\* again; a settled record is true and final.
Ran == {c \in Calls : executed[c] > 0}
Log == INSTANCE AuditLog WITH log <- audit, ran <- Ran

AuditLogSpec == Log!Spec

\* The same, counted: a call's operation is never carried out twice.
ExecutedAtMostOnce == \A c \in Calls : executed[c] <= 1

\* A call that ended before its command (no record, no answer from the vehicle,
\* no wake, no virtual key) may be issued again: nothing left the gateway.
NotSentIsTrue == \A c \in Calls : reply[c] = "not_sent" => sent[c] = 0

\* What the caller is told about the command is what the record says; when it
\* could not be recorded, the caller is told so.
ReplyMatchesRecord ==
    \A c \in Calls :
        reply[c] \in {"success", "rejected", "failed"}
            => audit[c] = Recorded(reply[c])

\* No wake request is sent without a record of its own, and no command is sent
\* while the wake it waited for is unrecorded.
WakesRecorded ==
    \A c \in Calls :
        /\ wakes[c] > 0 => wakeAudit[c] # "none"
        /\ sent[c] > 0 /\ wakes[c] > 0 => wakeAudit[c] = "success"

\* Every call comes to an end, whether or not the vehicle ever wakes up.
CallsEnd == \A c \in Calls : <>(step[c] = "done")

\* Why: where each call stands, as a function of its next step.
CallInv(c) ==
    /\ step[c] = "begin" =>
         audit[c] = "none" /\ wakeAudit[c] = "none" /\ reply[c] = "none"
    /\ step[c] \notin {"begin", "done"} =>
         audit[c] = "attempted" /\ reply[c] = "none"
    /\ step[c] \notin {"end_wake", "end", "done"} => verdict[c] = "none"
    /\ step[c] \in {"begin", "preflight", "begin_wake"} => wakes[c] = 0
    /\ step[c] \notin {"wake", "send", "end", "done"} => ~refreshed[c]
    /\ step[c] = "wake" => wakes[c] = IF refreshed[c] THEN 1 ELSE 0
    /\ step[c] = "send" => sent[c] = IF refreshed[c] THEN 1 ELSE 0
    /\ step[c] \notin {"send", "end", "done"} => sent[c] = 0
    /\ step[c] \notin {"end", "done"} => executed[c] = 0
    /\ step[c] \in {"wake", "end_wake"} => wakeAudit[c] = "attempted"
    /\ step[c] \in {"poll", "send"} /\ wakes[c] > 0 => wakeAudit[c] = "success"
    /\ step[c] = "end_wake" => verdict[c] \in {"none", "not_sent"}
    /\ step[c] = "end" =>
         /\ verdict[c] # "none"
         /\ verdict[c] = "success" => executed[c] = 1
         /\ verdict[c] = "rejected" => executed[c] = 0
         /\ verdict[c] = "not_sent" => sent[c] = 0
    /\ executed[c] <= 1

AuditInv ==
    /\ TypeOK
    /\ \A c \in Calls : CallInv(c)
    /\ NotSentIsTrue
    /\ ReplyMatchesRecord
    /\ WakesRecorded
=============================================================================
