----------------------------- MODULE AccessProofs -----------------------------
(***************************************************************************)
(* Theorems about who acts and what is on record of it: Identity, for any  *)
(* sets of emails, identities, users and operators, and CommandAudit, for  *)
(* any set of calls and any number of polls.  The two modules share no     *)
(* variable; each part is a proof of its own.                              *)
(***************************************************************************)
EXTENDS CommandAudit, Identity, TLAPS

(***************************************************************************)
(* The allowlist and the identity index: IdentityInv is inductive.         *)
(***************************************************************************)

\* The empty allowlist satisfies the inductive invariant.
LEMMA InitIdentity == IdentityInit => IdentityInv
  BY NoneAssumption DEF IdentityInit, IdentityInv, IdentityTypeOK,
     BindingConsistent,
     ActiveImpliesProvisioned, JobInv, GrantInv, Exists

\* The first transaction of add-user.
LEMMA EnsureInvitationInv ==
  ASSUME IdentityInv, NEW o \in Operators, NEW e \in Emails,
         EnsureInvitation(o, e)
  PROVE  IdentityInv'
<1> USE NoneAssumption
<1>1. CASE Exists(e) /\ UNCHANGED <<user, status>>
  BY <1>1 DEF EnsureInvitation, IdentityInv, IdentityTypeOK, BindingConsistent,
     ActiveImpliesProvisioned, JobInv, GrantInv, Exists, indexVars
<1>2. CASE ~Exists(e)
  <2>1. PICK u \in Users : /\ \A f \in Emails : user[f] # u
                           /\ user' = [user EXCEPT ![e] = u]
                           /\ status' = [status EXCEPT ![e] = InitialStatus]
    BY <1>2 DEF EnsureInvitation
  <2>2. IdentityTypeOK'
    BY <2>1 DEF EnsureInvitation, IdentityInv, IdentityTypeOK, InitialStatus,
       indexVars
  <2>3. \A i \in Identities : index[i] # e
    BY <1>2 DEF IdentityInv, BindingConsistent
  <2>4. BindingConsistent'
    BY <2>1, <2>3 DEF EnsureInvitation, IdentityInv, BindingConsistent,
       IdentityTypeOK,
       Exists, indexVars
  <2>5. ActiveImpliesProvisioned'
    BY <2>1 DEF EnsureInvitation, IdentityInv, ActiveImpliesProvisioned,
       IdentityTypeOK, InitialStatus
  <2>6. JobInv'
    BY <1>2, <2>1 DEF EnsureInvitation, IdentityInv, JobInv, IdentityTypeOK,
       Exists
  <2>7. GrantInv'
    BY <2>1 DEF EnsureInvitation, IdentityInv, GrantInv, IdentityTypeOK,
       Exists,
       indexVars
  <2> QED
    BY <2>2, <2>4, <2>5, <2>6, <2>7 DEF IdentityInv
<1> QED
  BY <1>1, <1>2 DEF EnsureInvitation

\* A step that leaves the bindings and what was served alone keeps what is said
\* of them.
LEMMA BindingsStay ==
  ASSUME IdentityInv, UNCHANGED <<user, bound, indexVars, granted>>
  PROVE  BindingConsistent' /\ GrantInv'
<1>1. /\ user' = user /\ bound' = bound /\ granted' = granted
      /\ index' = index /\ indexUser' = indexUser
  BY DEF indexVars
<1>2. BindingConsistent'
  BY <1>1 DEF IdentityInv, BindingConsistent, Exists
<1>3. GrantInv'
  BY <1>1 DEF IdentityInv, GrantInv, Exists
<1> QED
  BY <1>2, <1>3

\* The remaining steps of add-user, and disable-user.
LEMMA OperatorInv ==
  ASSUME IdentityInv,
         \/ \E o \in Operators : Provision(o) \/ Activate(o) \/ AddUserStops(o)
         \/ \E e \in Emails : Disable(e)
  PROVE  IdentityInv'
<1>1. BindingConsistent' /\ GrantInv'
  BY BindingsStay DEF Provision, Activate, AddUserStops, Disable, SetStatus,
     allowlistVars
<1>2. ASSUME NEW o \in Operators, Provision(o)
      PROVE  IdentityTypeOK' /\ ActiveImpliesProvisioned' /\ JobInv'
  <2>1. /\ jobEmail[o] \in Emails /\ user[jobEmail[o]] \in Users
        /\ user' = user /\ jobEmail' = jobEmail /\ status' = status
        /\ datasets' = datasets \cup {user[jobEmail[o]]}
        /\ job' = [job EXCEPT ![o] = "activate"]
    BY <1>2 DEF Provision, IdentityInv, IdentityTypeOK, JobInv, Exists,
       allowlistVars
  <2>2. IdentityTypeOK'
    BY <1>2, <2>1 DEF Provision, IdentityInv, IdentityTypeOK, allowlistVars,
       indexVars
  <2>3. ActiveImpliesProvisioned'
    BY <2>1 DEF IdentityInv, ActiveImpliesProvisioned
  <2>4. JobInv'
    <3>1. /\ job' \in [Operators -> {"idle", "provision", "activate"}]
          /\ job'[o] = "activate" /\ job[o] = "provision"
          /\ \A p \in Operators \ {o} : job'[p] = job[p]
      BY <1>2, <2>1 DEF Provision, IdentityInv, IdentityTypeOK
    <3> QED
      BY <2>1, <3>1 DEF IdentityInv, JobInv, Exists
  <2> QED
    BY <2>2, <2>3, <2>4
<1>3. ASSUME NEW o \in Operators, Activate(o) \/ AddUserStops(o)
      PROVE  JobInv'
  <2>1. /\ user' = user /\ datasets' = datasets
        /\ job' = [job EXCEPT ![o] = "idle"]
        /\ jobEmail' = [jobEmail EXCEPT ![o] = None]
    BY <1>3 DEF Activate, AddUserStops, SetStatus, allowlistVars
  <2> QED
    BY <2>1 DEF IdentityInv, IdentityTypeOK, JobInv, Exists
<1>4. ASSUME NEW o \in Operators, Activate(o)
      PROVE  IdentityTypeOK' /\ ActiveImpliesProvisioned'
  <2>1. jobEmail[o] \in Emails /\ user[jobEmail[o]] \in datasets
    BY <1>4 DEF Activate, IdentityInv, JobInv
  <2>2. IdentityTypeOK'
    BY <1>4, <2>1 DEF Activate, SetStatus, IdentityInv, IdentityTypeOK,
       indexVars
  <2>3. ActiveImpliesProvisioned'
    BY <1>4, <2>1 DEF Activate, SetStatus, IdentityInv, IdentityTypeOK,
       ActiveImpliesProvisioned
  <2> QED
    BY <2>2, <2>3
<1>5. ASSUME NEW o \in Operators, AddUserStops(o)
      PROVE  IdentityTypeOK' /\ ActiveImpliesProvisioned'
  <2>1. IdentityTypeOK'
    BY <1>5 DEF AddUserStops, IdentityInv, IdentityTypeOK, allowlistVars,
       indexVars
  <2> QED
    BY <1>5, <2>1 DEF AddUserStops, IdentityInv, ActiveImpliesProvisioned,
       allowlistVars
<1>6. ASSUME NEW e \in Emails, Disable(e)
      PROVE  IdentityTypeOK' /\ ActiveImpliesProvisioned' /\ JobInv'
  <2>1. IdentityTypeOK'
    BY <1>6 DEF Disable, SetStatus, IdentityInv, IdentityTypeOK, indexVars,
       jobVars
  <2>2. ActiveImpliesProvisioned'
    BY <1>6 DEF Disable, SetStatus, IdentityInv, IdentityTypeOK,
       ActiveImpliesProvisioned
  <2>3. JobInv'
    BY <1>6 DEF Disable, SetStatus, IdentityInv, JobInv, Exists, jobVars
  <2> QED
    BY <2>1, <2>2, <2>3
<1> QED
  BY <1>1, <1>2, <1>3, <1>4, <1>5, <1>6 DEF IdentityInv

\* reset-user-identity removes the record's identity from both sides, and
\* with it every context that was served for the user.
LEMMA ResetInv ==
  ASSUME IdentityInv, NEW e \in Emails, NEW u \in Users, ResetIdentity(e, u)
  PROVE  IdentityInv'
<1> USE NoneAssumption
<1>1. IdentityTypeOK'
  BY DEF ResetIdentity, DeleteIndex, IdentityInv, IdentityTypeOK, indexVars,
     jobVars
<1>2. ActiveImpliesProvisioned' /\ JobInv'
  BY DEF ResetIdentity, IdentityInv, ActiveImpliesProvisioned, JobInv, Exists,
     jobVars
<1>3. \A f \in Emails \ {e} : bound[f] # None => bound[f] # bound[e]
  BY DEF IdentityInv, BindingConsistent
<1>4. \A g \in granted : g[2] # u => g[1] # bound[e]
  BY DEF ResetIdentity, IdentityInv, BindingConsistent, GrantInv,
     IdentityTypeOK
<1>5. CASE bound[e] = None
  BY <1>1, <1>2, <1>5 DEF ResetIdentity, DeleteIndex, IdentityInv,
     BindingConsistent, GrantInv, IdentityTypeOK, Exists, indexVars
<1>6. CASE bound[e] # None
  <2>1. /\ index' = [index EXCEPT ![bound[e]] = None]
        /\ indexUser' = [indexUser EXCEPT ![bound[e]] = None]
        /\ bound[e] \in Identities
    BY <1>6 DEF ResetIdentity, DeleteIndex, IdentityInv, IdentityTypeOK
  <2>2. BindingConsistent'
    BY <1>3, <2>1 DEF ResetIdentity, IdentityInv, BindingConsistent,
       IdentityTypeOK,
       Exists
  <2>3. GrantInv'
    BY <1>4, <2>1 DEF ResetIdentity, IdentityInv, GrantInv, IdentityTypeOK,
       Exists
  <2> QED
    BY <1>1, <1>2, <2>2, <2>3 DEF IdentityInv
<1> QED
  BY <1>5, <1>6

\* A first login writes both sides of a binding that neither side had.
LEMMA BindInv ==
  ASSUME IdentityInv, NEW i \in Identities, NEW e \in Emails, Bind(i, e)
  PROVE  IdentityInv'
<1> USE NoneAssumption
<1>1. bound[e] = None /\ index[i] = None /\ user[e] \in Users
  BY DEF Bind, OpenTo, Exists, IdentityInv, BindingConsistent, IdentityTypeOK
<1>2. IdentityTypeOK'
  BY <1>1 DEF Bind, IdentityInv, IdentityTypeOK, jobVars
<1>3. BindingConsistent'
  BY <1>1 DEF Bind, IdentityInv, IdentityTypeOK, BindingConsistent, Exists
<1>4. ActiveImpliesProvisioned' /\ JobInv'
  BY DEF Bind, IdentityInv, ActiveImpliesProvisioned, JobInv, Exists, jobVars
<1>5. GrantInv'
  BY <1>1 DEF Bind, IdentityInv, IdentityTypeOK, GrantInv, Exists
<1> QED
  BY <1>2, <1>3, <1>4, <1>5 DEF IdentityInv

\* A later login only reads.
LEMMA ResolveInv ==
  ASSUME IdentityInv, NEW i \in Identities, ResolveBinding(i)
  PROVE  IdentityInv'
  BY NoneAssumption DEF ResolveBinding, IdentityInv, IdentityTypeOK,
     BindingConsistent,
     ActiveImpliesProvisioned, JobInv, GrantInv, Exists, allowlistVars,
     indexVars, jobVars

\* Every step preserves the inductive invariant.
LEMMA StepIdentity ==
  IdentityInv /\ [IdentityNext]_identityVars => IdentityInv'
<1> SUFFICES ASSUME IdentityInv, [IdentityNext]_identityVars PROVE IdentityInv'
  OBVIOUS
<1>1. CASE UNCHANGED identityVars
  BY <1>1 DEF identityVars, allowlistVars, indexVars, jobVars, IdentityInv,
     IdentityTypeOK,
     BindingConsistent, ActiveImpliesProvisioned, JobInv, GrantInv, Exists
<1> QED
  BY <1>1, EnsureInvitationInv, OperatorInv, ResetInv, BindInv, ResolveInv
  DEF IdentityNext

\* The allowlist, the index and the add-user runs stay consistent.
THEOREM IdentityCorrect == IdentitySpec => []IdentityInv
  BY InitIdentity, StepIdentity, PTL DEF IdentitySpec

\* The two sides of a binding agree in every reachable state.
THEOREM BindingsConsistent == IdentitySpec => []BindingConsistent
<1>1. IdentityInv => BindingConsistent
  BY DEF IdentityInv
<1> QED
  BY <1>1, IdentityCorrect, PTL

\* One identity per user and one user per identity between resets: a context
\* is served only while the index still stands for it, and the two sides of
\* the index agree.
THEOREM OneIdentity == IdentitySpec => []OneIdentityPerUser
<1>1. IdentityInv => OneIdentityPerUser
  <2> SUFFICES ASSUME IdentityInv, NEW g \in granted, NEW h \in granted
               PROVE  g[1] = h[1] <=> g[2] = h[2]
    BY DEF OneIdentityPerUser
  <2>1. /\ g[1] \in Identities /\ h[1] \in Identities
        /\ index[g[1]] \in Emails /\ index[h[1]] \in Emails
        /\ user[index[g[1]]] = g[2] /\ user[index[h[1]]] = h[2]
        /\ bound[index[g[1]]] = g[1] /\ bound[index[h[1]]] = h[1]
        /\ Exists(index[g[1]])
    BY DEF IdentityInv, IdentityTypeOK, BindingConsistent, GrantInv
  <2> QED
    BY <2>1 DEF IdentityInv, GrantInv
<1> QED
  BY <1>1, IdentityCorrect, PTL

\* No active user without a dataset.
THEOREM ActiveProvisioned == IdentitySpec => []ActiveImpliesProvisioned
<1>1. IdentityInv => ActiveImpliesProvisioned
  BY DEF IdentityInv
<1> QED
  BY <1>1, IdentityCorrect, PTL

(***************************************************************************)
(* The calls and their records: AuditInv is inductive, and the records     *)
(* implement the audit log.                                                *)
(***************************************************************************)

\* Every call starts before its record is created.
LEMMA InitAudit == Init => AuditInv
  BY PollsAssumption DEF Init, AuditInv, TypeOK, CallInv, NotSentIsTrue,
     ReplyMatchesRecord, WakesRecorded, Steps, Verdicts, Results

(***************************************************************************)
(* A step of call c leaves what is known of the others alone.  Local(c)    *)
(* says that: every variable of another call keeps its value.              *)
(***************************************************************************)
Local(c) ==
    \A d \in Calls \ {c} :
        /\ step'[d] = step[d] /\ refreshed'[d] = refreshed[d]
        /\ verdict'[d] = verdict[d] /\ reply'[d] = reply[d]
        /\ audit'[d] = audit[d] /\ wakeAudit'[d] = wakeAudit[d]
        /\ sent'[d] = sent[d] /\ wakes'[d] = wakes[d]
        /\ executed'[d] = executed[d]

\* What the invariant says of one call.
Facts(c) ==
    /\ CallInv(c)
    /\ reply[c] = "not_sent" => sent[c] = 0
    /\ reply[c] \in {"success", "rejected", "failed"}
         => audit[c] = Recorded(reply[c])
    /\ wakes[c] > 0 => wakeAudit[c] # "none"
    /\ sent[c] > 0 /\ wakes[c] > 0 => wakeAudit[c] = "success"

\* The invariant, call by call.
LEMMA InvFacts == AuditInv <=> TypeOK /\ \A c \in Calls : Facts(c)
  BY DEF AuditInv, Facts, NotSentIsTrue, ReplyMatchesRecord, WakesRecorded

\* The calls a step does not belong to keep their facts.
LEMMA OthersKeepFacts ==
  ASSUME NEW c \in Calls, NEW d \in Calls, c # d, Facts(d), Local(c)
  PROVE  Facts(d)'
  BY DEF Local, Facts, CallInv, Recorded

\* A step of call c keeps the types, is local to c and keeps the facts of c.
Keeps(c) == TypeOK' /\ Local(c) /\ Facts(c)'

\* Creating the record.
LEMMA BeginKeeps ==
  ASSUME TypeOK, NEW c \in Calls, Facts(c), Begin(c) \/ BeginFails(c)
  PROVE  Keeps(c)
  <1> USE DEF TypeOK, Facts, CallInv, Local, Keeps, Recorded, Steps, Verdicts,
              Results, Goto, Conclude, Answer, tallyVars
  <1>1. CASE Begin(c)
    BY <1>1 DEF Begin
  <1>2. CASE BeginFails(c)
    BY <1>2 DEF BeginFails
  <1> QED
    BY <1>1, <1>2

\* Finalizing the record.
LEMMA FinalizeKeeps ==
  ASSUME TypeOK, NEW c \in Calls, Facts(c), Finalize(c) \/ FinalizeFails(c)
  PROVE  Keeps(c)
  <1> USE DEF TypeOK, Facts, CallInv, Local, Keeps, Recorded, Steps, Verdicts,
              Results, Goto, Answer, tallyVars
  <1>1. CASE Finalize(c)
    BY <1>1 DEF Finalize
  <1>2. CASE FinalizeFails(c)
    BY <1>2 DEF FinalizeFails
  <1> QED
    BY <1>1, <1>2

\* Looking at the vehicle and waking it.
LEMMA WakeKeeps ==
  ASSUME TypeOK, NEW c \in Calls, Facts(c),
         \/ Preflight(c) \/ BeginWake(c) \/ Wake(c) \/ WakeWithoutAccess(c)
         \/ EndWake(c) \/ EndWakeFails(c) \/ Poll(c)
  PROVE  Keeps(c)
  <1> USE PollsAssumption
      DEF TypeOK, Facts, CallInv, Local, Keeps, Recorded, Steps, Verdicts,
          Results, Goto, Conclude, recordVars, tallyVars
  <1>1. CASE Preflight(c)
    BY <1>1 DEF Preflight
  <1>2. CASE BeginWake(c)
    BY <1>2 DEF BeginWake
  <1>3. CASE Wake(c)
    <2>1. /\ step[c] = "wake"
          /\ wakes' = [wakes EXCEPT ![c] = @ + 1]
          /\ UNCHANGED <<audit, wakeAudit, polled, reply, sent, executed>>
      BY <1>3 DEF Wake
    <2>2. CASE Again(c) /\ UNCHANGED <<online, step, verdict, woken>>
      BY <2>1, <2>2 DEF Again
    <2>3. CASE /\ refreshed' = [refreshed EXCEPT ![c] = FALSE]
               /\ Goto(c, "end_wake")
               /\ online' \in {online, TRUE}
               /\ \/ /\ woken' = [woken EXCEPT ![c] = online']
                     /\ UNCHANGED verdict
                  \/ /\ verdict' = [verdict EXCEPT ![c] = "not_sent"]
                     /\ UNCHANGED woken
      <3>1. online' \in BOOLEAN /\ woken' \in [Calls -> BOOLEAN]
        <4>1. online \in BOOLEAN /\ woken \in [Calls -> BOOLEAN]
          BY DEF TypeOK
        <4>2. online' \in BOOLEAN
          BY <2>3, <4>1, Zenon
        <4>3. \A v \in BOOLEAN : [woken EXCEPT ![c] = v] \in [Calls -> BOOLEAN]
          BY <4>1, Zenon
        <4> QED
          BY <2>3, <4>1, <4>2, <4>3, Zenon
      <3>2. \/ verdict' = [verdict EXCEPT ![c] = "not_sent"]
            \/ verdict' = verdict
        BY <2>3
      <3>3. /\ refreshed' = [refreshed EXCEPT ![c] = FALSE]
            /\ step' = [step EXCEPT ![c] = "end_wake"]
        BY <2>3
      <3>4. wakes[c] + 1 \in 0..2 /\ wakes' \in [Calls -> 0..2]
        BY <2>1
      <3>5. TypeOK'
        BY <2>1, <3>1, <3>2, <3>3, <3>4
      <3>6. Local(c) /\ Facts(c)'
        BY <2>1, <3>2, <3>3, <3>4
      <3> QED
        BY <3>5, <3>6
    <2> QED
      BY <1>3, <2>2, <2>3 DEF Wake
  <1>4. CASE WakeWithoutAccess(c)
    BY <1>4 DEF WakeWithoutAccess
  <1>5. CASE EndWake(c)
    BY <1>5 DEF EndWake
  <1>6. CASE EndWakeFails(c)
    BY <1>6 DEF EndWakeFails
  <1>7. CASE Poll(c)
    BY <1>7 DEF Poll
  <1> QED
    BY <1>1, <1>2, <1>3, <1>4, <1>5, <1>6, <1>7

\* Sending the operation.
LEMMA SendKeeps ==
  ASSUME TypeOK, NEW c \in Calls, Facts(c),
         \/ SendSucceeds(c) \/ SendRejected(c) \/ SendUnauthorized(c)
         \/ SendFails(c) \/ SendWithoutAccess(c)
  PROVE  Keeps(c)
  <1> USE DEF TypeOK, Facts, CallInv, Local, Keeps, Recorded, Steps, Verdicts,
              Results, Goto, Conclude, Sending, Carried, recordVars, tallyVars
  <1>1. CASE SendSucceeds(c)
    BY <1>1 DEF SendSucceeds
  <1>2. CASE SendRejected(c)
    BY <1>2 DEF SendRejected
  <1>3. CASE SendUnauthorized(c)
    BY <1>3 DEF SendUnauthorized, Again
  <1>4. CASE SendFails(c)
    BY <1>4 DEF SendFails, Unanswered
  <1>5. CASE SendWithoutAccess(c)
    BY <1>5 DEF SendWithoutAccess
  <1> QED
    BY <1>1, <1>2, <1>3, <1>4, <1>5

\* Dying.
LEMMA KilledKeeps ==
  ASSUME TypeOK, NEW c \in Calls, Facts(c), Killed(c)
  PROVE  Keeps(c)
  BY DEF TypeOK, Facts, CallInv, Local, Keeps, Recorded, Steps, Verdicts,
         Results, Goto, Killed, recordVars, tallyVars

\* Every step of the specification keeps the invariant.
LEMMA StepAudit == AuditInv /\ [Next]_vars => AuditInv'
  <1> SUFFICES ASSUME AuditInv, [Next]_vars PROVE AuditInv'
    OBVIOUS
  <1>1. TypeOK /\ \A d \in Calls : Facts(d)
    BY InvFacts
  <1>2. TypeOK' /\ \A d \in Calls : Facts(d)'
    <2>1. CASE \E c \in Calls : CallStep(c) \/ Killed(c)
      <3>1. PICK c \in Calls : CallStep(c) \/ Killed(c)
        BY <2>1
      <3>2. Keeps(c)
        BY <1>1, <3>1, BeginKeeps, FinalizeKeeps, WakeKeeps, SendKeeps,
           KilledKeeps DEF CallStep
      <3> QED
        BY <1>1, <3>2, OthersKeepFacts DEF Keeps
    <2>2. CASE Toggle
      BY <1>1, <2>2 DEF Toggle, TypeOK, Facts, CallInv, Recorded, recordVars,
         localVars, tallyVars
    <2>3. CASE UNCHANGED vars
      BY <1>1, <2>3 DEF vars, TypeOK, Facts, CallInv, Recorded, recordVars,
         localVars, tallyVars
    <2> QED
      BY <2>1, <2>2, <2>3 DEF Next
  <1> QED
    BY <1>2 DEF AuditInv, Facts, NotSentIsTrue, ReplyMatchesRecord,
       WakesRecorded

(***************************************************************************)
(* Theorems.                                                               *)
(***************************************************************************)

\* The invariant that says where every call stands holds in every reachable
\* state of _execute_audited's calls.
THEOREM AuditCorrect == Spec => []AuditInv
  BY InitAudit, StepAudit, PTL DEF Spec

\* A call never makes the vehicle carry its command out twice, although
\* execute() may send it twice.
THEOREM AtMostOnce == Spec => []ExecutedAtMostOnce
  <1>1. AuditInv => ExecutedAtMostOnce
    BY DEF AuditInv, CallInv, ExecutedAtMostOnce
  <1> QED
    BY <1>1, AuditCorrect, PTL

\* A call that ended before its command sent nothing.
THEOREM NotSentTrue == Spec => []NotSentIsTrue
  <1>1. AuditInv => NotSentIsTrue
    BY DEF AuditInv
  <1> QED
    BY <1>1, AuditCorrect, PTL

\* The caller's answer is the record's, or "indeterminate".
THEOREM RepliesRecorded == Spec => []ReplyMatchesRecord
  <1>1. AuditInv => ReplyMatchesRecord
    BY DEF AuditInv
  <1> QED
    BY <1>1, AuditCorrect, PTL

\* _ensure_awake begins a record of its own before it wakes the vehicle, and
\* finalizes it before the command is sent.
THEOREM WakesAreRecorded == Spec => []WakesRecorded
  <1>1. AuditInv => WakesRecorded
    BY DEF AuditInv
  <1> QED
    BY <1>1, AuditCorrect, PTL

\* A step of a call is a step of the audit log, or none: only Begin, the
\* sends and Finalize change what the log sees.
LEMMA StepLog ==
  AuditInv /\ [Next]_vars => [Log!Next]_<<audit, Ran>>
  <1> SUFFICES ASSUME AuditInv, [Next]_vars
               PROVE  Log!Next \/ UNCHANGED <<audit, Ran>>
    OBVIOUS
  <1>1. CASE \E c \in Calls : CallStep(c) \/ Killed(c)
    <2>1. PICK c \in Calls : CallStep(c) \/ Killed(c)
      BY <1>1
    <2>2. TypeOK /\ CallInv(c)
      BY DEF AuditInv
    <2>3. CASE Begin(c) \/ BeginFails(c)
      <3>1. UNCHANGED executed
        BY <2>3 DEF Begin, BeginFails, tallyVars
      <3>2. audit' = [audit EXCEPT ![c] = "attempted"] \/ audit' = audit
        BY <2>3 DEF Begin, BeginFails
      <3>3. audit[c] = "none"
        BY <2>2, <2>3 DEF Begin, BeginFails, CallInv
      <3> QED
        BY <3>1, <3>2, <3>3 DEF Log!Next, Log!Attempt, Ran
    <2>4. CASE Finalize(c) \/ FinalizeFails(c)
      <3>1. UNCHANGED executed
        BY <2>4 DEF Finalize, FinalizeFails, tallyVars
      <3>2. \/ audit' = [audit EXCEPT ![c] = Recorded(verdict[c])]
            \/ audit' = audit
        BY <2>4 DEF Finalize, FinalizeFails
      <3>3. /\ audit[c] = "attempted"
            /\ verdict[c] = "success" => c \in Ran
            /\ verdict[c] = "rejected" => c \notin Ran
        BY <2>2, <2>4 DEF Finalize, FinalizeFails, CallInv, Ran
      <3>4. /\ Recorded(verdict[c]) \in {"success", "rejected", "failure"}
            /\ Recorded(verdict[c]) = "success" => c \in Ran
            /\ Recorded(verdict[c]) = "rejected" => c \notin Ran
        BY <3>3 DEF Recorded
      <3> QED
        <4>1. UNCHANGED Ran
          BY <3>1 DEF Ran
        <4>2. Log!Settle(c, Recorded(verdict[c])) \/ audit' = audit
          BY <3>2, <3>3, <3>4, <4>1 DEF Log!Settle
        <4> QED
          BY <3>4, <4>1, <4>2 DEF Log!Next
    <2>5. CASE SendSucceeds(c) \/ SendFails(c)
      <3>1. UNCHANGED audit
        BY <2>5 DEF SendSucceeds, SendFails, Unanswered, Sending, recordVars
      <3>2. executed' = [executed EXCEPT ![c] = @ + 1] \/ executed' = executed
        BY <2>5 DEF SendSucceeds, SendFails, Unanswered, Carried
      <3>3. audit[c] = "attempted" /\ executed[c] = 0
        BY <2>2, <2>5
        DEF SendSucceeds, SendFails, Unanswered, Sending, CallInv
      <3>4. CASE executed' = [executed EXCEPT ![c] = @ + 1]
        <4>1. Ran' = Ran \cup {c}
          BY <2>2, <3>3, <3>4 DEF Ran, TypeOK
        <4>2. c \notin Ran
          BY <3>3 DEF Ran
        <4> QED
          BY <3>1, <3>3, <4>1, <4>2 DEF Log!Next, Log!Run
      <3>5. CASE executed' = executed
        BY <3>1, <3>5 DEF Ran
      <3> QED
        BY <3>2, <3>4, <3>5
    <2>6. CASE \/ Preflight(c) \/ BeginWake(c) \/ Wake(c)
               \/ WakeWithoutAccess(c) \/ EndWake(c) \/ EndWakeFails(c)
               \/ Poll(c) \/ SendRejected(c) \/ SendUnauthorized(c)
               \/ SendWithoutAccess(c) \/ Killed(c)
      <3>1. UNCHANGED <<audit, executed>>
        BY <2>6 DEF Preflight, BeginWake, Wake, WakeWithoutAccess, EndWake,
           EndWakeFails, Poll, SendRejected, SendUnauthorized,
           SendWithoutAccess, Killed, Sending, recordVars, tallyVars
      <3> QED
        BY <3>1 DEF Ran
    <2> QED
      BY <2>1, <2>3, <2>4, <2>5, <2>6 DEF CallStep
  <1>2. CASE Toggle \/ UNCHANGED vars
    BY <1>2 DEF Toggle, vars, recordVars, tallyVars, Ran
  <1> QED
    BY <1>1, <1>2 DEF Next

\* The command audit implements the audit log: an operation is carried out
\* only under an existing record and at most once, and a settled record is
\* true and final.
THEOREM ImplementsAuditLog == Spec => AuditLogSpec
  <1>1. Init => Log!Init
    BY DEF Init, Log!Init, Ran
  <1> QED
    BY <1>1, AuditCorrect, StepLog, PTL DEF Spec, AuditLogSpec, Log!Spec
=============================================================================
