------------------------------- MODULE Identity -------------------------------
(***************************************************************************)
(* The allowlist, the OIDC identity index, and who may act as which        *)
(* platform user: the Firestore collections allowed_users/{email} and      *)
(* oidc_identities/{sha256(issuer, subject)}, the operator's add-user,     *)
(* disable-user and reset-user-identity commands, and the gateway's        *)
(* resolve_or_bind, which turns a verified token into a UserContext.       *)
(*                                                                         *)
(* Every Firestore transaction is one step.  add-user is three steps with  *)
(* a BigQuery provisioning between two transactions, and several operators *)
(* may run it at once.  An identity may present any verified email, or     *)
(* none (an MCP access token carries none): the providers let emails       *)
(* change hands.                                                           *)
(***************************************************************************)
EXTENDS Naturals

CONSTANTS
    Emails,      \* normalized invitation emails, keys of allowed_users
    Identities,  \* (issuer, subject) pairs, keys of oidc_identities
    Users,       \* the opaque ids an invitation can draw (user and dataset)
    Operators,   \* concurrent runs of the admin commands
    None         \* Python's None, and "no such document"

ASSUME NoneAssumption == None \notin Emails \cup Identities \cup Users

VARIABLES
    user,          \* allowed_users: the user (and dataset) id of an email,
    status,        \* its access status,
    provisioning,  \* its provisioning_state,
    bound,         \* and the identity it is bound to
    index,         \* oidc_identities: the email an identity is bound to,
    indexUser,     \* and the user id stored with it
    datasets,      \* users whose BigQuery dataset has been provisioned
    job,           \* per operator, the add-user run's next step
    jobEmail,      \* and the invitation it works on
    granted        \* history: <<identity, user>> of every UserContext
                   \* returned since the user's binding was last reset

allowlistVars == <<user, status, provisioning, bound>>
indexVars     == <<index, indexUser>>
jobVars       == <<job, jobEmail>>
identityVars  == <<allowlistVars, indexVars, datasets, jobVars, granted>>

IdentityTypeOK ==
    /\ user \in [Emails -> Users \cup {None}]
    /\ status \in [Emails -> {"active", "disabled"}]
    /\ provisioning \in [Emails -> {"pending", "ready"}]
    /\ bound \in [Emails -> Identities \cup {None}]
    /\ index \in [Identities -> Emails \cup {None}]
    /\ indexUser \in [Identities -> Users \cup {None}]
    /\ datasets \in SUBSET Users
    /\ job \in [Operators -> {"idle", "provision", "activate"}]
    /\ jobEmail \in [Operators -> Emails \cup {None}]
    /\ granted \in SUBSET (Identities \X Users)

\* A field of a document that does not exist keeps its initial value here.
IdentityInit ==
    /\ user = [e \in Emails |-> None]
    /\ status = [e \in Emails |-> "disabled"]
    /\ provisioning = [e \in Emails |-> "pending"]
    /\ bound = [e \in Emails |-> None]
    /\ index = [i \in Identities |-> None]
    /\ indexUser = [i \in Identities |-> None]
    /\ datasets = {}
    /\ job = [o \in Operators |-> "idle"]
    /\ jobEmail = [o \in Operators |-> None]
    /\ granted = {}

Exists(e) == user[e] # None

\* (variant: a new record is active at once)
InitialStatusActive == "active"

\* a new record is disabled until its dataset is provisioned
InitialStatus == "disabled"

(***************************************************************************)
(* The operator's commands.                                                *)
(***************************************************************************)

\* _ensure_invitation_transaction: ids are drawn once, and a record that is
\* there keeps its ids, status and binding.
EnsureInvitation(o, e) ==
    /\ job[o] = "idle"
    /\ \/ /\ Exists(e)
          /\ UNCHANGED <<user, status>>
       \/ /\ ~Exists(e)
          /\ \E u \in {v \in Users : \A f \in Emails : user[f] # v} :
               user' = [user EXCEPT ![e] = u]
          /\ status' = [status EXCEPT ![e] = InitialStatus]
    /\ provisioning' = [provisioning EXCEPT ![e] = "pending"]
    /\ job' = [job EXCEPT ![o] = "provision"]
    /\ jobEmail' = [jobEmail EXCEPT ![o] = e]
    /\ UNCHANGED <<bound, indexVars, datasets, granted>>

\* BigQueryDatasetProvisioner.provision succeeds.
Provision(o) ==
    /\ job[o] = "provision"
    /\ datasets' = datasets \cup {user[jobEmail[o]]}
    /\ job' = [job EXCEPT ![o] = "activate"]
    /\ UNCHANGED <<allowlistVars, indexVars, jobEmail, granted>>

\* _set_status_transaction on an existing record.
SetStatus(e, s) ==
    /\ Exists(e)
    /\ status' = [status EXCEPT ![e] = s]
    /\ provisioning' = [provisioning EXCEPT ![e] = "ready"]
    /\ UNCHANGED <<user, bound>>

Activate(o) ==
    /\ job[o] = "activate"
    /\ SetStatus(jobEmail[o], "active")
    /\ job' = [job EXCEPT ![o] = "idle"]
    /\ jobEmail' = [jobEmail EXCEPT ![o] = None]
    /\ UNCHANGED <<indexVars, datasets, granted>>

\* add-user fails or is interrupted; the operator may run it again.
AddUserStops(o) ==
    /\ job[o] # "idle"
    /\ job' = [job EXCEPT ![o] = "idle"]
    /\ jobEmail' = [jobEmail EXCEPT ![o] = None]
    /\ UNCHANGED <<allowlistVars, indexVars, datasets, granted>>

Disable(e) ==
    /\ SetStatus(e, "disabled")
    /\ UNCHANGED <<indexVars, datasets, jobVars, granted>>

\* (variant: the reset clears the record but leaves the index document)
KeepIndex(i) == UNCHANGED indexVars
DeleteIndex(i) ==
    IF i = None
      THEN UNCHANGED indexVars
      ELSE /\ index' = [index EXCEPT ![i] = None]
           /\ indexUser' = [indexUser EXCEPT ![i] = None]

\* _reset_identity_transaction, the operator having confirmed user id u.
ResetIdentity(e, u) ==
    /\ Exists(e)
    /\ user[e] = u
    /\ DeleteIndex(bound[e])
    /\ bound' = [bound EXCEPT ![e] = None]
    /\ granted' = {g \in granted : g[2] # u}
    /\ UNCHANGED <<user, status, provisioning, datasets, jobVars>>

(***************************************************************************)
(* resolve_or_bind.  Every error leaves the documents as they are.         *)
(***************************************************************************)

\* The identity has an index document; _context checks the record behind it.
ResolveBinding(i) ==
    /\ index[i] # None
    /\ Exists(index[i])
    /\ indexUser[i] = user[index[i]]
    /\ status[index[i]] = "active"
    /\ bound[index[i]] = i
    /\ granted' = granted \cup {<<i, user[index[i]]>>}
    /\ UNCHANGED <<allowlistVars, indexVars, datasets, jobVars>>

\* (variant: an invitation bound to another identity is taken over)
AnyInvitation(e, i) == TRUE
OpenTo(e, i) == bound[e] \in {None, i}

\* First login: the verified email names an active invitation.
Bind(i, e) ==
    /\ index[i] = None
    /\ Exists(e)
    /\ status[e] = "active"
    /\ OpenTo(e, i)
    /\ bound' = [bound EXCEPT ![e] = i]
    /\ index' = [index EXCEPT ![i] = e]
    /\ indexUser' = [indexUser EXCEPT ![i] = user[e]]
    /\ granted' = granted \cup {<<i, user[e]>>}
    /\ UNCHANGED <<user, status, provisioning, datasets, jobVars>>

IdentityNext ==
    \/ \E o \in Operators :
         \/ \E e \in Emails : EnsureInvitation(o, e)
         \/ Provision(o) \/ Activate(o) \/ AddUserStops(o)
    \/ \E e \in Emails :
         \/ Disable(e)
         \/ \E u \in Users : ResetIdentity(e, u)
         \/ \E i \in Identities : Bind(i, e)
    \/ \E i \in Identities : ResolveBinding(i)

IdentitySpec == IdentityInit /\ [][IdentityNext]_identityVars

(***************************************************************************)
(* Properties.                                                             *)
(***************************************************************************)

\* The allowlist and the identity index agree whatever logins, resets and
\* add-user runs interleave: the ConfigurationError branches of
\* _resolve_or_bind_transaction, and the mismatch in _context, are dead code.
BindingConsistent ==
    /\ \A i \in Identities : index[i] # None =>
         /\ Exists(index[i])
         /\ indexUser[i] = user[index[i]]
         /\ bound[index[i]] = i
    /\ \A e \in Emails : bound[e] # None => index[bound[e]] = e

\* Between two resets of a binding at most one identity is ever served as a
\* user, and an identity is never served as two users, however the emails in
\* its tokens change ("later email changes do not change authorization").
OneIdentityPerUser ==
    \A g, h \in granted : g[1] = h[1] <=> g[2] = h[2]

\* An invitation is active only after its dataset was provisioned, also when
\* add-user runs overlap, stop half-way or race a disable.
ActiveImpliesProvisioned ==
    \A e \in Emails : status[e] = "active" => user[e] \in datasets

\* An add-user run past its first transaction works on an existing record, and
\* past the provisioning on one whose dataset is there.
JobInv ==
    \A o \in Operators :
        /\ job[o] # "idle" => jobEmail[o] \in Emails /\ Exists(jobEmail[o])
        /\ job[o] = "activate" => user[jobEmail[o]] \in datasets

\* User ids name one invitation, and every served context is one the index
\* still stands for.
GrantInv ==
    /\ \A e, f \in Emails : Exists(e) /\ user[e] = user[f] => e = f
    /\ \A g \in granted : index[g[1]] # None /\ indexUser[g[1]] = g[2]

\* The inductive invariant behind the three properties.
IdentityInv ==
    /\ IdentityTypeOK
    /\ BindingConsistent
    /\ ActiveImpliesProvisioned
    /\ JobInv
    /\ GrantInv
=============================================================================
