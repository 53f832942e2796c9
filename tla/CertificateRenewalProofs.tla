----------------------- MODULE CertificateRenewalProofs -----------------------
(***************************************************************************)
(* Theorems about CertificateRenewal, for any executions, certificates,    *)
(* profiles and bounds: CertificateInv is inductive however executions     *)
(* overlap, and LoneInv is as long as they do not.                         *)
(***************************************************************************)
EXTENDS CertificateRenewal, TLAPS

(***************************************************************************)
(* The inductive invariant, for any number of overlapping executions.      *)
(***************************************************************************)

\* Version v of secret s holds certificate m.
Holds(s, v, m) == v \in 1..Latest(s) /\ payload[s][v] = m

\* Every manifest names versions that exist and hold its leaf, for an approved
\* profile.
ReleaseInv ==
    \A i \in 1..Newest :
        LET r == releases[i]
        IN /\ Holds("cert", r.cert, r.leaf)
           /\ Holds("key", r.key, r.leaf)
           /\ Holds("state", r.state, r.leaf)
           /\ r.trust \in approved

Adding == {"add_cert", "add_key", "add_state", "add_release"}

\* What an execution has read and added so far.
JobInv(j) ==
    /\ active[j] <= Newest
    /\ step[j] = "check" => active[j] > 0
    /\ step[j] \notin {"idle", "trust"} => trust[j] \in Profiles
    /\ step[j] \in {"candidate"} \cup Adding => material[j] \in Materials
    /\ step[j] \in Adding => trust[j] \in approved
    /\ step[j] \in Adding \ {"add_cert"}
         => Holds("cert", version[j]["cert"], material[j])
    /\ step[j] \in {"add_state", "add_release"}
         => Holds("key", version[j]["key"], material[j])
    /\ step[j] = "add_release"
         => Holds("state", version[j]["state"], material[j])

\* Holds for any number of overlapping executions.
CertificateInv ==
    /\ TypeOK
    /\ ReleaseInv
    /\ readiness \in approved \cup {None}
    /\ \A j \in Jobs : JobInv(j)

(***************************************************************************)
(* The secrets only grow: what a version holds, it holds for good.         *)
(***************************************************************************)

\* The history of the secrets, the manifests and the approvals is kept.
Grows ==
    /\ \A s \in Secrets :
         /\ Latest(s)' \in Nat /\ Latest(s) <= Latest(s)'
         /\ \A v \in 1..Latest(s) : payload'[s][v] = payload[s][v]
    /\ Newest' \in Nat /\ Newest <= Newest'
    /\ \A i \in 1..Newest : releases'[i] = releases[i]
    /\ approved \subseteq approved'

\* The types of the numbers the secrets are read by.
LEMMA Counts ==
  ASSUME TypeOK
  PROVE  /\ Newest \in Nat
         /\ \A s \in Secrets : Latest(s) \in Nat
         /\ \A s \in Secrets : \A v \in 1..Latest(s) :
              payload[s][v] \in Materials
         /\ \A i \in 1..Newest :
              releases[i] \in [cert : Nat, key : Nat, state : Nat,
                               leaf : Materials, trust : Profiles]
  <1>1. \A s \in Secrets : payload[s] \in Seq(Materials)
    BY DEF TypeOK
  <1> DEFINE Manifests == [cert : Nat, key : Nat, state : Nat,
                           leaf : Materials, trust : Profiles]
  <1>2. releases \in Seq(Manifests)
    BY DEF TypeOK
  <1> HIDE DEF Manifests
  <1>3. Newest \in Nat
    BY <1>2 DEF Newest
  <1>4. \A i \in 1..Newest : releases[i] \in Manifests
    BY <1>2 DEF Newest
  <1>5. ASSUME NEW s \in Secrets
        PROVE  /\ Latest(s) \in Nat
               /\ \A v \in 1..Latest(s) : payload[s][v] \in Materials
    <2>1. payload[s] \in Seq(Materials)
      BY <1>1
    <2> QED
      BY <2>1 DEF Latest
  <1> QED
    BY <1>3, <1>4, <1>5 DEF Manifests

\* A step that leaves the secrets and the approvals alone.
LEMMA SameGrows ==
  ASSUME TypeOK, UNCHANGED <<payload, releases>>, approved \subseteq approved'
  PROVE  Grows
  BY Counts DEF Grows, Newest, Latest

\* A version that holds a certificate holds it for good.
LEMMA HoldsStays ==
  ASSUME Grows, NEW s \in Secrets, NEW v, NEW m, Holds(s, v, m), TypeOK
  PROVE  Holds(s, v, m)'
  BY Counts DEF Holds, Grows

\* Manifests that were right stay right.
LEMMA ReleasesStay ==
  ASSUME TypeOK, ReleaseInv, Grows, Newest' = Newest
  PROVE  ReleaseInv'
  <1> SUFFICES ASSUME NEW i \in 1..Newest
               PROVE  /\ Holds("cert", releases[i].cert, releases[i].leaf)'
                      /\ Holds("key", releases[i].key, releases[i].leaf)'
                      /\ Holds("state", releases[i].state, releases[i].leaf)'
                      /\ releases'[i].trust \in approved'
    BY DEF ReleaseInv
  <1>1. releases'[i] = releases[i]
    BY DEF Grows
  <1>2. /\ Holds("cert", releases[i].cert, releases[i].leaf)
        /\ Holds("key", releases[i].key, releases[i].leaf)
        /\ Holds("state", releases[i].state, releases[i].leaf)
        /\ releases[i].trust \in approved
    BY DEF ReleaseInv
  <1> QED
    BY <1>1, <1>2, Counts DEF Holds, Grows, Secrets

\* A step of execution j leaves what the others know alone.
Others(j) ==
    \A i \in Jobs \ {j} :
        /\ step'[i] = step[i] /\ active'[i] = active[i]
        /\ trust'[i] = trust[i] /\ material'[i] = material[i]
        /\ version'[i] = version[i]

\* What an execution knows survives what others add to the secrets.
LEMMA JobStays ==
  ASSUME TypeOK, Grows, NEW i \in Jobs, JobInv(i),
         step'[i] = step[i], active'[i] = active[i], trust'[i] = trust[i],
         material'[i] = material[i], version'[i] = version[i]
  PROVE  JobInv(i)'
  <1>1. /\ active[i] \in Nat /\ Newest \in Nat /\ Newest' \in Nat
        /\ Newest <= Newest' /\ approved \subseteq approved'
    BY Counts DEF TypeOK, Grows
  <1>2. ASSUME NEW s \in Secrets, NEW v, NEW m,
               v \in 1..Latest(s) /\ payload[s][v] = m
        PROVE  v \in 1..Latest(s)' /\ payload'[s][v] = m
    BY <1>2, HoldsStays DEF Holds
  <1>3. {"cert", "key", "state"} \subseteq Secrets
    BY DEF Secrets
  <1>4. active'[i] <= Newest'
    BY <1>1 DEF JobInv
  <1> QED
    BY <1>1, <1>2, <1>3, <1>4 DEF JobInv, Adding, Holds

\* What every step keeps of the invariant besides the executions.
Kept ==
    /\ TypeOK'
    /\ Grows
    /\ ReleaseInv'
    /\ readiness' \in approved' \cup {None}

(***************************************************************************)
(* The edge VM, the clock and the operator.                                *)
(***************************************************************************)

\* The VM reads the secrets and writes only its own disk and status.
LEMMA EdgeKeeps ==
  ASSUME CertificateInv, Edge \/ Reboot
  PROVE  Kept /\ EdgeOnly
  <1> USE NoneAssumption, BoundsAssumption
  <1>1. TypeOK
    BY DEF CertificateInv
  <1>2. EdgeOnly
    BY DEF Edge, FetchRelease, FetchMaterial, MoveAside, Install,
       RemoveReceiver, StartHealthy, MarkDeployed, ReportSuccess,
       RollbackHealthy, KeepInstalled, FetchLegacy, FetchLegacyKey,
       StartUnhealthy, RollbackUnhealthy, BootFails, Reboot
  <1>3. /\ vm' \in BootSteps
        /\ {booting', deployed', status'} \subseteq Nat
        /\ {staged', tls', previous', serving', lastHealthy'}
             \subseteq MaybeMaterial
        /\ container' \in BOOLEAN
        /\ failures' \in 0..MaxFailures
    <2>0. /\ {booting, deployed, status} \subseteq Nat
          /\ {staged, tls, previous, serving, lastHealthy}
               \subseteq MaybeMaterial
          /\ container \in BOOLEAN
          /\ failures \in 0..MaxFailures
      BY <1>1 DEF TypeOK
    <2> USE <2>0 DEF MaybeMaterial, diskVars, BootSteps
    <2>1. CASE FetchRelease \/ KeepInstalled
      BY <1>1, <2>1, Counts DEF FetchRelease, KeepInstalled, NoManifest, Injected
    <2>2. CASE FetchMaterial
      <3>1. releases[booting].leaf \in Materials
        BY <1>1, <2>2, Counts DEF FetchMaterial, Installable, Readable, Secrets
      <3> QED
        BY <2>2, <3>1 DEF FetchMaterial
    <2>3. CASE FetchLegacy
      <3>1. payload["cert"][Latest("cert")] \in Materials
        BY <1>1, <2>3, Counts DEF FetchLegacy, Readable, Secrets
      <3> QED
        BY <2>3, <3>1 DEF FetchLegacy, NoManifest, Injected
    <2>13. CASE FetchLegacyKey
      BY <2>13 DEF FetchLegacyKey
    <2>4. CASE MoveAside
      BY <2>4 DEF MoveAside
    <2>11. CASE Install
      BY <2>11 DEF Install
    <2>12. CASE RemoveReceiver
      BY <2>12 DEF RemoveReceiver
    <2>5. CASE StartHealthy
      BY <2>5 DEF StartHealthy, Healthy
    <2>14. CASE MarkDeployed \/ ReportSuccess
      BY <2>14 DEF MarkDeployed, ReportSuccess
    <2>10. CASE RollbackHealthy
      BY <2>10 DEF RollbackHealthy, Healthy
    <2>6. CASE StartUnhealthy
      BY <2>6 DEF StartUnhealthy, GiveUp, Injected
    <2>7. CASE RollbackUnhealthy
      BY <2>7 DEF RollbackUnhealthy, GiveUp
    <2>8. CASE BootFails
      BY <2>8 DEF BootFails, GiveUp, Injected
    <2>9. CASE Reboot
      BY <2>9 DEF Reboot, ResetVM, Injected
    <2> QED
      BY <2>1, <2>2, <2>3, <2>4, <2>5, <2>6, <2>7, <2>8, <2>9, <2>10,
         <2>11, <2>12, <2>13, <2>14
      DEF Edge
  <1>4. TypeOK'
    BY <1>1, <1>2, <1>3
    DEF TypeOK, EdgeOnly, secretVars, trustVars, caVars, jobVars
  <1>5. Grows /\ Newest' = Newest
    BY <1>1, <1>2, SameGrows DEF EdgeOnly, secretVars, trustVars, Newest
  <1>6. ReleaseInv'
    BY <1>1, <1>5, ReleasesStay DEF CertificateInv
  <1> QED
    BY <1>2, <1>4, <1>5, <1>6
    DEF Kept, CertificateInv, EdgeOnly, trustVars

\* Certificates age, the profile changes and cutovers are approved; no
\* execution is touched.
LEMMA ClockKeeps ==
  ASSUME CertificateInv,
         \/ \E m \in Materials : Age(m)
         \/ \E p \in Profiles : ChangeProfile(p) \/ Approve(p)
  PROVE  Kept /\ UNCHANGED <<secretVars, jobVars>>
  <1>1. TypeOK
    BY DEF CertificateInv
  <1>2. UNCHANGED <<secretVars, jobVars>>
    BY DEF Age, ChangeProfile, Approve, secretVars
  <1>3. TypeOK' /\ approved \subseteq approved'
        /\ readiness' \in approved' \cup {None}
    <2> USE <1>1, BoundsAssumption
        DEF TypeOK, CertificateInv, secretVars, trustVars, caVars, jobVars,
            EdgeVars, diskVars, vmVars
    <2>1. ASSUME NEW m \in Materials, Age(m)
          PROVE  TypeOK' /\ approved \subseteq approved'
                 /\ readiness' \in approved' \cup {None}
      BY <2>1 DEF Age
    <2>2. ASSUME NEW p \in Profiles, ChangeProfile(p)
          PROVE  TypeOK' /\ approved \subseteq approved'
                 /\ readiness' \in approved' \cup {None}
      BY <2>2 DEF ChangeProfile
    <2>3. ASSUME NEW p \in Profiles, Approve(p)
          PROVE  TypeOK' /\ approved \subseteq approved'
                 /\ readiness' \in approved' \cup {None}
      BY <2>3 DEF Approve
    <2> QED
      BY <2>1, <2>2, <2>3
  <1>4. Grows /\ Newest' = Newest
    BY <1>1, <1>2, <1>3, SameGrows DEF secretVars, Newest
  <1> QED
    BY <1>1, <1>2, <1>3, <1>4, ReleasesStay DEF Kept, CertificateInv
(***************************************************************************)
(* The steps of an execution.                                              *)
(***************************************************************************)

\* A step of execution j keeps the invariant for j and leaves the others alone.
Keeps(j) == Kept /\ Others(j) /\ JobInv(j)'

\* The types of what an execution keeps in memory.
JobTypes ==
    /\ step' \in [Jobs -> Steps]
    /\ active' \in [Jobs -> Nat]
    /\ trust' \in [Jobs -> Profiles \cup {None}]
    /\ material' \in [Jobs -> MaybeMaterial]
    /\ version' \in [Jobs -> [Pruned -> Nat]]

\* A step that only reads the secrets and the approvals.
LEMMA QuietKeeps ==
  ASSUME CertificateInv, UNCHANGED <<secretVars, trustVars, verified>>,
         issued' \in SUBSET Materials, due' \in SUBSET issued',
         UNCHANGED EdgeVars, failures' \in 0..MaxFailures, JobTypes
  PROVE  Kept
  <1>1. TypeOK
    BY DEF CertificateInv
  <1>2. TypeOK'
    BY <1>1 DEF TypeOK, JobTypes, secretVars, trustVars, EdgeVars, diskVars,
       vmVars
  <1>3. Grows /\ Newest' = Newest
    BY <1>1, SameGrows DEF secretVars, trustVars, Newest
  <1> QED
    BY <1>1, <1>2, <1>3, ReleasesStay DEF Kept, CertificateInv, trustVars

\* What a release retains has the types of version numbers.
LEMMA RetainedTypes ==
  ASSUME TypeOK, NEW r \in 1..Newest
  PROVE  /\ Retained(r) \in [Pruned -> Nat]
         /\ Retained(r)["cert"] = releases[r].cert
         /\ Retained(r)["key"] = releases[r].key
         /\ Retained(r)["state"] = releases[r].state
         /\ Retained(r)["release"] = r
  <1>1. /\ releases[r].cert \in Nat /\ releases[r].key \in Nat
        /\ releases[r].state \in Nat /\ r \in Nat
    BY Counts
  <1> QED
    BY <1>1 DEF Retained, Pruned, Secrets

\* Reading the newest manifest and the trust profile.
LEMMA ReadKeeps ==
  ASSUME CertificateInv, NEW j \in Jobs, ReadActive(j) \/ ReadTrust(j)
  PROVE  Keeps(j)
  <1>1. TypeOK /\ JobInv(j) /\ Newest \in Nat
    BY Counts DEF CertificateInv
  <1>2. NoVersions \in [Pruned -> Nat]
    BY DEF NoVersions
  <1>3. JobTypes /\ Others(j)
    <2>1. CASE ReadActive(j)
      BY <1>1, <1>2, <2>1 DEF ReadActive, Goto, JobTypes, Others, TypeOK,
         Steps, MaybeMaterial
    <2>2. CASE ReadTrust(j)
      BY <1>1, <2>2 DEF ReadTrust, Goto, JobTypes, Others, TypeOK, Steps
    <2> QED
      BY <2>1, <2>2
  <1>4. JobInv(j)'
    <2>1. CASE ReadActive(j)
      BY <1>1, <2>1 DEF ReadActive, Goto, JobInv, TypeOK, Adding, secretVars,
         Newest
    <2>2. CASE ReadTrust(j)
      BY <1>1, <2>2 DEF ReadTrust, Goto, JobInv, TypeOK, Adding, secretVars,
         Newest
    <2> QED
      BY <2>1, <2>2
  <1>5. Kept
    BY <1>1, <1>3, QuietKeeps DEF ReadActive, ReadTrust, caVars, TypeOK
  <1> QED
    BY <1>3, <1>4, <1>5 DEF Keeps

\* Ending an execution.
LEMMA ExitKeeps ==
  ASSUME CertificateInv, NEW j \in Jobs, Exit(j), UNCHANGED <<active, trust>>
  PROVE  JobTypes /\ Others(j) /\ (Newest' = Newest => JobInv(j)')
  BY DEF CertificateInv, Exit, Goto, JobTypes, Others, TypeOK, Steps, JobInv,
         Adding

\* Deciding on the active certificate and on the ACME state's.
LEMMA CheckKeeps ==
  ASSUME CertificateInv, NEW j \in Jobs, CheckActive(j) \/ ReadState(j)
  PROVE  Keeps(j)
  <1>1. TypeOK /\ JobInv(j) /\ Newest \in Nat
    BY Counts DEF CertificateInv
  <1>2. /\ UNCHANGED <<secretVars, trustVars, caVars, active, trust, verified,
                       EdgeVars, failures>>
        /\ Newest' = Newest
    BY DEF CheckActive, ReadState, secretVars, Newest
  <1>3. JobTypes /\ Others(j) /\ JobInv(j)'
    <2>1. CASE Exit(j)
      BY <1>2, <2>1, ExitKeeps
    <2>2. CASE /\ \/ step[j] = "check" /\ step' = [step EXCEPT ![j] = "state"]
                  \/ step[j] = "state" /\ step' = [step EXCEPT ![j] = "certbot"]
               /\ UNCHANGED <<material, version>>
      BY <1>1, <1>2, <2>2 DEF JobTypes, Others, JobInv, TypeOK, Steps, Adding
    <2>3. CASE /\ CheckActive(j)
               /\ Readable("cert", releases[active[j]].cert)
               /\ payload["cert"][releases[active[j]].cert]
                    = releases[active[j]].leaf
               /\ material' = [material EXCEPT
                                ![j] = releases[active[j]].leaf]
               /\ version' = [version EXCEPT ![j] = Retained(active[j])]
               /\ step' = [step EXCEPT ![j] = "deploy"]
      <3>1. step[j] = "check" /\ active[j] \in 1..Newest
        BY <1>1, <2>3 DEF CheckActive, JobInv, TypeOK
      <3>2. /\ Retained(active[j]) \in [Pruned -> Nat]
            /\ releases[active[j]].leaf \in MaybeMaterial
        BY <1>1, <3>1, Counts, RetainedTypes DEF MaybeMaterial
      <3> QED
        BY <1>1, <1>2, <2>3, <3>1, <3>2
        DEF JobTypes, Others, JobInv, TypeOK, Steps, Adding
    <2>4. CASE /\ ReadState(j)
               /\ Latest("state") # 0
               /\ material' = [material EXCEPT
                                ![j] = payload["state"][Latest("state")]]
               /\ step' = [step EXCEPT ![j] = "candidate"]
               /\ UNCHANGED version
      <3>1. payload["state"][Latest("state")] \in Materials
        BY <1>1, <2>4, Counts DEF Secrets
      <3>2. step[j] = "state"
        BY <2>4 DEF ReadState
      <3> QED
        BY <1>1, <1>2, <2>4, <3>1, <3>2
        DEF JobTypes, Others, JobInv, TypeOK, Steps, Adding, MaybeMaterial
    <2>5. CASE CheckActive(j)
      BY <2>1, <2>2, <2>3, <2>5 DEF CheckActive, Goto
    <2>6. CASE ReadState(j)
      BY <2>1, <2>2, <2>4, <2>6 DEF ReadState, Goto
    <2> QED
      BY <2>5, <2>6
  <1>4. Kept
    BY <1>1, <1>2, <1>3, QuietKeeps DEF caVars, TypeOK
  <1> QED
    BY <1>3, <1>4 DEF Keeps
\* Asking the CA for a certificate, and accepting the candidate.
LEMMA CandidateKeeps ==
  ASSUME CertificateInv, NEW j \in Jobs,
         Certbot(j) \/ CertbotRefused(j) \/ Candidate(j)
  PROVE  Keeps(j)
  <1> USE NoneAssumption, BoundsAssumption
  <1>1. TypeOK /\ ReleaseInv /\ JobInv(j) /\ Newest \in Nat
    BY Counts DEF CertificateInv
  <1>2. /\ UNCHANGED <<secretVars, trustVars, active, trust, verified,
                       EdgeVars>>
        /\ Newest' = Newest
    BY DEF Certbot, CertbotRefused, Candidate, secretVars, Newest
  <1>3. CASE Certbot(j)
    <2>1. /\ issued' \in SUBSET Materials /\ due' \in SUBSET issued'
          /\ failures' \in 0..MaxFailures /\ step[j] = "certbot"
      BY <1>1, <1>3 DEF Certbot, Injected, TypeOK
    <2>2. JobTypes /\ Others(j) /\ JobInv(j)'
      <3>1. CASE Exit(j)
        BY <1>2, <3>1, ExitKeeps
      <3>2. CASE \E m \in Materials :
                   /\ material' = [material EXCEPT ![j] = m]
                   /\ step' = [step EXCEPT ![j] = "candidate"]
                   /\ UNCHANGED version
        BY <1>1, <1>2, <2>1, <3>2
        DEF JobTypes, Others, JobInv, TypeOK, Steps, Adding, MaybeMaterial
      <3> QED
        BY <1>3, <3>1, <3>2 DEF Certbot, Goto
    <2> QED
      BY <1>2, <2>1, <2>2, QuietKeeps DEF Keeps
  <1>4. CASE CertbotRefused(j)
    <2>1. JobTypes /\ Others(j) /\ JobInv(j)'
      BY <1>2, <1>4, ExitKeeps DEF CertbotRefused
    <2> QED
      BY <1>1, <1>2, <1>4, <2>1, QuietKeeps
      DEF CertbotRefused, Keeps, caVars, TypeOK
  <1>5. CASE Candidate(j)
    <2>1. step[j] = "candidate" /\ UNCHANGED <<caVars, failures>>
      BY <1>5 DEF Candidate
    <2>2. JobTypes /\ Others(j) /\ JobInv(j)'
      <3>1. CASE Exit(j)
        BY <1>2, <3>1, ExitKeeps
      <3>2. CASE /\ ~TrustChanged(j)
                 /\ version' = [version EXCEPT ![j] = Retained(active[j])]
                 /\ step' = [step EXCEPT ![j] = "deploy"]
                 /\ UNCHANGED material
        <4>1. active[j] \in 1..Newest
          BY <1>1, <3>2 DEF TrustChanged, JobInv, TypeOK
        <4>2. Retained(active[j]) \in [Pruned -> Nat]
          BY <1>1, <4>1, RetainedTypes
        <4> QED
          BY <1>1, <1>2, <2>1, <3>2, <4>2
          DEF JobTypes, Others, JobInv, TypeOK, Steps, Adding
      <3>3. CASE /\ ~(TrustChanged(j) /\ ~CutoverReady(j))
                 /\ step' = [step EXCEPT ![j] = "add_cert"]
                 /\ UNCHANGED <<material, version>>
        <4>1. trust[j] \in Profiles /\ material[j] \in Materials
          BY <1>1, <2>1 DEF JobInv
        <4>2. trust[j] \in approved
          <5>1. CASE CutoverReady(j)
            BY <4>1, <5>1 DEF CutoverReady, CertificateInv
          <5>2. CASE ~TrustChanged(j)
            <6>1. active[j] \in 1..Newest
              BY <1>1, <5>2 DEF TrustChanged, JobInv, TypeOK
            <6> QED
              BY <1>1, <5>2, <6>1 DEF TrustChanged, ReleaseInv
          <5> QED
            BY <3>3, <5>1, <5>2
        <4> QED
          BY <1>1, <1>2, <2>1, <3>3, <4>1, <4>2
          DEF JobTypes, Others, JobInv, TypeOK, Steps, Adding, trustVars
      <3> QED
        BY <1>5, <3>1, <3>2, <3>3 DEF Candidate, Goto
    <2> QED
      BY <1>1, <1>2, <2>1, <2>2, QuietKeeps DEF Keeps, caVars, TypeOK
  <1> QED
    BY <1>3, <1>4, <1>5

\* Ending, failing and being killed.
LEMMA StopKeeps ==
  ASSUME CertificateInv, NEW j \in Jobs, DeployTimeout(j) \/ Fail(j)
  PROVE  Keeps(j)
  <1>1. /\ UNCHANGED <<secretVars, trustVars, caVars, active, trust, verified,
                       EdgeVars>>
        /\ Newest' = Newest /\ Exit(j)
    BY DEF DeployTimeout, Fail, secretVars, Newest
  <1>2. failures' \in 0..MaxFailures /\ TypeOK
    BY BoundsAssumption
    DEF DeployTimeout, TooLate, Fail, Injected, CertificateInv, TypeOK
  <1>3. JobTypes /\ Others(j) /\ JobInv(j)'
    BY <1>1, ExitKeeps
  <1> QED
    BY <1>1, <1>2, <1>3, QuietKeeps DEF Keeps, caVars, TypeOK
\* Adding a version: the new one is the latest, those before it stay.
LEMMA AddedVersion ==
  ASSUME CertificateInv, NEW j \in Jobs, NEW s \in Secrets, NEW from, NEW to,
         AddVersion(j, s, from, to), material[j] \in Materials
  PROVE  /\ payload' \in [Secrets -> Seq(Materials)]
         /\ Grows /\ Newest' = Newest
         /\ version' = [version EXCEPT
                        ![j] = [version[j] EXCEPT ![s] = Latest(s) + 1]]
         /\ Holds(s, version[j][s], material[j])'
         /\ Latest(s) + 1 \in Nat
  <1>1. TypeOK /\ Latest(s) \in Nat /\ payload \in [Secrets -> Seq(Materials)]
    BY Counts DEF CertificateInv, TypeOK
  <1>2. payload[s] \in Seq(Materials)
    BY <1>1
  <1>3. payload' = [payload EXCEPT ![s] = Append(payload[s], material[j])]
    BY DEF AddVersion
  <1>4. /\ Append(payload[s], material[j]) \in Seq(Materials)
        /\ Len(Append(payload[s], material[j])) = Len(payload[s]) + 1
        /\ \A v \in 1..Len(payload[s]) :
             Append(payload[s], material[j])[v] = payload[s][v]
        /\ Append(payload[s], material[j])[Len(payload[s]) + 1] = material[j]
    BY <1>2
  <1>5. payload' \in [Secrets -> Seq(Materials)]
    BY <1>1, <1>3, <1>4
  <1>6. Newest' = Newest /\ UNCHANGED <<releases, approved, material>>
    BY DEF AddVersion, Newest, trustVars
  <1>7. /\ Latest(s)' = Latest(s) + 1
        /\ payload'[s][Latest(s) + 1] = material[j]
        /\ \A v \in 1..Latest(s) : payload'[s][v] = payload[s][v]
    BY <1>1, <1>3, <1>4 DEF Latest
  <1>8. \A t \in Secrets \ {s} :
          Latest(t)' = Latest(t) /\ payload'[t] = payload[t]
    BY <1>1, <1>3 DEF Latest
  <1>9. Grows
    BY <1>1, <1>6, <1>7, <1>8, Counts DEF Grows
  <1>10. version' = [version EXCEPT
                     ![j] = [version[j] EXCEPT ![s] = Latest(s) + 1]]
    BY DEF AddVersion
  <1>11. version'[j][s] = Latest(s) + 1
    BY <1>1, <1>10 DEF TypeOK, Pruned
  <1>12. Holds(s, version[j][s], material[j])'
    BY <1>1, <1>6, <1>7, <1>11 DEF Holds
  <1> QED
    BY <1>1, <1>5, <1>6, <1>9, <1>10, <1>12

\* The certificate, its key and the ACME state, in that order.
LEMMA AddKeeps ==
  ASSUME CertificateInv, NEW j \in Jobs,
         AddCert(j) \/ AddKey(j) \/ AddState(j)
  PROVE  Keeps(j)
  <1>1. PICK s \in Secrets, from \in Steps, to \in Steps :
          /\ AddVersion(j, s, from, to)
          /\ \/ s = "cert" /\ from = "add_cert" /\ to = "add_key"
             \/ s = "key" /\ from = "add_key" /\ to = "add_state"
             \/ s = "state" /\ from = "add_state" /\ to = "add_release"
    BY DEF AddCert, AddKey, AddState, Secrets, Steps
  <1>2. /\ TypeOK /\ JobInv(j) /\ ReleaseInv
        /\ readiness \in approved \cup {None}
    BY DEF CertificateInv
  <1>3. /\ step[j] = from /\ step' = [step EXCEPT ![j] = to]
        /\ UNCHANGED <<gone, releases, trustVars, caVars, active, trust,
                       material, verified, EdgeVars, failures>>
    BY <1>1 DEF AddVersion, Goto
  <1>4. material[j] \in Materials /\ trust[j] \in Profiles
    BY <1>1, <1>2, <1>3 DEF JobInv, Adding
  <1>5. /\ payload' \in [Secrets -> Seq(Materials)]
        /\ Grows /\ Newest' = Newest
        /\ version' = [version EXCEPT
                       ![j] = [version[j] EXCEPT ![s] = Latest(s) + 1]]
        /\ Holds(s, version[j][s], material[j])'
        /\ Latest(s) + 1 \in Nat
    BY <1>1, <1>4, AddedVersion
  <1>6. JobTypes /\ Others(j)
    <2>1. [version[j] EXCEPT ![s] = Latest(s) + 1] \in [Pruned -> Nat]
      BY <1>2, <1>5 DEF TypeOK
    <2> QED
      BY <1>2, <1>3, <1>5, <2>1 DEF JobTypes, Others, TypeOK
  <1>7. TypeOK'
    BY <1>2, <1>3, <1>5, <1>6
    DEF TypeOK, JobTypes, trustVars, caVars, EdgeVars, diskVars, vmVars
  <1>8. ReleaseInv'
    BY <1>2, <1>5, ReleasesStay
  <1>9. \A t \in Secrets \ {s} : version'[j][t] = version[j][t]
    BY <1>2, <1>5 DEF TypeOK
  <1>10. ASSUME NEW t \in Secrets \ {s}, Holds(t, version[j][t], material[j])
         PROVE  Holds(t, version[j][t], material[j])'
    BY <1>2, <1>3, <1>5, <1>9, <1>10, Counts DEF Holds, Grows
  <1>11. /\ step'[j] = to /\ active'[j] = active[j] /\ trust'[j] = trust[j]
         /\ material'[j] = material[j] /\ approved' = approved
    BY <1>2, <1>3 DEF TypeOK, trustVars
  <1>12. JobInv(j)'
    <2>1. CASE s = "cert"
      BY <1>1, <1>2, <1>3, <1>4, <1>5, <1>11, <2>1 DEF JobInv, Adding
    <2>2. CASE s = "key"
      <3>1. Holds("cert", version[j]["cert"], material[j])'
        BY <1>1, <1>2, <1>3, <1>10, <2>2 DEF JobInv, Adding, Secrets
      <3> QED
        BY <1>1, <1>2, <1>3, <1>4, <1>5, <1>11, <2>2, <3>1 DEF JobInv, Adding
    <2>3. CASE s = "state"
      <3>1. /\ Holds("cert", version[j]["cert"], material[j])'
            /\ Holds("key", version[j]["key"], material[j])'
        BY <1>1, <1>2, <1>3, <1>10, <2>3 DEF JobInv, Adding, Secrets
      <3> QED
        BY <1>1, <1>2, <1>3, <1>4, <1>5, <1>11, <2>3, <3>1 DEF JobInv, Adding
    <2> QED
      BY <1>1, <2>1, <2>2, <2>3
  <1> QED
    BY <1>2, <1>3, <1>5, <1>6, <1>7, <1>8, <1>12 DEF Keeps, Kept, trustVars

\* The manifest names what was added, and is the newest from then on.
LEMMA ReleaseKeeps ==
  ASSUME CertificateInv, NEW j \in Jobs, AddRelease(j)
  PROVE  /\ Keeps(j)
         /\ Newest' = Newest + 1
         /\ releases'[Newest + 1] = ReleaseDocument(j)
  <1>1. /\ TypeOK /\ JobInv(j) /\ ReleaseInv /\ Newest \in Nat
        /\ readiness \in approved \cup {None}
    BY Counts DEF CertificateInv
  <1>2. /\ step[j] = "add_release"
        /\ releases' = Append(releases, ReleaseDocument(j))
        /\ version' = [version EXCEPT
                       ![j] = [version[j] EXCEPT !["release"] = Newest + 1]]
        /\ step' = [step EXCEPT ![j] = "deploy"]
        /\ UNCHANGED <<payload, gone, trustVars, caVars, active, trust,
                       material, verified, EdgeVars, failures>>
    BY DEF AddRelease, Goto
  <1>3. /\ material[j] \in Materials /\ trust[j] \in Profiles
        /\ trust[j] \in approved
        /\ Holds("cert", version[j]["cert"], material[j])
        /\ Holds("key", version[j]["key"], material[j])
        /\ Holds("state", version[j]["state"], material[j])
    BY <1>1, <1>2 DEF JobInv, Adding
  <1> DEFINE Manifests == [cert : Nat, key : Nat, state : Nat,
                           leaf : Materials, trust : Profiles]
  <1>4. ReleaseDocument(j) \in Manifests
    BY <1>1, <1>3 DEF ReleaseDocument, TypeOK, Pruned, Secrets
  <1>5. releases \in Seq(Manifests)
    BY <1>1 DEF TypeOK
  <1>6. /\ releases' \in Seq(Manifests)
        /\ Newest' = Newest + 1
        /\ releases'[Newest + 1] = ReleaseDocument(j)
        /\ \A i \in 1..Newest : releases'[i] = releases[i]
    <2> HIDE DEF Manifests
    <2> QED
      BY <1>2, <1>4, <1>5 DEF Newest
  <1>7. JobTypes /\ Others(j)
    <2>1. version[j] \in [Pruned -> Nat] /\ Newest + 1 \in Nat
      BY <1>1 DEF TypeOK
    <2>2. [version[j] EXCEPT !["release"] = Newest + 1] \in [Pruned -> Nat]
      BY <2>1
    <2> QED
      BY <1>1, <1>2, <2>2 DEF JobTypes, Others, TypeOK, Steps
  <1>8. TypeOK'
    BY <1>1, <1>2, <1>6, <1>7
    DEF TypeOK, JobTypes, trustVars, caVars, EdgeVars, diskVars, vmVars
  <1>9. Grows
    <2>1. \A s \in Secrets : Latest(s)' = Latest(s)
      BY <1>2 DEF Latest
    <2>2. approved' = approved /\ payload' = payload
      BY <1>2 DEF trustVars
    <2> QED
      BY <1>1, <1>6, <2>1, <2>2, Counts DEF Grows
  <1>10. ReleaseInv'
    <2> SUFFICES ASSUME NEW i \in 1..Newest'
                 PROVE  /\ Holds("cert", releases[i].cert, releases[i].leaf)'
                        /\ Holds("key", releases[i].key, releases[i].leaf)'
                        /\ Holds("state", releases[i].state, releases[i].leaf)'
                        /\ releases'[i].trust \in approved'
      BY DEF ReleaseInv
    <2>1. CASE i \in 1..Newest
      <3>1. releases'[i] = releases[i]
        BY <1>6, <2>1
      <3>2. /\ Holds("cert", releases[i].cert, releases[i].leaf)
            /\ Holds("key", releases[i].key, releases[i].leaf)
            /\ Holds("state", releases[i].state, releases[i].leaf)
            /\ releases[i].trust \in approved
        BY <1>1, <2>1 DEF ReleaseInv
      <3> QED
        BY <1>2, <3>1, <3>2 DEF Holds, Latest, trustVars
    <2>2. CASE i = Newest + 1
      <3>1. releases'[i] = ReleaseDocument(j)
        BY <1>6, <2>2
      <3>2. /\ releases'[i].cert = version[j]["cert"]
            /\ releases'[i].key = version[j]["key"]
            /\ releases'[i].state = version[j]["state"]
            /\ releases'[i].leaf = material[j]
            /\ releases'[i].trust = trust[j]
        BY <3>1 DEF ReleaseDocument
      <3> QED
        BY <1>2, <1>3, <3>2 DEF Holds, Latest, trustVars
    <2> QED
      BY <1>1, <1>6, <2>1, <2>2
  <1>11. JobInv(j)'
    BY <1>1, <1>2, <1>3, <1>6 DEF JobInv, Adding, TypeOK
  <1> QED
    BY <1>1, <1>2, <1>6, <1>7, <1>8, <1>9, <1>10, <1>11
    DEF Keeps, Kept, trustVars

DeployStep(j) == Deploy(j) \/ Compare(j) \/ Verify(j) \/ Probe(j)
Deploying     == {"deploy", "compare", "wait", "probe"}

\* Deploying a release: it is accepted, the VM is reset, or the job looks on.
LEMMA DeployMoves ==
  ASSUME NEW j \in Jobs, DeployStep(j)
  PROVE  /\ JobOnly
         /\ step[j] \in Deploying
         /\ \/ Accept(j)
            \/ Reset(j)
            \/ \E s \in Deploying : Wait(j, s)
  BY DEF DeployStep, Deploy, Compare, Verify, Probe, Deploying

\* None of them touches a secret.
LEMMA DeployKeeps ==
  ASSUME CertificateInv, NEW j \in Jobs, DeployStep(j)
  PROVE  Keeps(j)
  <1>1. TypeOK /\ JobInv(j) /\ Newest \in Nat
    BY Counts DEF CertificateInv
  <1>2. /\ UNCHANGED <<secretVars, trustVars, caVars, active, trust, material,
                       version, failures>>
        /\ step[j] \in Deploying
        /\ \/ Accept(j)
           \/ ResetVM /\ UNCHANGED verified
           \/ UNCHANGED <<verified, EdgeVars>>
    BY DeployMoves DEF JobOnly, Reset, Wait
  <1>3. \E t \in Deploying \cup {"prune_cert"} :
           step' = [step EXCEPT ![j] = t]
    BY DeployMoves DEF Accept, Reset, Wait, Goto, Deploying
  <1>4. JobTypes /\ Others(j)
    BY <1>1, <1>2, <1>3 DEF JobTypes, Others, TypeOK, Steps, Deploying
  <1>5. TypeOK'
    <2>1. CASE Accept(j)
      <3>1. verified' \in Nat
        <4>1. version[j]["release"] \in Nat /\ verified \in Nat
          BY <1>1 DEF TypeOK, Pruned
        <4> QED
          BY <2>1, <4>1 DEF Accept
      <3>2. UNCHANGED EdgeVars
        BY <2>1 DEF Accept
      <3> QED
        BY <1>1, <1>2, <1>4, <3>1, <3>2
        DEF TypeOK, JobTypes, secretVars, trustVars, caVars, EdgeVars,
            diskVars, vmVars
    <2>2. CASE ResetVM /\ UNCHANGED verified
      <3>1. /\ vm' = "fetch" /\ booting' = 0 /\ staged' = None
            /\ serving' \in {tls, None}
            /\ UNCHANGED <<tls, previous, deployed, container, status,
                           lastHealthy>>
        BY <2>2 DEF ResetVM, diskVars
      <3> QED
        BY <1>1, <1>2, <1>4, <2>2, <3>1
        DEF TypeOK, JobTypes, secretVars, trustVars, caVars, MaybeMaterial,
            BootSteps
    <2>3. CASE UNCHANGED <<verified, EdgeVars>>
      BY <1>1, <1>2, <1>4, <2>3
      DEF TypeOK, JobTypes, secretVars, trustVars, caVars, EdgeVars,
          diskVars, vmVars
    <2> QED
      BY <1>2, <2>1, <2>2, <2>3
  <1>6. Grows /\ Newest' = Newest
    BY <1>1, <1>2, SameGrows DEF secretVars, trustVars, Newest
  <1>7. JobInv(j)'
    BY <1>1, <1>2, <1>3, <1>6 DEF JobInv, Adding, TypeOK, Deploying
  <1> QED
    BY <1>1, <1>2, <1>4, <1>5, <1>6, <1>7, ReleasesStay
    DEF Keeps, Kept, CertificateInv, trustVars

PruneStep(j) == PruneCert(j) \/ PruneKey(j) \/ PruneState(j) \/ PruneRelease(j)

\* Pruning destroys versions, which changes no payload.
LEMMA PruneKeeps ==
  ASSUME CertificateInv, NEW j \in Jobs, PruneStep(j)
  PROVE  Keeps(j)
  <1>1. TypeOK /\ JobInv(j) /\ Newest \in Nat
    BY Counts DEF CertificateInv
  <1>2. PICK s \in Pruned, from \in Steps, to \in Steps :
          /\ Prune(j, s, from, to)
          /\ from \in {"prune_cert", "prune_key", "prune_state",
                       "prune_release"}
          /\ to \in {"prune_key", "prune_state", "prune_release", "idle"}
    BY DEF PruneStep, PruneCert, PruneKey, PruneState, PruneRelease, Pruned,
       Secrets, Steps
  <1>3. /\ UNCHANGED <<payload, releases, trustVars, caVars, active, trust,
                       material, version, verified, EdgeVars, failures>>
        /\ step[j] = from
        /\ step' = step \/ step' = [step EXCEPT ![j] = to]
        /\ \/ UNCHANGED gone
           \/ \E v \in Prunable(j, s) : gone' = [gone EXCEPT ![s] = @ \cup {v}]
    BY <1>2 DEF Prune, Goto
  <1>4. JobTypes /\ Others(j)
    BY <1>1, <1>2, <1>3 DEF JobTypes, Others, TypeOK
  <1>5. Prunable(j, s) \subseteq Nat \ {0}
    BY <1>1, Counts DEF Prunable, Versions, Pruned
  <1>6. gone' \in [Pruned -> SUBSET (Nat \ {0})]
    <2>1. gone \in [Pruned -> SUBSET (Nat \ {0})]
      BY <1>1 DEF TypeOK
    <2> QED
      BY <1>3, <1>5, <2>1
  <1>7. TypeOK'
    BY <1>1, <1>3, <1>4, <1>6
    DEF TypeOK, JobTypes, trustVars, caVars, EdgeVars, diskVars, vmVars
  <1>8. Grows /\ Newest' = Newest
    BY <1>1, <1>3, SameGrows DEF trustVars, Newest
  <1>9. JobInv(j)'
    BY <1>1, <1>2, <1>3, <1>8 DEF JobInv, Adding, TypeOK
  <1> QED
    BY <1>1, <1>3, <1>4, <1>7, <1>8, <1>9, ReleasesStay
    DEF Keeps, Kept, CertificateInv, trustVars

\* Every step of an execution, or its death, keeps what is known of all.
LEMMA JobKeeps ==
  ASSUME CertificateInv, NEW j \in Jobs, JobStep(j) \/ Fail(j)
  PROVE  Keeps(j)
  BY ReadKeeps, CheckKeeps, CandidateKeeps, AddKeeps, ReleaseKeeps,
     DeployKeeps, PruneKeeps, StopKeeps DEF JobStep, PruneStep, DeployStep

(***************************************************************************)
(* The invariant that holds however executions overlap.                    *)
(***************************************************************************)

\* The initial secrets and executions satisfy the invariant.
LEMMA InitCertificate == Init => CertificateInv
  <1> SUFFICES ASSUME Init PROVE CertificateInv
    OBVIOUS
  <1> USE DEF Init
  <1>1. payload \in [Secrets -> Seq(Materials)] /\ Newest = 0
    <2>1. <<>> \in Seq(Materials)
      OBVIOUS
    <2> QED
      BY <2>1 DEF Newest
  <1>2. releases \in Seq([cert : Nat, key : Nat, state : Nat,
                         leaf : Materials, trust : Profiles])
    <2> DEFINE Manifests == [cert : Nat, key : Nat, state : Nat,
                             leaf : Materials, trust : Profiles]
    <2> HIDE DEF Manifests
    <2>1. <<>> \in Seq(Manifests)
      OBVIOUS
    <2> QED
      BY <2>1 DEF Manifests
  <1>3. NoVersions \in [Pruned -> Nat]
    BY DEF NoVersions
  <1>4. TypeOK
    <2>1. /\ step \in [Jobs -> Steps] /\ active \in [Jobs -> Nat]
          /\ trust \in [Jobs -> Profiles \cup {None}]
          /\ material \in [Jobs -> MaybeMaterial]
          /\ version \in [Jobs -> [Pruned -> Nat]]
      BY <1>3 DEF Steps, MaybeMaterial
    <2>2. gone \in [Pruned -> SUBSET (Nat \ {0})]
      OBVIOUS
    <2>3. /\ {status, verified} \subseteq Nat
          /\ {staged, tls, previous, serving, lastHealthy}
               \subseteq MaybeMaterial
      BY DEF MaybeMaterial
    <2>4. failures \in 0..MaxFailures /\ cutovers \in 0..MaxCutovers
      BY BoundsAssumption
    <2>5. /\ readiness \in Profiles \cup {None} /\ approved \in SUBSET Profiles
          /\ profile \in Profiles
          /\ issued \in SUBSET Materials /\ due \in SUBSET issued
          /\ vm = "done" /\ booting \in Nat /\ deployed \in Nat
          /\ container \in BOOLEAN
      OBVIOUS
    <2> QED
      BY <1>1, <1>2, <2>1, <2>2, <2>3, <2>4, <2>5 DEF TypeOK, BootSteps
  <1>5. ASSUME NEW j \in Jobs PROVE JobInv(j)
    <2>1. step[j] = "idle" /\ active[j] = 0 /\ Newest = 0
      BY <1>1
    <2> QED
      BY <2>1 DEF JobInv, Adding
  <1> QED
    BY <1>1, <1>4, <1>5 DEF CertificateInv, ReleaseInv

\* Every step preserves the invariant, however executions overlap.
LEMMA StepCertificate == CertificateInv /\ [Next]_vars => CertificateInv'
  <1> SUFFICES ASSUME CertificateInv, [Next]_vars PROVE CertificateInv'
    OBVIOUS
  <1>1. TypeOK /\ \A i \in Jobs : JobInv(i)
    BY DEF CertificateInv
  <1>2. ASSUME Kept, UNCHANGED jobVars PROVE CertificateInv'
    BY <1>1, <1>2, JobStays DEF Kept, CertificateInv, jobVars
  <1>3. CASE \E j \in Jobs : JobStep(j) \/ Fail(j)
    <2>1. PICK j \in Jobs : JobStep(j) \/ Fail(j)
      BY <1>3
    <2>2. Keeps(j)
      BY <2>1, JobKeeps
    <2>3. \A i \in Jobs : JobInv(i)'
      BY <1>1, <2>2, JobStays DEF Keeps, Kept, Others
    <2> QED
      BY <2>2, <2>3 DEF Keeps, Kept, CertificateInv
  <1>4. CASE Edge \/ Reboot
    BY <1>2, <1>4, EdgeKeeps DEF EdgeOnly
  <1>5. CASE \/ \E m \in Materials : Age(m)
             \/ \E p \in Profiles : ChangeProfile(p) \/ Approve(p)
    BY <1>2, <1>5, ClockKeeps
  <1>6. CASE UNCHANGED vars
    <2>1. JobTypes /\ UNCHANGED <<secretVars, trustVars, caVars, jobVars,
                                  EdgeVars, failures>>
      BY <1>1, <1>6 DEF vars, JobTypes, jobVars, TypeOK, EdgeVars
    <2>2. Kept
      BY <1>1, <2>1, QuietKeeps DEF jobVars, caVars, TypeOK
    <2> QED
      BY <1>2, <2>1, <2>2
  <1> QED
    BY <1>3, <1>4, <1>5, <1>6 DEF Next

\* Whatever executions, boots, renewals and cutovers interleave: the types, the
\* manifests and what every execution has added are as CertificateInv says.
THEOREM RenewalCorrect == Spec => []CertificateInv
  BY InitCertificate, StepCertificate, PTL DEF Spec

\* AddRelease writes the manifest last, so a manifest never mixes the versions
\* of two executions, nor names one that does not exist.
THEOREM ActivationAtomic == Spec => []ActivationConsistent
  <1>1. CertificateInv => ActivationConsistent
    BY DEF CertificateInv, ReleaseInv, ActivationConsistent, Holds
  <1> QED
    BY <1>1, RenewalCorrect, PTL

\* Candidate demands the approval before anything is added for a profile that
\* the active release does not have already.
THEOREM CutoversNeedApproval == Spec => []CutoversApproved
  <1>1. CertificateInv => CutoversApproved
    BY DEF CertificateInv, ReleaseInv, CutoversApproved
  <1> QED
    BY <1>1, RenewalCorrect, PTL
(***************************************************************************)
(* The invariant that holds while executions do not overlap.               *)
(***************************************************************************)

\* A manifest names later versions than those before it.
Ascending ==
    \A i \in 1..Newest : \A s \in Pruned :
        Retained(i)[s] <= Retained(Newest)[s]

\* What is destroyed is older than what the last verified manifest names.
OldDestroyed ==
    \A s \in Pruned : \A v \in gone[s] :
        verified > 0 /\ v < Retained(verified)[s]

Choosing == {"trust", "check", "state", "certbot", "candidate"}
Settling == Deploying \cup {"prune_cert", "prune_key", "prune_state",
                           "prune_release"}

\* The execution that runs works on the newest release: it read it, names only
\* versions added since, deploys it, and prunes once it is the verified one.
LoneJobInv(j) ==
    /\ step[j] \in Choosing \cup Adding => active[j] = Newest
    /\ \A i \in 1..Newest :
         /\ step[j] \in Adding \ {"add_cert"}
              => releases[i].cert <= version[j]["cert"]
         /\ step[j] \in {"add_state", "add_release"}
              => releases[i].key <= version[j]["key"]
         /\ step[j] = "add_release"
              => releases[i].state <= version[j]["state"]
    /\ step[j] \in Settling
         => Newest > 0 /\ version[j] = Retained(Newest)
    /\ step[j] \in Settling \ Deploying => verified = Newest

\* Holds as long as executions do not overlap.
LoneInv ==
    /\ verified <= Newest
    /\ Ascending
    /\ OldDestroyed
    /\ \A j \in Jobs : LoneJobInv(j)

\* What LoneInv says besides of the executions.
LoneSecrets == verified <= Newest /\ Ascending /\ OldDestroyed

\* A step that adds, destroys and verifies nothing keeps what is said of
\* secrets.
LEMMA LoneSecretsStay ==
  ASSUME LoneSecrets, UNCHANGED <<releases, gone, verified>>
  PROVE  LoneSecrets' /\ Newest' = Newest
  <1>1. Newest' = Newest /\ \A r : Retained(r)' = Retained(r)
    BY DEF Newest, Retained
  <1> QED
    BY <1>1 DEF LoneSecrets, Ascending, OldDestroyed

\* The execution whose turn it is not keeps its facts.
LEMMA LoneJobStays ==
  ASSUME NEW i \in Jobs, LoneJobInv(i), step'[i] = step[i],
         active'[i] = active[i], version'[i] = version[i],
         \/ step[i] = "idle"
         \/ UNCHANGED <<releases, verified>>
  PROVE  LoneJobInv(i)'
  <1>1. CASE step[i] = "idle"
    BY <1>1 DEF LoneJobInv, Choosing, Adding, Settling, Deploying
  <1>2. CASE UNCHANGED <<releases, verified>>
    <2>1. Newest' = Newest /\ Retained(Newest)' = Retained(Newest)
      BY <1>2 DEF Newest, Retained
    <2> QED
      BY <1>2, <2>1 DEF LoneJobInv
  <1> QED
    BY <1>1, <1>2

\* The executions other than j, when j takes a step.
LEMMA OthersLone ==
  ASSUME LoneInv, OneAtATime, NEW j \in Jobs, Others(j),
         step[j] # "idle" \/ UNCHANGED <<releases, verified>>
  PROVE  \A i \in Jobs \ {j} : LoneJobInv(i)'
  BY LoneJobStays DEF LoneInv, OneAtATime, Others

\* Steps that decide, give up or wait, and change no secret.
LEMMA QuietLone ==
  ASSUME CertificateInv, LoneInv, OneAtATime, NEW j \in Jobs, Others(j),
         UNCHANGED <<releases, gone, verified>>,
         \/ step'[j] = "idle"
         \/ /\ step[j] \in Choosing \/ active'[j] = Newest
            /\ step[j] \in Choosing => active'[j] = active[j]
            /\ step'[j] \in Choosing \cup {"add_cert"}
         \/ /\ step[j] \in Choosing /\ active[j] > 0
            /\ version'[j] = Retained(active[j])
            /\ step'[j] = "deploy"
         \/ /\ {step[j], step'[j]} \subseteq Deploying
            /\ version'[j] = version[j]
  PROVE  LoneInv'
  <1>1. /\ LoneSecrets' /\ Newest' = Newest
        /\ Retained(Newest)' = Retained(Newest)
    <2>1. LoneSecrets
      BY DEF LoneInv, LoneSecrets
    <2>2. LoneSecrets' /\ Newest' = Newest
      BY <2>1, LoneSecretsStay
    <2> QED
      BY <2>2 DEF Retained
  <1>2. LoneJobInv(j)
    BY DEF LoneInv
  <1>3. LoneJobInv(j)'
    BY <1>1, <1>2 DEF LoneJobInv, Choosing, Adding, Settling, Deploying
  <1> QED
    BY <1>1, <1>3, OthersLone DEF LoneInv, LoneSecrets

\* Choosing what to deploy, and giving up.
LEMMA ChooseLone ==
  ASSUME CertificateInv, LoneInv, OneAtATime, NEW j \in Jobs,
         \/ ReadActive(j) \/ ReadTrust(j) \/ CheckActive(j) \/ ReadState(j)
         \/ Certbot(j) \/ CertbotRefused(j) \/ Candidate(j)
         \/ DeployTimeout(j) \/ Fail(j)
  PROVE  LoneInv'
  <1>1. /\ TypeOK /\ JobInv(j) /\ Newest \in Nat
        /\ active[j] > 0 <=> active[j] # 0
    BY Counts DEF CertificateInv, TypeOK
  <1>2. Others(j)
    BY ReadKeeps, CheckKeeps, CandidateKeeps, StopKeeps DEF Keeps
  <1>3. UNCHANGED <<releases, gone, verified>>
    BY DEF ReadActive, ReadTrust, CheckActive, ReadState, Certbot,
       CertbotRefused, Candidate, DeployTimeout, Fail, secretVars
  <1>4. /\ step' \in [Jobs -> Steps] /\ DOMAIN step = Jobs
        /\ DOMAIN active = Jobs /\ DOMAIN version = Jobs
    BY <1>1, ReadKeeps, CheckKeeps, CandidateKeeps, StopKeeps
    DEF Keeps, Kept, TypeOK
  <1>5. ASSUME Exit(j) PROVE LoneInv'
    <2>1. step'[j] = "idle"
      BY <1>4, <1>5 DEF Exit, Goto
    <2> QED
      BY <1>2, <1>3, <2>1, QuietLone
  <1>6. ASSUME NEW t \in Choosing \cup {"add_cert"}, Goto(j, t),
               step[j] \in Choosing, UNCHANGED active
        PROVE  LoneInv'
    <2>1. step'[j] = t
      BY <1>4, <1>6 DEF Goto
    <2> QED
      BY <1>2, <1>3, <1>6, <2>1, QuietLone
  <1>7. ASSUME Goto(j, "deploy"), step[j] \in Choosing, active[j] > 0,
               version' = [version EXCEPT ![j] = Retained(active[j])]
        PROVE  LoneInv'
    <2>1. step'[j] = "deploy" /\ version'[j] = Retained(active[j])
      BY <1>4, <1>7 DEF Goto
    <2> QED
      BY <1>2, <1>3, <1>7, <2>1, QuietLone
  <1>8. CASE ReadActive(j)
    <2>1. step'[j] = "trust" /\ active'[j] = Newest /\ step[j] = "idle"
      BY <1>4, <1>8 DEF ReadActive, Goto
    <2> QED
      BY <1>2, <1>3, <2>1, QuietLone DEF Choosing
  <1>9. CASE ReadTrust(j)
    BY <1>6, <1>9 DEF ReadTrust, Choosing
  <1>10. CASE CheckActive(j)
    <2>1. active[j] > 0 /\ step[j] \in Choosing
      BY <1>1, <1>10 DEF CheckActive, JobInv, Choosing
    <2> QED
      BY <1>5, <1>6, <1>7, <1>10, <2>1 DEF CheckActive, Choosing
  <1>11. CASE ReadState(j)
    BY <1>5, <1>6, <1>11 DEF ReadState, Choosing
  <1>12. CASE Certbot(j) \/ CertbotRefused(j)
    BY <1>5, <1>6, <1>12 DEF Certbot, CertbotRefused, Choosing
  <1>13. CASE Candidate(j)
    <2>1. ~TrustChanged(j) => active[j] > 0
      BY <1>1 DEF TrustChanged
    <2> QED
      BY <1>5, <1>6, <1>7, <1>13, <2>1 DEF Candidate, Choosing
  <1>14. CASE DeployTimeout(j) \/ Fail(j)
    BY <1>5, <1>14 DEF DeployTimeout, Fail
  <1> QED
    BY <1>8, <1>9, <1>10, <1>11, <1>12, <1>13, <1>14
\* Every version added is later than those the manifests name.
LEMMA AddLone ==
  ASSUME CertificateInv, LoneInv, OneAtATime, NEW j \in Jobs,
         AddCert(j) \/ AddKey(j) \/ AddState(j)
  PROVE  LoneInv'
  <1>1. PICK s \in Secrets, from \in Steps, to \in Steps :
          /\ AddVersion(j, s, from, to)
          /\ \/ s = "cert" /\ from = "add_cert" /\ to = "add_key"
             \/ s = "key" /\ from = "add_key" /\ to = "add_state"
             \/ s = "state" /\ from = "add_state" /\ to = "add_release"
    BY DEF AddCert, AddKey, AddState, Secrets, Steps
  <1>2. TypeOK /\ JobInv(j) /\ ReleaseInv /\ Latest(s) \in Nat /\ LoneJobInv(j)
    BY Counts DEF CertificateInv, LoneInv
  <1>3. /\ step[j] = from /\ step' = [step EXCEPT ![j] = to]
        /\ UNCHANGED <<gone, releases, active, verified>>
    BY <1>1 DEF AddVersion, Goto
  <1>4. material[j] \in Materials
    BY <1>1, <1>2, <1>3 DEF JobInv, Adding
  <1>5. version' = [version EXCEPT
                    ![j] = [version[j] EXCEPT ![s] = Latest(s) + 1]]
    BY <1>1, <1>4, AddedVersion
  <1>6. /\ version'[j][s] = Latest(s) + 1
        /\ \A t \in Secrets \ {s} : version'[j][t] = version[j][t]
        /\ step'[j] = to
    BY <1>2, <1>3, <1>5 DEF TypeOK, Pruned
  <1>7. \A i \in 1..Newest :
          /\ s = "cert" => releases[i].cert <= Latest(s)
          /\ s = "key" => releases[i].key <= Latest(s)
          /\ s = "state" => releases[i].state <= Latest(s)
    BY <1>2 DEF ReleaseInv, Holds
  <1>8. \A i \in 1..Newest :
          releases[i] \in [cert : Nat, key : Nat, state : Nat,
                          leaf : Materials, trust : Profiles]
    BY <1>2, Counts
  <1>9. LoneSecrets' /\ Newest' = Newest
    BY <1>3, LoneSecretsStay DEF LoneInv, LoneSecrets
  <1>10. LoneJobInv(j)'
    <2>1. CASE s = "cert"
      BY <1>1, <1>2, <1>3, <1>6, <1>7, <1>8, <1>9, <2>1
      DEF LoneJobInv, Choosing, Adding, Settling, Deploying
    <2>2. CASE s = "key"
      <3>1. version'[j]["cert"] = version[j]["cert"]
        BY <1>6, <2>2 DEF Secrets
      <3> QED
        BY <1>1, <1>2, <1>3, <1>6, <1>7, <1>8, <1>9, <2>2, <3>1
        DEF LoneJobInv, Choosing, Adding, Settling, Deploying
    <2>3. CASE s = "state"
      <3>1. /\ version'[j]["cert"] = version[j]["cert"]
            /\ version'[j]["key"] = version[j]["key"]
        BY <1>6, <2>3 DEF Secrets
      <3> QED
        BY <1>1, <1>2, <1>3, <1>6, <1>7, <1>8, <1>9, <2>3, <3>1
        DEF LoneJobInv, Choosing, Adding, Settling, Deploying
    <2> QED
      BY <1>1, <2>1, <2>2, <2>3
  <1>11. Others(j)
    BY AddKeeps DEF Keeps
  <1> QED
    BY <1>3, <1>9, <1>10, <1>11, OthersLone DEF LoneInv, LoneSecrets

\* The new manifest names later versions than every other, and those the
\* execution retains.
LEMMA ReleaseLone ==
  ASSUME CertificateInv, LoneInv, OneAtATime, NEW j \in Jobs, AddRelease(j)
  PROVE  LoneInv'
  <1>1. TypeOK /\ Newest \in Nat /\ verified \in Nat /\ LoneJobInv(j)
    BY Counts DEF CertificateInv, LoneInv, TypeOK
  <1>2. /\ step[j] = "add_release"
        /\ version' = [version EXCEPT
                       ![j] = [version[j] EXCEPT !["release"] = Newest + 1]]
        /\ step' = [step EXCEPT ![j] = "deploy"]
        /\ UNCHANGED <<gone, active, verified>>
    BY DEF AddRelease, Goto
  <1>3. /\ Keeps(j) /\ Newest' = Newest + 1
        /\ releases'[Newest + 1] = ReleaseDocument(j)
    BY ReleaseKeeps
  <1>4. \A r \in 1..Newest : Retained(r)' = Retained(r)
    <2> SUFFICES ASSUME NEW r \in 1..Newest PROVE Retained(r)' = Retained(r)
      OBVIOUS
    <2>1. releases'[r] = releases[r]
      BY <1>3 DEF Keeps, Kept, Grows
    <2> QED
      BY <2>1 DEF Retained
  <1>5. /\ version'[j] \in [Pruned -> Nat]
        /\ version'[j]["release"] = Newest + 1
        /\ version'[j]["cert"] = version[j]["cert"]
        /\ version'[j]["key"] = version[j]["key"]
        /\ version'[j]["state"] = version[j]["state"]
        /\ step'[j] = "deploy"
    <2>1. version[j] \in [Pruned -> Nat] /\ Newest + 1 \in Nat
      BY <1>1 DEF TypeOK
    <2> QED
      BY <1>1, <1>2, <2>1 DEF TypeOK, Pruned, Secrets
  <1>6. /\ Retained(Newest)' = version'[j]
        /\ releases'[Newest'].cert = version'[j]["cert"]
        /\ releases'[Newest'].key = version'[j]["key"]
        /\ releases'[Newest'].state = version'[j]["state"]
    <2>1. /\ releases'[Newest'].cert = version'[j]["cert"]
          /\ releases'[Newest'].key = version'[j]["key"]
          /\ releases'[Newest'].state = version'[j]["state"]
      BY <1>3, <1>5 DEF ReleaseDocument
    <2>2. /\ Retained(Newest)'["cert"] = releases'[Newest'].cert
          /\ Retained(Newest)'["key"] = releases'[Newest'].key
          /\ Retained(Newest)'["state"] = releases'[Newest'].state
          /\ Retained(Newest)'["release"] = Newest'
      <3>1. {"cert", "key", "state", "release"} \subseteq Pruned
        BY DEF Pruned, Secrets
      <3>2. Retained(Newest)'["cert"] = releases'[Newest'].cert
        BY <3>1 DEF Retained
      <3>3. Retained(Newest)'["key"] = releases'[Newest'].key
        BY <3>1 DEF Retained
      <3>4. Retained(Newest)'["state"] = releases'[Newest'].state
        BY <3>1 DEF Retained
      <3>5. Retained(Newest)'["release"] = Newest'
        BY <3>1 DEF Retained
      <3> QED
        BY <3>2, <3>3, <3>4, <3>5
    <2>3. Retained(Newest)' = [s \in Pruned |-> Retained(Newest)'[s]]
      <3> DEFINE V(s) == CASE s = "cert"    -> releases'[Newest'].cert
                           [] s = "key"     -> releases'[Newest'].key
                           [] s = "state"   -> releases'[Newest'].state
                           [] s = "release" -> Newest'
      <3>1. Retained(Newest)' = [s \in Pruned |-> V(s)]
        BY DEF Retained
      <3> QED
        BY <3>1, Zenon
    <2>4. version'[j] = [s \in Pruned |-> version'[j][s]]
      BY <1>5
    <2>5. ASSUME NEW s \in Pruned
          PROVE  Retained(Newest)'[s] = version'[j][s]
      <3>1. s \in {"cert", "key", "state", "release"}
        BY DEF Pruned, Secrets
      <3> QED
        BY <1>3, <1>5, <2>1, <2>2, <3>1
    <2> QED
      BY <2>1, <2>3, <2>4, <2>5
  <1>7. Ascending'
    <2> SUFFICES ASSUME NEW i \in 1..Newest', NEW s \in Pruned
                 PROVE  Retained(i)'[s] <= Retained(Newest)'[s]
      BY DEF Ascending
    <2>1. CASE i = Newest'
      BY <1>5, <1>6, <2>1
    <2>2. CASE i \in 1..Newest
      <3>1. /\ Retained(i) \in [Pruned -> Nat]
            /\ Retained(i)["cert"] = releases[i].cert
            /\ Retained(i)["key"] = releases[i].key
            /\ Retained(i)["state"] = releases[i].state
            /\ Retained(i)["release"] = i
        BY <1>1, <2>2, RetainedTypes
      <3>2. /\ releases[i].cert <= version[j]["cert"]
            /\ releases[i].key <= version[j]["key"]
            /\ releases[i].state <= version[j]["state"]
        BY <1>1, <1>2, <2>2 DEF LoneJobInv, Adding
      <3>3. Retained(i)[s] <= version'[j][s]
        BY <1>1, <1>5, <2>2, <3>1, <3>2 DEF Pruned, Secrets
      <3> QED
        BY <1>4, <1>6, <2>2, <3>3
    <2> QED
      BY <1>1, <1>3, <2>1, <2>2
  <1>8. verified' <= Newest' /\ OldDestroyed'
    <2>1. verified <= Newest /\ OldDestroyed
      BY DEF LoneInv
    <2>2. verified > 0 => Retained(verified)' = Retained(verified)
      <3>1. ASSUME verified > 0 PROVE Retained(verified)' = Retained(verified)
        <4>1. releases'[verified] = releases[verified]
          BY <1>1, <1>3, <2>1, <3>1 DEF Keeps, Kept, Grows
        <4> QED
          BY <1>2, <4>1 DEF Retained
      <3> QED
        BY <3>1
    <2> QED
      BY <1>1, <1>2, <1>3, <2>1, <2>2 DEF OldDestroyed
  <1>9. LoneJobInv(j)'
    BY <1>1, <1>3, <1>5, <1>6 DEF LoneJobInv, Choosing, Adding, Settling, Deploying
  <1>10. Others(j)
    BY <1>3 DEF Keeps
  <1> QED
    BY <1>2, <1>7, <1>8, <1>9, <1>10, OthersLone DEF LoneInv

\* Accepting a release: the newest one becomes the verified one.
LEMMA DeployLone ==
  ASSUME CertificateInv, LoneInv, OneAtATime, NEW j \in Jobs,
         DeployStep(j)
  PROVE  LoneInv'
  <1>1. TypeOK /\ Newest \in Nat /\ verified \in Nat /\ LoneJobInv(j)
    BY Counts DEF CertificateInv, LoneInv, TypeOK
  <1>2. /\ UNCHANGED <<secretVars, active, version>>
        /\ step[j] \in Deploying
        /\ \/ Accept(j)
           \/ /\ UNCHANGED verified
              /\ \E t \in Deploying : step' = [step EXCEPT ![j] = t]
    BY DeployMoves DEF JobOnly, Reset, Wait, Goto, Deploying
  <1>3. Others(j)
    BY DeployKeeps DEF Keeps
  <1>4. CASE Accept(j)
    <2>1. Newest \in 1..Newest /\ version[j] = Retained(Newest)
      BY <1>1, <1>2 DEF LoneJobInv, Settling, Deploying
    <2>2. version[j]["release"] = Newest
      BY <1>1, <2>1, RetainedTypes
    <2>3. verified <= Newest /\ Ascending /\ OldDestroyed
      BY DEF LoneInv
    <2>4. verified' = Newest
      BY <1>1, <1>4, <2>2, <2>3 DEF Accept
    <2>5. Newest' = Newest /\ \A r : Retained(r)' = Retained(r)
      BY <1>2 DEF secretVars, Newest, Retained
    <2>6. OldDestroyed'
      <3> SUFFICES ASSUME NEW s \in Pruned, NEW v \in gone[s]
                   PROVE  Newest > 0 /\ v < Retained(Newest)[s]
        BY <1>2, <2>4, <2>5 DEF OldDestroyed, secretVars
      <3>1. verified > 0 /\ v < Retained(verified)[s]
        BY <2>3 DEF OldDestroyed
      <3>2. Retained(verified)[s] <= Retained(Newest)[s]
        BY <1>1, <2>3, <3>1 DEF Ascending
      <3>3. /\ Retained(verified)[s] \in Nat /\ Retained(Newest)[s] \in Nat
        BY <1>1, <2>1, <2>3, <3>1, RetainedTypes
      <3>4. v \in Nat
        BY <1>1 DEF TypeOK
      <3> QED
        BY <1>1, <2>1, <3>1, <3>2, <3>3, <3>4
    <2>7. LoneSecrets'
      BY <1>1, <2>3, <2>4, <2>5, <2>6 DEF LoneSecrets, Ascending
    <2>8. step'[j] = "prune_cert" /\ version'[j] = Retained(Newest)'
      BY <1>1, <1>2, <1>4, <2>1, <2>5 DEF Accept, Goto, TypeOK
    <2>9. LoneJobInv(j)'
      <3>1. /\ step'[j] \notin Choosing \cup Adding
            /\ step'[j] \notin Deploying
        BY <2>8 DEF Choosing, Adding, Deploying
      <3>2. Newest' > 0 /\ version'[j] = Retained(Newest)' /\ verified' = Newest'
        BY <1>1, <2>1, <2>4, <2>5, <2>8
      <3> QED
        BY <3>1, <3>2 DEF LoneJobInv, Adding
    <2>10. step[j] # "idle"
      BY <1>2 DEF Deploying
    <2> QED
      BY <1>2, <1>3, <2>7, <2>9, <2>10, OthersLone DEF LoneInv, LoneSecrets
  <1>5. CASE /\ UNCHANGED verified
             /\ \E t \in Deploying : step' = [step EXCEPT ![j] = t]
    <2>1. step'[j] \in Deploying /\ version'[j] = version[j]
      BY <1>1, <1>2, <1>5 DEF TypeOK
    <2> QED
      BY <1>2, <1>3, <1>5, <2>1, QuietLone DEF secretVars
  <1> QED
    BY <1>2, <1>4, <1>5

\* Pruning destroys only what is older than the verified release.
LEMMA PruneLone ==
  ASSUME CertificateInv, LoneInv, OneAtATime, NEW j \in Jobs, PruneStep(j)
  PROVE  LoneInv'
  <1>1. /\ TypeOK /\ Newest \in Nat /\ LoneJobInv(j)
        /\ verified <= Newest /\ Ascending /\ OldDestroyed
    BY Counts DEF CertificateInv, LoneInv, TypeOK
  <1>2. PICK s \in Pruned, from \in Steps, to \in Steps :
          /\ Prune(j, s, from, to)
          /\ from \in {"prune_cert", "prune_key", "prune_state",
                       "prune_release"}
          /\ to \in {"prune_key", "prune_state", "prune_release", "idle"}
    BY DEF PruneStep, PruneCert, PruneKey, PruneState, PruneRelease, Pruned,
       Secrets, Steps
  <1>3. /\ UNCHANGED <<payload, releases, active, version, verified>>
        /\ step[j] = from
        /\ step' = step \/ step' = [step EXCEPT ![j] = to]
        /\ \/ UNCHANGED gone
           \/ \E v \in Prunable(j, s) : gone' = [gone EXCEPT ![s] = @ \cup {v}]
    BY <1>2 DEF Prune, Goto
  <1>4. Others(j)
    BY PruneKeeps DEF Keeps
  <1>5. Newest > 0 /\ version[j] = Retained(Newest) /\ verified = Newest
    BY <1>1, <1>2, <1>3 DEF LoneJobInv, Settling, Deploying
  <1>6. Newest' = Newest /\ \A r : Retained(r)' = Retained(r)
    BY <1>3 DEF Newest, Retained
  <1>7. \A t \in Pruned : \A v \in gone'[t] :
          v \in gone[t] \/ v < Retained(verified)[t]
    <2>1. DOMAIN gone = Pruned
      BY <1>1 DEF TypeOK
    <2> QED
      BY <1>3, <1>5, <2>1 DEF Prunable
  <1>8. OldDestroyed'
    BY <1>1, <1>3, <1>5, <1>6, <1>7 DEF OldDestroyed
  <1>9. LoneSecrets'
    BY <1>1, <1>3, <1>6, <1>8 DEF LoneSecrets, Ascending
  <1>10. step'[j] \in {"prune_cert", "prune_key", "prune_state",
                       "prune_release", "idle"}
    BY <1>1, <1>2, <1>3 DEF TypeOK
  <1>11. version'[j] = Retained(Newest)' /\ verified' = Newest' /\ Newest' > 0
    BY <1>3, <1>5, <1>6
  <1>12. LoneJobInv(j)'
    BY <1>10, <1>11 DEF LoneJobInv, Choosing, Adding, Settling, Deploying
  <1> QED
    BY <1>2, <1>3, <1>4, <1>9, <1>12, OthersLone DEF LoneInv, LoneSecrets

\* No execution has begun and nothing was destroyed.
LEMMA InitLone == Init => LoneInv
  <1> SUFFICES ASSUME Init PROVE LoneInv
    OBVIOUS
  <1>1. /\ Newest = 0 /\ verified = 0 /\ \A s \in Pruned : gone[s] = {}
        /\ \A j \in Jobs : step[j] = "idle"
    BY DEF Init, Newest
  <1>2. Ascending /\ OldDestroyed
    BY <1>1 DEF Ascending, OldDestroyed
  <1>3. \A j \in Jobs : LoneJobInv(j)
    BY <1>1 DEF LoneJobInv, Choosing, Adding, Settling, Deploying
  <1> QED
    BY <1>1, <1>2, <1>3 DEF LoneInv

\* Every step preserves the invariant while no two executions are under way.
LEMMA StepLone ==
  CertificateInv /\ LoneInv /\ OneAtATime /\ [Next]_vars => LoneInv'
  <1> SUFFICES ASSUME CertificateInv, LoneInv, OneAtATime, [Next]_vars
               PROVE  LoneInv'
    OBVIOUS
  <1>1. CASE \E j \in Jobs : JobStep(j) \/ Fail(j)
    <2>1. PICK j \in Jobs : JobStep(j) \/ Fail(j)
      BY <1>1
    <2> QED
      BY <2>1, ChooseLone, AddLone, ReleaseLone, DeployLone, PruneLone
      DEF JobStep, PruneStep, DeployStep
  <1>2. ASSUME UNCHANGED <<secretVars, jobVars>> PROVE LoneInv'
    <2>1. LoneSecrets'
      BY <1>2, LoneSecretsStay DEF LoneInv, LoneSecrets, secretVars, jobVars
    <2>2. \A i \in Jobs : LoneJobInv(i)'
      BY <1>2, LoneJobStays DEF LoneInv, secretVars, jobVars
    <2> QED
      BY <2>1, <2>2 DEF LoneInv, LoneSecrets
  <1>3. CASE Edge \/ Reboot
    BY <1>2, <1>3, EdgeKeeps DEF EdgeOnly
  <1>4. CASE \/ \E m \in Materials : Age(m)
             \/ \E p \in Profiles : ChangeProfile(p) \/ Approve(p)
    BY <1>2, <1>4, ClockKeeps
  <1>5. CASE UNCHANGED vars
    BY <1>2, <1>5 DEF vars
  <1> QED
    BY <1>1, <1>3, <1>4, <1>5 DEF Next

\* As long as no two executions overlap, the one that runs works on the newest
\* release, and what it destroys is older than the last verified one.
THEOREM LoneCorrect == Spec /\ []OneAtATime => []LoneInv
  BY InitLone, StepLone, RenewalCorrect, PTL DEF Spec

\* No version that a manifest not older than the verified one names has been
\* destroyed, nor the manifest itself.
LEMMA NotDestroyed ==
  ASSUME CertificateInv, LoneInv, NEW r \in {Newest, verified}, r > 0
  PROVE  Installable(r) /\ r \notin gone["release"]
  <1>1. /\ TypeOK /\ Newest \in Nat /\ verified \in Nat
        /\ verified <= Newest /\ Ascending /\ OldDestroyed
    BY Counts DEF CertificateInv, LoneInv, TypeOK
  <1>2. r \in 1..Newest
    BY <1>1
  <1>3. ASSUME NEW s \in Pruned, Retained(r)[s] \in gone[s]
        PROVE  FALSE
    <2>1. verified > 0 /\ Retained(r)[s] < Retained(verified)[s]
      BY <1>1, <1>3 DEF OldDestroyed
    <2>2. /\ Retained(r)[s] \in Nat /\ Retained(verified)[s] \in Nat
      BY <1>1, <1>2, <2>1, RetainedTypes
    <2>3. CASE r = Newest
      <3>1. Retained(verified)[s] <= Retained(Newest)[s]
        BY <1>1, <2>1 DEF Ascending
      <3> QED
        BY <2>1, <2>2, <2>3, <3>1
    <2>4. CASE r = verified
      BY <2>1, <2>2, <2>4
    <2> QED
      BY <2>3, <2>4
  <1>4. /\ releases[r].cert \notin gone["cert"]
        /\ releases[r].key \notin gone["key"]
        /\ r \notin gone["release"]
    BY <1>1, <1>2, <1>3, RetainedTypes DEF Pruned, Secrets
  <1> QED
    BY <1>2, <1>4
    DEF CertificateInv, ReleaseInv, Holds, Installable, Readable

\* Pruning never destroys what the newest manifest names, while executions do
\* not overlap (two that do may: the run certificate_prunes).
THEOREM NewestIntact == Spec /\ []OneAtATime => []NewestReleaseIntact
  <1>1. CertificateInv /\ LoneInv => NewestReleaseIntact
    BY NotDestroyed DEF NewestReleaseIntact
  <1> QED
    BY <1>1, RenewalCorrect, LoneCorrect, PTL

\* Pruning leaves the last verified release restorable, while executions do not
\* overlap.
THEOREM VerifiedIntact == Spec /\ []OneAtATime => []LastVerifiedIntact
  <1>1. CertificateInv /\ LoneInv => LastVerifiedIntact
    BY NotDestroyed DEF LastVerifiedIntact
  <1> QED
    BY <1>1, RenewalCorrect, LoneCorrect, PTL

\* The same of a single execution, which never overlaps.
THEOREM SingleIntact ==
  ASSUME \A i, j \in Jobs : i = j
  PROVE  Spec => [](NewestReleaseIntact /\ LastVerifiedIntact)
  <1>1. OneAtATime
    BY DEF OneAtATime
  <1> QED
    BY <1>1, NewestIntact, VerifiedIntact, PTL
=============================================================================
