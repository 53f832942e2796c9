-------------------------- MODULE CertificateRenewal --------------------------
(***************************************************************************)
(* The telemetry endpoint's certificate: executions of the renewal job,    *)
(* the four Secret Manager secrets they write and prune, and the edge VM   *)
(* whose startup script installs the newest release.                       *)
(*                                                                         *)
(* Every secret access, certificate request and VM reset of a job is one   *)
(* step, an execution may fail or be killed between any two of them        *)
(* (max_retries is 0, the schedule starts the next one), and executions    *)
(* may overlap.  A certificate with its private key is one member of       *)
(* Materials; whether it is due for renewal is the clock's business.       *)
(***************************************************************************)
EXTENDS Naturals, Sequences

CONSTANTS
    Jobs,         \* concurrent executions of the renewal job
    Materials,    \* certificates the CA can issue; bounds the renewals
    Profiles,     \* telemetry trust profiles
    Trusts,       \* the certificates that verify against each profile
    MaxFailures,  \* bound: injected failures of jobs, boots and receivers
    MaxCutovers,  \* bound: changes of the configured trust profile
    None          \* "missing"

ASSUME NoneAssumption == None \notin Materials \cup Profiles
ASSUME TrustsAssumption == Trusts \in [Profiles -> SUBSET Materials]
ASSUME BoundsAssumption == MaxFailures \in Nat /\ MaxCutovers \in Nat

VARIABLES
    payload,     \* per secret, its versions' payloads in order of creation
    gone,        \* per secret, the numbers of its destroyed versions
    releases,    \* the release secret's payloads: the manifests
    profile,     \* the configured trust profile
    readiness,   \* the profile whose cutover is approved
    issued,      \* certificates the CA has issued
    due,         \* certificates past their renewal threshold
    step,        \* per job, its next call
    active,      \* per job, the release it read first (0: none)
    trust,       \* per job, the trust profile it read
    material,    \* per job, the candidate certificate
    version,     \* per job, the versions it added or retains, per secret
    vm,          \* the startup script's next step ("done": it has exited)
    booting,     \* the release the startup script is installing
    staged,      \* the certificate in tls-staging
    tls,         \* the certificate in tls (a directory on the VM's disk)
    previous,    \* the certificate in tls-previous
    deployed,    \* the content of deployed-tls-release
    container,   \* the receiver container exists
    serving,     \* the certificate the public endpoint presents
    status,      \* guest attribute: the release named by a success (0: none)
    lastHealthy, \* history: the certificate last seen healthy on the VM
    approved,    \* history: profiles whose cutover was approved
    verified,    \* history: the newest release a job verified (0: none)
    failures,    \* count of injected failures
    cutovers     \* count of profile changes

secretVars  == <<payload, gone, releases>>
trustVars   == <<profile, readiness, approved, cutovers>>
caVars      == <<issued, due>>
jobVars     == <<step, active, trust, material, version, verified>>
diskVars    == <<tls, previous, deployed>>
vmVars      == <<vm, booting, staged, container, serving, status, lastHealthy>>
vars        == <<secretVars, trustVars, caVars, jobVars, diskVars, vmVars,
                 failures>>

Secrets == {"cert", "key", "state"}
Pruned  == Secrets \cup {"release"}
Steps   == {"idle", "trust", "check", "state", "certbot", "candidate",
            "add_cert", "add_key", "add_state", "add_release", "deploy",
            "compare", "wait", "probe", "prune_cert", "prune_key",
            "prune_state", "prune_release"}
BootSteps == {"fetch", "material", "legacy", "aside", "install", "pull",
              "start", "mark", "report", "rollback", "done"}
MaybeMaterial == Materials \cup {None}

TypeOK ==
    /\ payload \in [Secrets -> Seq(Materials)]
    /\ gone \in [Pruned -> SUBSET (Nat \ {0})]
    /\ releases \in Seq([cert : Nat, key : Nat, state : Nat,
                         leaf : Materials, trust : Profiles])
    /\ profile \in Profiles
    /\ readiness \in Profiles \cup {None}
    /\ issued \in SUBSET Materials
    /\ due \in SUBSET issued
    /\ step \in [Jobs -> Steps]
    /\ active \in [Jobs -> Nat]
    /\ trust \in [Jobs -> Profiles \cup {None}]
    /\ material \in [Jobs -> MaybeMaterial]
    /\ version \in [Jobs -> [Pruned -> Nat]]
    /\ vm \in BootSteps
    /\ booting \in Nat
    /\ deployed \in Nat
    /\ {status, verified} \subseteq Nat
    /\ {staged, tls, previous, serving, lastHealthy} \subseteq MaybeMaterial
    /\ container \in BOOLEAN
    /\ approved \in SUBSET Profiles
    /\ failures \in 0..MaxFailures
    /\ cutovers \in 0..MaxCutovers

NoVersions == [s \in Pruned |-> 0]

Init ==
    /\ payload = [s \in Secrets |-> <<>>]
    /\ gone = [s \in Pruned |-> {}]
    /\ releases = <<>>
    /\ profile \in Profiles
    /\ readiness = None
    /\ issued = {}
    /\ due = {}
    /\ step = [j \in Jobs |-> "idle"]
    /\ active = [j \in Jobs |-> 0]
    /\ trust = [j \in Jobs |-> None]
    /\ material = [j \in Jobs |-> None]
    /\ version = [j \in Jobs |-> NoVersions]
    /\ vm = "done"
    /\ booting = 0
    /\ deployed = 0
    /\ status = 0
    /\ staged = None
    /\ tls = None
    /\ previous = None
    /\ serving = None
    /\ lastHealthy = None
    /\ container = FALSE
    /\ approved = {}
    /\ verified = 0
    /\ failures = 0
    /\ cutovers = 0

Latest(s)     == Len(payload[s])
Newest        == Len(releases)
Readable(s, v) == v \in 1..Latest(s) /\ v \notin gone[s]

(***************************************************************************)
(* The edge VM.                                                            *)
(***************************************************************************)

\* A reset: the startup script begins anew, and docker restarts a receiver
\* that still exists (--restart=always) with whatever the disk holds.
ResetVM ==
    /\ vm' = "fetch"
    /\ booting' = 0
    /\ staged' = None
    /\ serving' = IF container THEN tls ELSE None
    /\ UNCHANGED <<diskVars, container, status, lastHealthy>>

\* The script exits with a failure, which it (or its EXIT trap) reports.
GiveUp ==
    /\ vm' = "done"
    /\ status' = 0
    /\ UNCHANGED <<booting, staged, deployed, container, lastHealthy>>

EdgeOnly == UNCHANGED <<secretVars, trustVars, caVars, jobVars>>
Injected == failures < MaxFailures /\ failures' = failures + 1

\* prepare_tls: the newest manifest.
FetchRelease ==
    /\ vm = "fetch"
    /\ Newest > 0
    /\ booting' = Newest
    /\ vm' = "material"
    /\ UNCHANGED <<diskVars, staged, container, serving, status, lastHealthy,
                   failures>>
    /\ EdgeOnly

\* There is no manifest, or reading it fails ...
NoManifest == IF Newest = 0 THEN UNCHANGED failures ELSE Injected

\* ... then the installed pair is kept ...
KeepInstalled ==
    /\ vm = "fetch"
    /\ tls # None
    /\ NoManifest
    /\ booting' = deployed
    /\ vm' = "pull"
    /\ UNCHANGED <<diskVars, staged, container, serving, status, lastHealthy>>
    /\ EdgeOnly

\* ... and without one, the latest certificate and then the latest key are
\* fetched, if they match.
FetchLegacy ==
    /\ vm = "fetch"
    /\ tls = None
    /\ NoManifest
    /\ Readable("cert", Latest("cert"))
    /\ staged' = payload["cert"][Latest("cert")]
    /\ vm' = "legacy"
    /\ UNCHANGED <<diskVars, booting, container, serving, status, lastHealthy>>
    /\ EdgeOnly

LegacyKeyFits ==
    /\ Readable("key", Latest("key"))
    /\ payload["key"][Latest("key")] = staged

FetchLegacyKey ==
    /\ vm = "legacy"
    /\ LegacyKeyFits
    /\ vm' = "aside"
    /\ UNCHANGED <<diskVars, booting, staged, container, serving, status,
                   lastHealthy, failures>>
    /\ EdgeOnly

\* The pair a manifest names can be fetched and validates.
Installable(r) ==
    /\ Readable("cert", releases[r].cert)
    /\ Readable("key", releases[r].key)
    /\ payload["cert"][releases[r].cert] = releases[r].leaf
    /\ payload["key"][releases[r].key] = releases[r].leaf

FetchMaterial ==
    /\ vm = "material"
    /\ Installable(booting)
    /\ staged' = releases[booting].leaf
    /\ vm' = "aside"
    /\ UNCHANGED <<diskVars, booting, container, serving, status, lastHealthy,
                   failures>>
    /\ EdgeOnly

MoveAside ==
    /\ vm = "aside"
    /\ previous' = tls
    /\ tls' = None
    /\ vm' = "install"
    /\ UNCHANGED <<deployed, booting, staged, container, serving, status,
                   lastHealthy, failures>>
    /\ EdgeOnly

Install ==
    /\ vm = "install"
    /\ tls' = staged
    /\ staged' = None
    /\ vm' = "pull"
    /\ UNCHANGED <<previous, deployed, booting, container, serving, status,
                   lastHealthy, failures>>
    /\ EdgeOnly

\* docker login and pull succeeded; the old receiver is removed.
RemoveReceiver ==
    /\ vm = "pull"
    /\ container' = FALSE
    /\ serving' = None
    /\ vm' = "start"
    /\ UNCHANGED <<diskVars, booting, staged, status, lastHealthy, failures>>
    /\ EdgeOnly

Healthy ==
    /\ container' = TRUE
    /\ serving' = tls
    /\ lastHealthy' = tls
    /\ UNCHANGED <<diskVars, booting, staged, failures>>

\* The receiver serves; the marker is written and the success reported later.
StartHealthy ==
    /\ vm = "start"
    /\ Healthy
    /\ vm' = "mark"
    /\ UNCHANGED status
    /\ EdgeOnly

MarkDeployed ==
    /\ vm = "mark"
    /\ deployed' = booting
    /\ vm' = "report"
    /\ UNCHANGED <<tls, previous, booting, staged, container, serving, status,
                   lastHealthy, failures>>
    /\ EdgeOnly

ReportSuccess ==
    /\ vm = "report"
    /\ status' = booting
    /\ vm' = "done"
    /\ UNCHANGED <<diskVars, booting, staged, container, serving, lastHealthy,
                   failures>>
    /\ EdgeOnly

\* The receiver does not become healthy: restore the previous pair, if any.
StartUnhealthy ==
    /\ vm = "start"
    /\ Injected
    /\ IF previous # None
         THEN /\ tls' = previous
              /\ previous' = None
              /\ vm' = "rollback"
              /\ UNCHANGED <<deployed, booting, staged, container, status,
                             lastHealthy>>
         ELSE GiveUp /\ UNCHANGED <<tls, previous>>
    /\ UNCHANGED serving
    /\ EdgeOnly

RollbackHealthy ==
    /\ vm = "rollback"
    /\ Healthy
    /\ vm' = "done"
    /\ status' = 0
    /\ EdgeOnly

\* What kept the new pair from becoming healthy may keep the old one from it.
RollbackUnhealthy ==
    /\ vm = "rollback"
    /\ GiveUp
    /\ UNCHANGED <<tls, previous, serving, failures>>
    /\ EdgeOnly

\* Nothing to install: the pair is gone or does not validate, or there is none.
NothingToInstall ==
    \/ vm = "material" /\ ~Installable(booting)
    \/ vm = "legacy" /\ ~LegacyKeyFits
    \/ /\ vm = "fetch"
       /\ Newest = 0 /\ tls = None /\ ~Readable("cert", Latest("cert"))

BootFails ==
    /\ \/ NothingToInstall /\ UNCHANGED failures
       \/ vm \notin {"start", "rollback", "done"} /\ Injected
    /\ GiveUp
    /\ UNCHANGED <<tls, previous, serving>>
    /\ EdgeOnly

Edge ==
    \/ FetchRelease \/ FetchMaterial \/ KeepInstalled
    \/ FetchLegacy \/ FetchLegacyKey \/ MoveAside \/ Install \/ RemoveReceiver
    \/ StartHealthy \/ MarkDeployed \/ ReportSuccess \/ RollbackHealthy
    \/ StartUnhealthy \/ RollbackUnhealthy \/ BootFails

\* The VM restarts for a reason of its own (a deployment, host maintenance).
Reboot ==
    /\ Injected
    /\ ResetVM
    /\ EdgeOnly

(***************************************************************************)
(* An execution of the renewal job.                                        *)
(***************************************************************************)
EdgeVars == <<diskVars, vmVars>>

Goto(j, s)     == step' = [step EXCEPT ![j] = s]
Exit(j)        == Goto(j, "idle") /\ UNCHANGED <<material, version>>
Retained(r)    == [s \in Pruned |->
                     CASE s = "cert"    -> releases[r].cert
                       [] s = "key"     -> releases[r].key
                       [] s = "state"   -> releases[r].state
                       [] s = "release" -> r]
\* Tesla is to trust the certificate with the profile's bundle.
Trusted(j, m)   == m \in Trusts[trust[j]]

\* Certbot's policy, two thirds of the lifetime.
Expiring(m)     == m \in due

TrustChanged(j) == active[j] = 0 \/ releases[active[j]].trust # trust[j]

\* The execution starts by reading the newest manifest ...
ReadActive(j) ==
    /\ step[j] = "idle"
    /\ active' = [active EXCEPT ![j] = Newest]
    /\ material' = [material EXCEPT ![j] = None]
    /\ version' = [version EXCEPT ![j] = NoVersions]
    /\ Goto(j, "trust")
    /\ UNCHANGED <<secretVars, trustVars, caVars, trust, verified, EdgeVars,
                   failures>>

\* ... then the trust profile, which decides what it looks at next.
ReadTrust(j) ==
    /\ step[j] = "trust"
    /\ trust' = [trust EXCEPT ![j] = profile]
    /\ Goto(j, IF active[j] > 0 /\ releases[active[j]].trust = profile
                 THEN "check" ELSE "state")
    /\ UNCHANGED <<secretVars, trustVars, caVars, active, material, version,
                   verified, EdgeVars, failures>>

\* The active release's certificate: missing, due, or to be deployed again.
CheckActive(j) ==
    /\ step[j] = "check"
    /\ LET r    == active[j]
           leaf == releases[r].leaf
       IN IF ~Readable("cert", releases[r].cert)
               \/ payload["cert"][releases[r].cert] # leaf
            THEN Exit(j)
          ELSE IF Expiring(leaf)
            THEN Goto(j, "state") /\ UNCHANGED <<material, version>>
          ELSE IF ~Trusted(j, leaf)
            THEN Exit(j)
            ELSE /\ material' = [material EXCEPT ![j] = leaf]
                 /\ version' = [version EXCEPT ![j] = Retained(r)]
                 /\ Goto(j, "deploy")
    /\ UNCHANGED <<secretVars, trustVars, caVars, active, trust, verified,
                   EdgeVars, failures>>

\* The ACME state: its certificate is the candidate unless it is due.
ReadState(j) ==
    /\ step[j] = "state"
    /\ LET v == Latest("state")
       IN IF v > 0 /\ v \in gone["state"]
            THEN Exit(j)
          ELSE IF v = 0 \/ Expiring(payload["state"][v])
            THEN Goto(j, "certbot") /\ UNCHANGED <<material, version>>
            ELSE /\ material' = [material EXCEPT ![j] = payload["state"][v]]
                 /\ Goto(j, "candidate")
                 /\ UNCHANGED version
    /\ UNCHANGED <<secretVars, trustVars, caVars, active, trust, verified,
                   EdgeVars, failures>>

\* Certbot forces a new certificate, before any approval is asked for: what
\* it obtained is not kept when the candidate is then rejected, nor when its
\* answer is lost (a timeout).
Certbot(j) ==
    /\ step[j] = "certbot"
    /\ \E m \in Materials \ issued :
         /\ issued' = issued \cup {m}
         /\ \/ /\ material' = [material EXCEPT ![j] = m]
               /\ Goto(j, "candidate")
               /\ UNCHANGED <<version, failures>>
            \/ Injected /\ Exit(j)
    /\ UNCHANGED <<secretVars, trustVars, due, active, trust, verified,
                   EdgeVars>>

CertbotRefused(j) ==
    /\ step[j] = "certbot"
    /\ issued = Materials
    /\ Exit(j)
    /\ UNCHANGED <<secretVars, trustVars, caVars, active, trust, verified,
                   EdgeVars, failures>>

\* (variant: any approval will do)
AnyApproval(j) == readiness # None

\* The cutover to another trust profile has been approved for that profile.
CutoverReady(j) == readiness = trust[j]

Candidate(j) ==
    /\ step[j] = "candidate"
    /\ IF \/ ~Trusted(j, material[j])
          \/ TrustChanged(j) /\ ~CutoverReady(j)
         THEN Exit(j)
       ELSE IF ~TrustChanged(j) /\ releases[active[j]].leaf = material[j]
         THEN /\ version' = [version EXCEPT ![j] = Retained(active[j])]
              /\ Goto(j, "deploy")
              /\ UNCHANGED material
         ELSE Goto(j, "add_cert") /\ UNCHANGED <<material, version>>
    /\ UNCHANGED <<secretVars, trustVars, caVars, active, trust, verified,
                   EdgeVars, failures>>

\* Add a version; the job keeps the number the answer names.
AddVersion(j, s, from, to) ==
    /\ step[j] = from
    /\ payload' = [payload EXCEPT ![s] = Append(@, material[j])]
    /\ version' = [version EXCEPT ![j][s] = Latest(s) + 1]
    /\ Goto(j, to)
    /\ UNCHANGED <<gone, releases, trustVars, caVars, active, trust, material,
                   verified, EdgeVars, failures>>

AddCert(j)  == AddVersion(j, "cert", "add_cert", "add_key")
AddKey(j)   == AddVersion(j, "key", "add_key", "add_state")
AddState(j) == AddVersion(j, "state", "add_state", "add_release")

\* (variant: the manifest names the latest versions, not the ones added)
LatestDocument(j) ==
    [cert |-> Latest("cert"), key |-> Latest("key"), state |-> Latest("state"),
     leaf |-> material[j], trust |-> trust[j]]

ReleaseDocument(j) ==
    [cert |-> version[j]["cert"], key |-> version[j]["key"],
     state |-> version[j]["state"], leaf |-> material[j], trust |-> trust[j]]

AddRelease(j) ==
    /\ step[j] = "add_release"
    /\ releases' = Append(releases, ReleaseDocument(j))
    /\ version' = [version EXCEPT ![j]["release"] = Newest + 1]
    /\ Goto(j, "deploy")
    /\ UNCHANGED <<payload, gone, trustVars, caVars, active, trust, material,
                   verified, EdgeVars, failures>>

\* The guest attribute names the release.
Reported(j) == status = version[j]["release"]

\* The public endpoint presents its leaf, which is looked at next.
Presented(j) == serving = material[j]

Accept(j) ==
    /\ verified' = IF version[j]["release"] > verified
                     THEN version[j]["release"] ELSE verified
    /\ Goto(j, "prune_cert")
    /\ UNCHANGED EdgeVars

Reset(j) == ResetVM /\ Goto(j, "wait") /\ UNCHANGED verified

Wait(j, s) == Goto(j, s) /\ UNCHANGED <<verified, EdgeVars>>

JobOnly == UNCHANGED <<secretVars, trustVars, caVars, active, trust, material,
                       version, failures>>

\* (variant: only a release of its own is deployed, not the active one again)
DeployNewOnly(j) ==
    /\ step[j] = "deploy"
    /\ \/ version[j]["release"] = active[j] /\ Accept(j)
       \/ version[j]["release"] # active[j] /\ Reset(j)
    /\ JobOnly

\* A release that is in place already is not deployed again.
Deploy(j) ==
    /\ step[j] = "deploy"
    /\ \/ Reported(j) /\ Wait(j, "compare")
       \/ ~Reported(j) /\ Reset(j)
    /\ JobOnly

Compare(j) ==
    /\ step[j] = "compare"
    /\ \/ Presented(j) /\ Accept(j)
       \/ ~Presented(j) /\ Reset(j)
    /\ JobOnly

\* After a reset both are read again and again, until ...
Verify(j) ==
    /\ step[j] = "wait"
    /\ Reported(j)
    /\ Wait(j, "probe")
    /\ JobOnly

Probe(j) ==
    /\ step[j] = "probe"
    /\ \/ Presented(j) /\ Accept(j)
       \/ ~Presented(j) /\ Wait(j, "wait")
    /\ JobOnly

Deployed(j) == Reported(j) /\ Presented(j)

\* A boot that takes longer than the deadline allows, or that ends just after
\* the last look, is one of the failures.
TooLate(j) == IF vm = "done" /\ ~Deployed(j) THEN UNCHANGED failures ELSE Injected

\* (variant: the versions are pruned all the same)
TimeoutThenPrune(j) ==
    /\ step[j] = "wait"
    /\ TooLate(j)
    /\ Goto(j, "prune_cert")
    /\ UNCHANGED <<secretVars, trustVars, caVars, active, trust, material,
                   version, verified, EdgeVars>>

\* ... the deadline passes.
DeployTimeout(j) ==
    /\ step[j] = "wait"
    /\ TooLate(j)
    /\ Exit(j)
    /\ UNCHANGED <<secretVars, trustVars, caVars, active, trust, verified,
                   EdgeVars>>

\* Destroy the versions below the retained one, one call each.
Versions(s)     == 1..(IF s = "release" THEN Newest ELSE Latest(s))
\* (variant: the retained one goes too)
PrunableRetained(j, s) == {v \in Versions(s) : v <= version[j][s]} \ gone[s]

Prunable(j, s)  == {v \in Versions(s) : v < version[j][s]} \ gone[s]

Prune(j, s, from, to) ==
    /\ step[j] = from
    /\ \/ /\ \E v \in Prunable(j, s) :
               gone' = [gone EXCEPT ![s] = @ \cup {v}]
          /\ UNCHANGED step
       \/ /\ Prunable(j, s) = {}
          /\ Goto(j, to)
          /\ UNCHANGED gone
    /\ UNCHANGED <<payload, releases, trustVars, caVars, active, trust,
                   material, version, verified, EdgeVars, failures>>

PruneCert(j)    == Prune(j, "cert", "prune_cert", "prune_key")
PruneKey(j)     == Prune(j, "key", "prune_key", "prune_state")
PruneState(j)   == Prune(j, "state", "prune_state", "prune_release")
PruneRelease(j) == Prune(j, "release", "prune_release", "idle")

\* A call fails, or the execution is killed; nothing is undone.
Fail(j) ==
    /\ step[j] # "idle"
    /\ Injected
    /\ Exit(j)
    /\ UNCHANGED <<secretVars, trustVars, caVars, active, trust, verified,
                   EdgeVars>>

JobStep(j) ==
    \/ ReadActive(j) \/ ReadTrust(j) \/ CheckActive(j) \/ ReadState(j)
    \/ Certbot(j) \/ CertbotRefused(j) \/ Candidate(j)
    \/ AddCert(j) \/ AddKey(j) \/ AddState(j) \/ AddRelease(j)
    \/ Deploy(j) \/ Compare(j) \/ Verify(j) \/ Probe(j) \/ DeployTimeout(j)
    \/ PruneCert(j) \/ PruneKey(j) \/ PruneState(j) \/ PruneRelease(j)

(***************************************************************************)
(* The clock and the operator.                                             *)
(***************************************************************************)

\* A certificate crosses its renewal threshold.
Age(m) ==
    /\ m \in issued \ due
    /\ due' = due \cup {m}
    /\ UNCHANGED <<secretVars, trustVars, issued, jobVars, EdgeVars, failures>>

ChangeProfile(p) ==
    /\ p # profile
    /\ cutovers < MaxCutovers
    /\ cutovers' = cutovers + 1
    /\ profile' = p
    /\ UNCHANGED <<secretVars, readiness, approved, caVars, jobVars, EdgeVars,
                   failures>>

\* Every required vehicle has synchronized: the operator approves a profile.
Approve(p) ==
    /\ readiness # p
    /\ readiness' = p
    /\ approved' = approved \cup {p}
    /\ UNCHANGED <<secretVars, profile, cutovers, caVars, jobVars, EdgeVars,
                   failures>>

Next ==
    \/ \E j \in Jobs : JobStep(j) \/ Fail(j)
    \/ Edge \/ Reboot
    \/ \E m \in Materials : Age(m)
    \/ \E p \in Profiles : ChangeProfile(p) \/ Approve(p)

\* The schedule keeps starting executions, and a boot runs to its end.
Fairness == (\A j \in Jobs : WF_vars(JobStep(j))) /\ WF_vars(Edge)

Spec == Init /\ [][Next]_vars /\ Fairness

(***************************************************************************)
(* Properties.                                                             *)
(***************************************************************************)

\* A manifest is the atomic activation boundary: the versions it names hold
\* one and the same certificate, the one whose hashes it records, however
\* executions interleave their additions.
ActivationConsistent ==
    \A i \in 1..Newest :
        LET r == releases[i]
        IN /\ payload["cert"][r.cert] = r.leaf
           /\ payload["key"][r.key] = r.leaf
           /\ payload["state"][r.state] = r.leaf

\* No release is written for a trust profile whose cutover was never approved.
CutoversApproved == \A i \in 1..Newest : releases[i].trust \in approved

\* A single execution at a time never destroys what the newest manifest names.
NewestReleaseIntact == Newest > 0 => Installable(Newest)

\* Until a newer release is verified, the last verified one can be restored:
\* its manifest, certificate and key are still there.
LastVerifiedIntact ==
    verified > 0 => verified \notin gone["release"] /\ Installable(verified)

\* The pair the VM falls back to is the one last seen healthy there.
RollbackRestoresHealthy ==
    vm = "rollback" /\ lastHealthy # None => tls = lastHealthy

\* Once the operator has approved the configured profile for good, while its
\* bundle accepts what the CA issued and the CA still has certificates to issue
\* (Materials is a bound), the endpoint
\* ends up presenting the newest release, not due, and stays there: no failed
\* or killed execution, failed boot or renewal leaves the job unable to go on.
Renewed ==
    /\ Newest > 0
    /\ status = Newest
    /\ serving = releases[Newest].leaf
    /\ serving \notin due

EventuallyRenewed ==
    /\ [](issued # Materials)
    /\ <>[](readiness = profile /\ issued \subseteq Trusts[profile])
    => <>[]Renewed

\* No two executions run at once, as when each ends before the schedule starts
\* the next.
OneAtATime ==
    \A i, j \in Jobs : step[i] # "idle" /\ step[j] # "idle" => i = j
=============================================================================
