---------------------------- MODULE VllmInstall ----------------------------
(***************************************************************************)
(* Installation of the vLLM environment by the vLLM companion              *)
(* (internal/vllm): one initialization job in memory and on disk, worker   *)
(* goroutines that authorize a manifest, pick a profile, stage, install,   *)
(* smoke-test, promote and activate an environment, and the recovery of    *)
(* the job after a crash. The environment of a profile is named by the     *)
(* profile: environmentID hashes the whole profile and the digest.         *)
(***************************************************************************)
EXTENDS Naturals, FiniteSets, Sequences

CONSTANTS VmProfiles,        \* profiles of the authorized manifest, valid or not
          VmDetections,      \* what Detect may find: records [dev, pre]
          VmRequests,        \* profiles a client asks for, "auto" or an ID
          VmAllowUnverified, \* --allow-unverified-install
          VmMaxWorkers,      \* StartInitialization creates a job while fewer workers were started
          VmMaxFaults        \* crashes, closes and failed writes, each

VARIABLES vm,  \* the Manager: job, active, worker, closed, up
          vd,  \* the disk: job file, active file, environments, staging
          vw,  \* the workers, in the order they were started
          vf   \* faults left, per kind

vmvars == <<vm, vd, vw, vf>>

NoEnv == "none"
NoJob == [id |-> 0, state |-> "none", prof |-> NoEnv, signed |-> FALSE]
Pending == {"queued", "running"}

(***************************************************************************)
(* The manifest and the profile                                            *)
(***************************************************************************)
\* The synthesized profile of UnverifiedManifestSource: no artifacts, every device.
UnverifiedProfile == [id |-> "unverified", method |-> "pypi", devs |-> {"cpu", "cuda", "rocm"},
                      prio |-> 0, needs |-> {}, roles |-> {}, image |-> FALSE]

\* validateArtifactRoles: the artifact roles an install method may carry.
validateArtifactRoles(p) ==
    p.roles \subseteq CASE p.method = "oci"    -> {"oci", "smoke_model"}
                        [] p.method = "wheel"  -> {"python", "uv", "vllm", "plugin", "dependency", "smoke_model"}
                        [] p.method = "source" -> {"python", "uv", "source", "plugin", "dependency", "smoke_model"}
                        [] OTHER -> {}
validateProfilePlatforms(p) == p.method \in {"wheel", "source", "oci"} /\ p.devs # {}
validatePackageProfileArtifacts(p) ==
    /\ ~p.image /\ "python" \in p.roles
    /\ p.method = "wheel" => "vllm" \in p.roles
    /\ p.method = "source" => {"source"} \subseteq p.roles /\ "compiler" \in p.needs
validateOCIProfileArtifacts(p) == "oci" \in p.roles /\ p.image /\ "container_engine" \in p.needs
validateProfileArtifacts(p) ==
    /\ validateArtifactRoles(p)
    /\ "smoke_model" \in p.roles
    /\ IF p.method = "oci" THEN validateOCIProfileArtifacts(p) ELSE validatePackageProfileArtifacts(p)
ValidateManifest == \A p \in VmProfiles : validateProfilePlatforms(p) /\ validateProfileArtifacts(p)

\* TUFManifestSource.Load: a verified manifest, verified metadata that names no manifest
\* (ErrManifestNotPublished), or any other failure: unreachable, expired, invalid.
LoadTUF == {"unpublished", "error"} \cup IF ValidateManifest THEN {"tuf"} ELSE {}
EmbeddedManifest == {"unpublished", "error"} \cup IF ValidateManifest THEN {"embedded"} ELSE {}
LoadUnverified == IF VmAllowUnverified THEN {"unverified"} ELSE {"error"}

\* Mutant: any failure falls through to the next source.
ResolveAnyFailure(tuf, embedded, unverified) ==
    IF tuf = "tuf" THEN tuf ELSE IF embedded = "embedded" THEN embedded ELSE unverified

\* FallbackManifestSource.Resolve, twice: the next source answers only for a manifest that
\* was not published; every other failure is final.
Resolve(tuf, embedded, unverified) ==
    IF tuf # "unpublished" THEN tuf
    ELSE IF embedded # "unpublished" THEN embedded ELSE unverified
Manifest(trust) == IF trust = "unverified" THEN {UnverifiedProfile} ELSE VmProfiles

detectedAccelerators(d) == d.dev \ {"cpu"}
incompatible(p, d) == p.devs \cap d.dev = {} \/ ~(p.needs \subseteq d.pre)
\* profileMatchesHost: with an accelerator on the host a CPU profile is not a candidate.
profileMatchesHost(p, d) ==
    IF detectedAccelerators(d) # {} THEN p.devs \cap detectedAccelerators(d) # {} ELSE "cpu" \in p.devs
autoProfileCandidates(ps, d) == {p \in ps : profileMatchesHost(p, d) /\ p.needs \subseteq d.pre}
selectRequestedProfile(ps, req, d) == {p \in ps : p.id = req /\ ~incompatible(p, d)}
\* SelectProfile: the requested profile if the host can run it, else the candidate of
\* highest priority; the empty set is an error. Profile IDs are distinct: the tie on the
\* ID is left open.
SelectProfile(ps, req, d) ==
    IF req # "auto" THEN selectRequestedProfile(ps, req, d)
    ELSE LET c == autoProfileCandidates(ps, d) IN {p \in c : \A q \in c : q.prio <= p.prio}

-----------------------------------------------------------------------------
(***************************************************************************)
(* The job record                                                          *)
(***************************************************************************)
Workers == 1..Len(vw)
Alive(w) == vw[w].pc # "done"
\* The job of worker w is still the manager's and was not cancelled.
Mine(w) == vm.job.id = vw[w].job /\ vm.job.state # "cancelled"

\* writeJSONAtomic may fail while faults are left, and then leaves the old file.
Written == {TRUE} \cup IF vf.writes > 0 THEN {FALSE} ELSE {}
Spend(ok) == IF ok THEN vf ELSE [vf EXCEPT !.writes = @ - 1]

\* clearWorkerLocked(jobID, cancel) on the workers: cancel the registered one if it is j's.
CancelWorker(ws, j) ==
    IF vm.worker # 0 /\ ws[vm.worker].job = j THEN [ws EXCEPT ![vm.worker].ctx = FALSE] ELSE ws
WorkerAfter(j) == IF vm.worker # 0 /\ vw[vm.worker].job = j THEN 0 ELSE vm.worker

\* failJobPersistenceLocked: the job fails in memory and its worker is cancelled.
failJobPersistence(j) == [vm EXCEPT !.job.state = "failed", !.worker = WorkerAfter(j)]

NewWorker(j, req) == [job |-> j, pc |-> "authorizing", ctx |-> TRUE, req |-> req, prof |-> UnverifiedProfile,
                      trust |-> "none", tuf |-> "none", found |-> [dev |-> {}, pre |-> {}], tested |-> FALSE, torch |-> "none"]
Gone == [NewWorker(0, "auto") EXCEPT !.pc = "done"]
Exit(ws, w) == [ws EXCEPT ![w] = Gone]
\* The deferred removeOwnedDirectory of the worker's staging directory.
Unstage(disk, w) == [disk EXCEPT !.stage = @ \ {vw[w].job}]

\* finishJob(state), then the worker returns.
finishJob(w, state) ==
    \/ /\ ~Mine(w)
       /\ vw' = Exit(vw, w) /\ vd' = Unstage(vd, w) /\ UNCHANGED <<vm, vf>>
    \/ /\ Mine(w)
       /\ \E ok \in Written :
            LET new == [vm.job EXCEPT !.state = state] IN
            /\ vf' = Spend(ok)
            /\ vm' = IF ok THEN [vm EXCEPT !.job = new, !.worker = WorkerAfter(vw[w].job)]
                     ELSE failJobPersistence(vw[w].job)
            /\ vw' = Exit(IF ok THEN vw ELSE CancelWorker(vw, vw[w].job), w)
            /\ vd' = Unstage(IF ok THEN [vd EXCEPT !.job = new] ELSE vd, w)
finishJobFromContext(w) == finishJob(w, IF vw[w].ctx THEN "failed" ELSE "cancelled")

\* The phases entered through updateJob, and the work that follows each.
Phase == [authorizing |-> "authorize", detecting |-> "detect", downloading |-> "download",
          installing |-> "install", smoke_testing |-> "smoke", promoting |-> "promote"]

\* updateJob: refuse when the job was cancelled or replaced, else save it as running; a
\* failed save fails the job and ends the worker.
updateJob(w) ==
    /\ vw[w].pc \in DOMAIN Phase
    /\ \/ /\ ~Mine(w)
          /\ vw' = Exit(vw, w) /\ vd' = Unstage(vd, w) /\ UNCHANGED <<vm, vf>>
       \/ /\ Mine(w)
          /\ \E ok \in Written :
               LET new == [vm.job EXCEPT !.state = "running"] IN
               /\ vf' = Spend(ok)
               /\ vm' = IF ok THEN [vm EXCEPT !.job = new] ELSE failJobPersistence(vw[w].job)
               /\ vd' = IF ok THEN [vd EXCEPT !.job = new] ELSE Unstage(vd, w)
               /\ vw' = IF ok THEN [vw EXCEPT ![w].pc = Phase[@]]
                        ELSE Exit(CancelWorker(vw, vw[w].job), w)

To(w, pc) == vw' = [vw EXCEPT ![w].pc = pc]

-----------------------------------------------------------------------------
(***************************************************************************)
(* A worker                                                                *)
(***************************************************************************)
ResolveManifest(w) ==
    /\ vw[w].pc = "authorize"
    /\ \E t \in LoadTUF, e \in EmbeddedManifest, u \in LoadUnverified :
         LET trust == Resolve(t, e, u) IN
         IF trust \in {"tuf", "embedded", "unverified"} /\ vw[w].ctx
         THEN /\ vw' = [vw EXCEPT ![w].pc = "detecting", ![w].trust = trust, ![w].tuf = t]
              /\ UNCHANGED <<vm, vd, vf>>
         ELSE finishJobFromContext(w)

\* Detect and SelectProfile; a PyPI profile is narrowed to the devices of the host.
Detect(w) ==
    /\ vw[w].pc = "detect"
    /\ \/ finishJobFromContext(w)
       \/ \E d \in VmDetections : \E p \in SelectProfile(Manifest(vw[w].trust), vw[w].req, d) :
            /\ vw' = [vw EXCEPT ![w].pc = "select", ![w].found = d,
                                ![w].prof = IF p.method = "pypi" THEN [p EXCEPT !.devs = d.dev] ELSE p]
            /\ UNCHANGED <<vm, vd, vf>>

\* The profile and the digest are saved with the job before anything is installed.
SaveSelection(w) ==
    /\ vw[w].pc = "select"
    /\ IF ~Mine(w) THEN vw' = Exit(vw, w) /\ UNCHANGED <<vm, vd, vf>>
       ELSE \E ok \in Written :
              LET new == [vm.job EXCEPT !.prof = vw[w].prof.id, !.signed = TRUE] IN
              /\ vf' = Spend(ok)
              /\ vm' = IF ok THEN [vm EXCEPT !.job = new] ELSE [failJobPersistence(vw[w].job) EXCEPT !.job.prof = new.prof, !.job.signed = TRUE]
              /\ vd' = IF ok THEN [vd EXCEPT !.job = new] ELSE vd
              /\ vw' = IF ok THEN [vw EXCEPT ![w].pc = "stage"] ELSE Exit(CancelWorker(vw, vw[w].job), w)

StageInitialization(w) ==
    /\ vw[w].pc = "stage"
    /\ vd' = [vd EXCEPT !.stage = @ \cup {vw[w].job}]
    /\ To(w, "downloading") /\ UNCHANGED <<vm, vf>>

\* Work that succeeds only on a live context, and otherwise ends the job.
Succeeds(w, next) == \/ vw[w].ctx /\ To(w, next) /\ UNCHANGED <<vm, vd, vf>>
                     \/ finishJobFromContext(w)

\* Each artifact is downloaded, bounded by its signed size, and its digest is verified.
DownloadVerified(w) == Succeeds(w, "installing")
downloadArtifacts(w) == vw[w].pc = "download" /\ DownloadVerified(w)

HasArtifacts(w, roles) == roles \subseteq vw[w].prof.roles
\* artifactPathByRole fails for a role the profile lacks; validateProfile excludes it.
installPackages(w) ==
    /\ vw[w].prof.method \in {"wheel", "source"}
    /\ IF HasArtifacts(w, {"smoke_model", "python"}) /\ vw[w].prof.roles \cap {"vllm", "source"} # {}
       THEN Succeeds(w, "smoke_testing") ELSE finishJobFromContext(w)
installOCI(w) ==
    /\ vw[w].prof.method = "oci"
    /\ IF HasArtifacts(w, {"smoke_model", "oci"}) THEN Succeeds(w, "smoke_testing") ELSE finishJobFromContext(w)
\* PyPI decides which torch build is installed.
installFromPyPI(w) ==
    /\ vw[w].prof.method = "pypi"
    /\ \/ \E torch \in {"cuda", "rocm"} :
            /\ vw[w].ctx
            /\ vw' = [vw EXCEPT ![w].pc = "smoke_testing", ![w].torch = torch]
            /\ UNCHANGED <<vm, vd, vf>>
       \/ finishJobFromContext(w)
Install(w) == vw[w].pc = "install" /\ (installPackages(w) \/ installOCI(w) \/ installFromPyPI(w))

\* checkUnverifiedAccelerator: the installed torch must be the one for the host's device.
checkUnverifiedAccelerator(w) ==
    /\ "rocm" \in vw[w].prof.devs => vw[w].torch = "rocm"
    /\ "cuda" \in vw[w].prof.devs => vw[w].torch = "cuda"
\* testNativeServing and testOCIServing: a server over the staged smoke model must answer.
launchAndProbeSmoke(w) ==
    /\ vw[w].ctx
    /\ vw' = [vw EXCEPT ![w].pc = "promoting", ![w].tested = TRUE]
    /\ UNCHANGED <<vm, vd, vf>>
\* The smoke test, the context check after it, and the environment marker.
SmokeTest(w) ==
    /\ vw[w].pc = "smoke"
    /\ \/ (vw[w].prof.method = "pypi" => checkUnverifiedAccelerator(w)) /\ launchAndProbeSmoke(w)
       \/ finishJobFromContext(w)

\* What a tested environment promises: the torch of an unverified install fits its host.
TorchFits(r) == r.prof.method = "pypi" => r.prof.devs \cap {"rocm", "cuda"} \subseteq {r.torch}
\* promoteEnvironment keeps an environment that is already there, else renames the stage.
promoteEnvironment(w) ==
    /\ vw[w].pc = "promote"
    /\ \/ finishJob(w, "failed")
       \/ /\ vd' = IF \E e \in vd.envs : e.id = vw[w].prof.id THEN vd
                   ELSE [vd EXCEPT !.envs = @ \cup {[id |-> vw[w].prof.id, tested |-> vw[w].tested /\ TorchFits(vw[w])]}]
          /\ To(w, "activate") /\ UNCHANGED <<vm, vf>>

\* The last critical section: the active file first, then the job.
Activate(w) ==
    /\ vw[w].pc = "activate"
    /\ IF ~Mine(w) \/ ~vw[w].ctx
       THEN vw' = Exit(vw, w) /\ vd' = Unstage(vd, w) /\ UNCHANGED <<vm, vf>>
       ELSE \/ \E ok \in Written :
                 LET new == [vm.job EXCEPT !.state = "completed"]
                     on  == [vd EXCEPT !.active = vw[w].prof.id] IN
                 /\ vf' = Spend(ok)
                 /\ vm' = [vm EXCEPT !.job = new, !.active = vw[w].prof.id, !.worker = WorkerAfter(vw[w].job)]
                 /\ vd' = Unstage(IF ok THEN [on EXCEPT !.job = new] ELSE on, w)
                 /\ vw' = Exit(vw, w)
            \/ vf.writes > 0 /\ finishJob(w, "failed")

WorkerStep(w) == /\ vm.up
                 /\ \/ updateJob(w) \/ ResolveManifest(w) \/ Detect(w) \/ SaveSelection(w)
                    \/ StageInitialization(w) \/ downloadArtifacts(w) \/ Install(w)
                    \/ SmokeTest(w) \/ promoteEnvironment(w) \/ Activate(w)

-----------------------------------------------------------------------------
(***************************************************************************)
(* The manager                                                             *)
(***************************************************************************)
\* StartInitialization checks closed under its first lock only: with late, Close has run
\* between its two critical sections.
StartInitialization(req, late) ==
    /\ vm.up /\ (~vm.closed \/ late) /\ (late => vm.closed)
    /\ vm.job.state \notin Pending /\ Len(vw) < VmMaxWorkers
    /\ \E ok \in Written :
         LET new == [id |-> Len(vw) + 1, state |-> "queued", prof |-> req, signed |-> FALSE] IN
         /\ vf' = Spend(ok)
         /\ vm' = [vm EXCEPT !.job = IF ok THEN new ELSE NoJob, !.worker = IF ok THEN Len(vw) + 1 ELSE @]
         /\ vd' = IF ok THEN [vd EXCEPT !.job = new] ELSE vd
         /\ vw' = IF ok THEN Append(vw, NewWorker(new.id, req)) ELSE vw

CancelInitialization ==
    /\ vm.up /\ vm.job.state \in Pending
    /\ LET new == [vm.job EXCEPT !.state = "cancelled"] IN
       /\ vm' = [vm EXCEPT !.job = new, !.worker = WorkerAfter(vm.job.id)]
       /\ vd' = [vd EXCEPT !.job = new]
       /\ vw' = CancelWorker(vw, vm.job.id)
    /\ UNCHANGED vf

Close ==
    /\ vm.up /\ ~vm.closed
    /\ vm' = [vm EXCEPT !.closed = TRUE, !.worker = 0]
    /\ vw' = IF vm.worker # 0 THEN [vw EXCEPT ![vm.worker].ctx = FALSE] ELSE vw
    /\ UNCHANGED <<vd, vf>>

\* The process ends: after Close (its wait for the workers is bounded by closeWait, so
\* some may still run) or by a crash.
ProcessEnds ==
    /\ vm.up /\ vf.crashes > 0
    /\ vm' = [vm EXCEPT !.up = FALSE, !.worker = 0]
    /\ vw' = [w \in Workers |-> Gone]
    /\ vf' = [vf EXCEPT !.crashes = @ - 1] /\ UNCHANGED vd

\* loadPersistentState: an active environment that does not validate is dropped; a pending
\* job whose profile and digest are those of the active environment was completed.
Recovered(disk) ==
    LET active == IF \E e \in disk.envs : e.id = disk.active THEN disk.active ELSE NoEnv IN
    [active |-> active,
     job |-> IF disk.job.state \in Pending /\ disk.job.signed /\ active # NoEnv /\ disk.job.prof = active
             THEN [disk.job EXCEPT !.state = "completed"] ELSE disk.job]
\* NewManager and resumeInitialization: a pending job starts again from the manifest, for
\* the profile it had selected, in a cleared staging directory.
Restart ==
    /\ ~vm.up
    /\ LET r == Recovered(vd) IN
       /\ vd' = [vd EXCEPT !.job = r.job, !.stage = IF r.job.state \in Pending THEN @ \ {r.job.id} ELSE @]
       /\ vw' = IF r.job.state \in Pending THEN Append(vw, NewWorker(r.job.id, r.job.prof)) ELSE vw
       /\ vm' = [job |-> r.job, active |-> r.active, closed |-> FALSE, up |-> TRUE,
                 worker |-> IF r.job.state \in Pending THEN Len(vw) + 1 ELSE 0]
    /\ UNCHANGED vf

Init == /\ vm = [job |-> NoJob, active |-> NoEnv, worker |-> 0, closed |-> FALSE, up |-> TRUE]
        /\ vd = [job |-> NoJob, active |-> NoEnv, envs |-> {}, stage |-> {}]
        /\ vw = <<>>
        /\ vf = [crashes |-> VmMaxFaults, writes |-> VmMaxFaults]

Next == \/ \E w \in Workers : WorkerStep(w)
        \/ \E req \in VmRequests, late \in BOOLEAN : StartInitialization(req, late)
        \/ CancelInitialization \/ Close \/ ProcessEnds \/ Restart

Spec == Init /\ [][Next]_vmvars

-----------------------------------------------------------------------------
(***************************************************************************)
(* Properties                                                              *)
(***************************************************************************)
\* The active environment, in memory and on disk, exists and passed its smoke test.
ActiveIsTested ==
    \A a \in {vd.active, vm.active} \ {NoEnv} : \E e \in vd.envs : e.id = a /\ e.tested

\* A completed job has its environment active, in memory and, once saved, on disk.
CompletedIsActive ==
    /\ vm.up /\ vm.job.state = "completed" => vm.active = vm.job.prof
    /\ vd.job.state = "completed" => vd.active = vd.job.prof

\* A pending job of an open manager has its registered worker, and no two workers act on
\* the manager's job.
OneWorkerPerJob ==
    /\ vm.up /\ ~vm.closed /\ vm.job.state \in Pending =>
         vm.worker # 0 /\ vw[vm.worker].job = vm.job.id /\ Alive(vm.worker)
    /\ vm.up => Cardinality({w \in Workers : Alive(w) /\ Mine(w) /\ vm.job.state \in Pending}) <= 1

\* An unverified environment only when the operator allowed it and the signed repository
\* answered that nothing is published.
UnverifiedOnlyIfUnpublished ==
    \A w \in Workers : vw[w].trust = "unverified" => VmAllowUnverified /\ vw[w].tuf = "unpublished"

\* An automatic choice never gives a host that has an accelerator a profile without it.
AutoKeepsAccelerator ==
    \A w \in Workers : vw[w].req = "auto" /\ detectedAccelerators(vw[w].found) # {} =>
        vw[w].prof.devs \cap detectedAccelerators(vw[w].found) # {}

VllmInstallSafe == /\ ActiveIsTested /\ CompletedIsActive /\ OneWorkerPerJob
                   /\ UnverifiedOnlyIfUnpublished /\ AutoKeepsAccelerator

=============================================================================
