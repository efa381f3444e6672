----------------------------- MODULE MCProgress -----------------------------
(***************************************************************************)
(* What must eventually happen, for TLC: small instances of the components *)
(* with the fairness their goroutines, timers and tickers justify.         *)
(*                                                                         *)
(* As in MCSupply, part says which component a behaviour is about and the  *)
(* variables of the others are off.  The fairness conditions are those of  *)
(* the components, each required of the part it belongs to.                *)
(***************************************************************************)
EXTENDS Integers, Sequences, FiniteSets

VARIABLES part,
    pc, depth, pending, admitted, result, recheck, requeued, preemption, lent, lease, due, dispatching, slots,
    cpProc, cpDone, cpPending, cpWire, cpCall, cpReply, cpWatch, cpCurrent, cpClosing, cpQueue, cpWake,
    cpDeliver, cpHandler, cpEvents, cpSub,
    vm, vd, vw, vf,
    vr, vchild, vsock, vcall,
    kl, klm, klp, kld,
    maconf, madisk, maidx, majob, mapull, macall, mahist,
    nrt, nrpool, nrreq, nrset, nrop, nrback,
    cr, crs, crf, crq,
    lb, lbn, lbe, lbr, lbx,
    tbq, tbused, tbfault,
    bmr, bmm, bmstore, bmend,
    rq, rpserver, rpkept, rptime

Off == "off"

-----------------------------------------------------------------------------
\* Three own requests, one pinned to the node, one slot here and one at the helper.
Lending == INSTANCE LendingQueue WITH
    Jobs <- {"n1", "n2", "n3"}, Borrowed <- {}, Streaming <- {"n3"}, Models <- {"x", "y"}, Owners <- {"x"},
    ModelOf <- [n1 |-> "x", n2 |-> "x", n3 |-> "x"], NoModel <- "none", MaxDepth <- 1, MaxSlots <- 1

Companion == INSTANCE DownloadCompanion WITH
    CpCalls <- {"c1"}, MaxGenerations <- 2, MaxArtifacts <- 1, MaxPolls <- 1

Install == INSTANCE VllmInstall WITH
    VmProfiles <- {[id |-> "cpu", method |-> "oci", devs |-> {"cpu"}, prio |-> 1, needs |-> {"container_engine"},
                    roles |-> {"oci", "smoke_model"}, image |-> TRUE]},
    VmDetections <- {[dev |-> {"cpu"}, pre |-> {"container_engine"}]}, VmRequests <- {"auto"},
    VmAllowUnverified <- TRUE, VmMaxWorkers <- 1, VmMaxFaults <- 1

Vllm == INSTANCE VllmRuntime WITH VrConfigs <- {"a", "b"}, VrMaxChildren <- 2, VrMaxOps <- 1

Kobold == INSTANCE KoboldLoad WITH
    KlConfigs <- [a |-> {"textmodel", "gendefaults", "usecuda"}], KlExtra <- {"quiet"}, KlOwnsDefaults <- TRUE,
    KlMaxLoads <- 1, KlMaxStarts <- 1

Assets == INSTANCE ModelAssets WITH
    MaConfigs <- {"c1", "c2"}, MaRefs <- [c1 |-> [hash |-> "h", name |-> "n1"], c2 |-> [hash |-> "h", name |-> "n2"]],
    MaHashes <- {"h"}, MaNames <- {"n1", "n2"}, MaCallers <- {"k1", "k2"}, MaPeers <- {"p"},
    MaSize <- 1, MaSlots <- 1, MaMaxFaults <- 1, MaMaxEdits <- 0, MaMaxCrashes <- 0

Benchmarks == INSTANCE BenchmarkRuns WITH
    BmRuns <- {"k1", "k2"}, BmSections <- <<"runtime", "llm">>, BmHas <- {"llm"},
    BmHistoryLimit <- 2, BmOptionKeys <- {"k1"}, BmMaxEdits <- 0, BmMaxFaults <- 1

Runtimes == INSTANCE NodeRuntimes WITH
    NrConfigs <- {"a", "b"}, NrLane <- [a |-> "text", b |-> "text"], NrRequests <- {"r1", "r2"},
    NrOperators <- {"o1"}, NrToggled <- {"a"}, NrSelections <- {{}, {"text"}},
    NrSeparate <- {{}}, NrLimit <- 1, NrMaxEntries <- 2, NrMaxSettings <- 0

ModelA(hash, off) == [id |-> <<1>>, hash |-> hash, off |-> off, caps |-> {"voice"}]
Registry == INSTANCE ClusterRegistry WITH
    CrUrls <- <<"u1", "u2">>, CrIds <- [u1 |-> {"n1"}, u2 |-> {"n2", "n1"}], CrWidth <- 2, CrRank <- [n1 |-> 2, n2 |-> 4],
    CrCatalogs <- [u1 |-> {<<ModelA(<<1, 1>>, FALSE)>>, <<>>},
                   u2 |-> {<<ModelA(<<1, 2>>, FALSE)>>, <<ModelA(<<1, 1>>, FALSE)>>}],
    CrUnauthorized <- {}, CrLocals <- {<<ModelA(<<1, 1>>, FALSE)>>}, CrRequests <- {},
    CrMaxChanges <- 1, CrMaxUpdates <- 1, CrMaxCalls <- 0

PerNode(m, s, h) == [m |-> m, s |-> s, h |-> h]
\* A link is removed while its owner may hold a lease; links and settings
\* change while a delivery is lost.
TheLink == {[o |-> "s", h |-> "m", load |-> TRUE]}
LbWindowMC == PerNode(1, 2, 2)
LbRankMC == PerNode(1, 3, 2)
LbJobMC == PerNode(0, 3, 1)
LbServiceMC == PerNode(1, 0, 0)
LbLoadMC == PerNode(1, 0, 1)
LbRestoreMC == PerNode(0, 0, 0)
LbSlotsMC == [faster |-> 2, slower |-> 1, probe |-> 1]
LbOwnersMC == [r2 |-> {"s"}]
LbSizeMC == [r2 |-> 1]
Broker(slaves, reqs, edits, settings, losses) == INSTANCE LendingBroker WITH
    LbMaster <- "m", LbSlaves <- slaves, LbLinks <- TheLink, LbStored <- TheLink, LbReqs <- reqs,
    LbReqOwners <- LbOwnersMC, LbReqSize <- LbSizeMC,
    LbWindow <- LbWindowMC, LbRank <- LbRankMC, LbJob <- LbJobMC,
    LbService <- LbServiceMC, LbLoad <- LbLoadMC, LbRestore <- LbRestoreMC,
    LbRestoreUnpriced <- {}, LbSwitches <- {"m"}, LbProbeIdle <- 1, LbUnloadedFactor <- 1, LbMaxIdle <- 1,
    LbTtl <- 1, LbSlots <- LbSlotsMC,
    LbMaxEdits <- edits, LbMaxSettings <- settings, LbMaxBusy <- 0, LbMaxRestarts <- 0, LbMaxLosses <- losses

Bodies == INSTANCE TransportBody WITH
    TbRequests <- {"r1"}, TbSizes <- {3, 4},
    TbRoutes <- {[lane |-> "text", source |-> "registry", remote |-> TRUE, fault |-> "none"],
                 [lane |-> "image", source |-> "catalog", remote |-> FALSE, fault |-> "none"]},
    ReplayBufferBytes <- 2, SelectorScanBytes <- 1, MaxRequestBytes <- 3, MemoryBudgetBytes <- 6,
    ReplayChunk <- 2, TransformationWorkingSet <- 1, TbMaxAborts <- 1

Asks(lane, path) ==
    [lane |-> lane, target |-> "registry", path |-> path, config |-> "a",
     borrowed |-> "no", picture |-> "none", stream |-> FALSE]
Path == INSTANCE RequestPath WITH
    RpRequests <- {"r1"},
    RpShapes <- [r1 |-> {[Asks("text", "core") EXCEPT !.picture = "learned"],
                         [Asks("text", "responses") EXCEPT !.borrowed = "keep"],
                         [Asks("text", "core") EXCEPT !.picture = "known", !.stream = TRUE],
                         Asks("image", "jobs"), Asks("audio", "other")}],
    RpGuardian <- "g", RpInference <- 1, RpReadiness <- 2, RpKeepLimit <- 1, RpLifetime <- 1,
    RpMaxTime <- 0, RpMaxCrashes <- 1

-----------------------------------------------------------------------------
lqvars == <<pc, depth, pending, admitted, result, recheck, requeued, preemption, lent, lease, due, dispatching, slots>>
cpVars == <<cpProc, cpDone, cpPending, cpWire, cpCall, cpReply, cpWatch, cpCurrent, cpClosing, cpQueue,
            cpWake, cpDeliver, cpHandler, cpEvents, cpSub>>
vmvars == <<vm, vd, vw, vf>>
vrvars == <<vr, vchild, vsock, vcall>>
klvars == <<kl, klm, klp, kld>>
mavars == <<maconf, madisk, maidx, majob, mapull, macall, mahist>>
nrvars == <<nrt, nrpool, nrreq, nrset, nrop, nrback>>
crvars == <<cr, crs, crf, crq>>
lbvars == <<lb, lbn, lbe, lbr, lbx>>
tbvars == <<tbq, tbused, tbfault>>
bmvars == <<bmr, bmm, bmstore, bmend>>
rpvars == <<rq, rpserver, rpkept, rptime>>
vars == <<part, lqvars, cpVars, vmvars, vrvars, klvars, mavars, nrvars, crvars, lbvars, tbvars,
          bmvars, rpvars>>

Parts == {"lending", "companion", "install", "vllm", "kobold", "assets", "benchmarks", "runtimes", "registry",
          "leases", "events", "links", "bodies", "path"}

Init ==
    /\ part \in Parts
    /\ IF part = "lending" THEN Lending!Init
       ELSE /\ pc = Off /\ depth = Off /\ pending = Off /\ admitted = Off /\ result = Off /\ recheck = Off
            /\ requeued = Off /\ preemption = Off /\ lent = Off /\ lease = Off /\ due = Off
            /\ dispatching = Off /\ slots = Off
    /\ IF part = "companion" THEN Companion!Init
       ELSE /\ cpProc = Off /\ cpDone = Off /\ cpPending = Off /\ cpWire = Off /\ cpCall = Off /\ cpReply = Off
            /\ cpWatch = Off /\ cpCurrent = Off /\ cpClosing = Off /\ cpQueue = Off /\ cpWake = Off
            /\ cpDeliver = Off /\ cpHandler = Off /\ cpEvents = Off /\ cpSub = Off
    /\ IF part = "install" THEN Install!Init ELSE vm = Off /\ vd = Off /\ vw = Off /\ vf = Off
    /\ IF part = "vllm" THEN Vllm!Init ELSE vr = Off /\ vchild = Off /\ vsock = Off /\ vcall = Off
    /\ IF part = "kobold" THEN Kobold!Init ELSE kl = Off /\ klm = Off /\ klp = Off /\ kld = Off
    /\ IF part = "assets" THEN Assets!Init
       ELSE /\ maconf = Off /\ madisk = Off /\ maidx = Off /\ majob = Off /\ mapull = Off
            /\ macall = Off /\ mahist = Off
    /\ IF part = "runtimes" THEN Runtimes!Init
       ELSE nrt = Off /\ nrpool = Off /\ nrreq = Off /\ nrset = Off /\ nrop = Off /\ nrback = Off
    /\ IF part = "registry" THEN Registry!Init ELSE cr = Off /\ crs = Off /\ crf = Off /\ crq = Off
    /\ IF part = "leases" THEN Broker({"s"}, {"r2"}, 1, 0, 0)!Init ELSE IF part = "events" THEN Broker({"s"}, {"r2"}, 0, 0, 1)!Init
       ELSE IF part = "links" THEN Broker({"s", "h"}, {}, 1, 1, 1)!Init
       ELSE lb = Off /\ lbn = Off /\ lbe = Off /\ lbr = Off /\ lbx = Off
    /\ IF part = "bodies" THEN Bodies!Init ELSE tbq = Off /\ tbused = Off /\ tbfault = Off
    /\ IF part = "benchmarks" THEN Benchmarks!Init ELSE bmr = Off /\ bmm = Off /\ bmstore = Off /\ bmend = Off
    /\ IF part = "path" THEN Path!RpInit ELSE rq = Off /\ rpserver = Off /\ rpkept = Off /\ rptime = Off

Others(p) ==
    /\ UNCHANGED part
    /\ (p # "lending" => UNCHANGED lqvars) /\ (p # "companion" => UNCHANGED cpVars)
    /\ (p # "install" => UNCHANGED vmvars) /\ (p # "vllm" => UNCHANGED vrvars)
    /\ (p # "kobold" => UNCHANGED klvars) /\ (p # "assets" => UNCHANGED mavars)
    /\ (p # "runtimes" => UNCHANGED nrvars) /\ (p # "registry" => UNCHANGED crvars)
    /\ (p \notin {"leases", "events", "links"} => UNCHANGED lbvars) /\ (p # "bodies" => UNCHANGED tbvars)
    /\ (p # "benchmarks" => UNCHANGED bmvars) /\ (p # "path" => UNCHANGED rpvars)

Next ==
    \/ part = "lending" /\ Lending!Next /\ Others("lending")
    \/ part = "companion" /\ Companion!Next /\ Others("companion")
    \/ part = "install" /\ Install!Next /\ Others("install")
    \/ part = "vllm" /\ Vllm!Next /\ Others("vllm")
    \/ part = "kobold" /\ Kobold!Next /\ Others("kobold")
    \/ part = "assets" /\ Assets!Next /\ Others("assets")
    \/ part = "runtimes" /\ Runtimes!Next /\ Others("runtimes")
    \/ part = "registry" /\ Registry!Next /\ Others("registry")
    \/ part = "leases" /\ Broker({"s"}, {"r2"}, 1, 0, 0)!Next /\ Others("leases")
    \/ part = "events" /\ Broker({"s"}, {"r2"}, 0, 0, 1)!Next /\ Others("events")
    \/ part = "links" /\ Broker({"s", "h"}, {}, 1, 1, 1)!Next /\ Others("links")
    \/ part = "bodies" /\ Bodies!Next /\ Others("bodies")
    \/ part = "benchmarks" /\ Benchmarks!Next /\ Others("benchmarks")
    \/ part = "path" /\ Path!RpNext /\ Others("path")

\* One after the other, what a waiting handler does for itself.
LentRequest(j) == Lending!Read(j) \/ Lending!ReleaseAbandoned(j) \/ Lending!Start(j) \/ Lending!Complete(j)
                  \/ Lending!Answered(j) \/ Lending!HandedBack(j) \/ Lending!Requeue(j)
CompanionOf(g) == Companion!finish(g) \/ (cpClosing = "client" /\ Companion!Exit(g))
RestoreOf(h)   == Runtimes!fireBorrowRestore(h) \/ Runtimes!RestoreNoted(h) \/ Runtimes!RestoreRefused(h)
                  \/ Runtimes!RestoreLoaded(h) \/ Runtimes!RestoreEnds(h)
UserOf(r)      == Runtimes!tryAcquireSeparateConfig(r) \/ Runtimes!noteBorrowRestoreActivity(r)
                  \/ Runtimes!FinishLoad(r) \/ Runtimes!applySeparateRuntimeTriggers(r) \/ Runtimes!Release(r)

\* The i-th goroutine, timer or ticker of the part, which always runs again.
Runs(i) ==
    CASE part = "lending" ->
          /\ CASE i = 1 -> LentRequest("n1")
               [] i = 2 -> LentRequest("n2")
               [] i = 3 -> LentRequest("n3")
               [] i = 4 -> Lending!Lend \/ Lending!EndDispatch
               [] i = 5 -> Lending!Readmit
               [] OTHER -> FALSE
          /\ Others("lending")
      [] part = "companion" ->
          /\ CASE i = 1 -> CompanionOf(1)
               [] i = 2 -> CompanionOf(2)
               [] i = 3 -> Companion!deliver(1)
               [] i = 4 -> Companion!deliver(2)
               [] i = 5 -> Companion!watch
               [] i = 6 -> Companion!restart
               [] i = 7 -> Companion!install
               [] i = 8 -> cpClosing # "no" /\ Companion!Close
               [] OTHER -> FALSE
          /\ Others("companion")
      [] part = "leases" ->
          /\ CASE i = 1 -> Broker({"s"}, {"r2"}, 1, 0, 0)!storedRoutingLinks \/ Broker({"s"}, {"r2"}, 1, 0, 0)!refreshOffloadPlan
               [] i = 2 -> Broker({"s"}, {"r2"}, 1, 0, 0)!Clock
               [] OTHER -> FALSE
          /\ Others("leases")
      [] part = "events" ->
          /\ CASE i = 1 -> Broker({"s"}, {"r2"}, 0, 0, 1)!storedRoutingLinks \/ Broker({"s"}, {"r2"}, 0, 0, 1)!refreshOffloadPlan
               [] i = 2 -> Broker({"s"}, {"r2"}, 0, 0, 1)!Clock
               [] OTHER -> FALSE
          /\ Others("events")
      [] part = "links" ->
          /\ CASE i = 1 -> Broker({"s", "h"}, {}, 1, 1, 1)!storedRoutingLinks \/ Broker({"s", "h"}, {}, 1, 1, 1)!refreshOffloadPlan
               [] i = 2 -> Broker({"s", "h"}, {}, 1, 1, 1)!Clock
               [] OTHER -> FALSE
          /\ Others("links")
      [] part = "registry" ->
          /\ CASE i = 1 -> Registry!SyncBegin \/ Registry!syncSlaves
               [] i = 2 -> Registry!fetchSlaveSnapshots("u1")
               [] i = 3 -> Registry!fetchSlaveSnapshots("u2")
               [] i = 4 -> Registry!handleNodeRegister("u1") \/ Registry!RegisterLost("u1")
               [] i = 5 -> Registry!handleNodeRegister("u2") \/ Registry!RegisterLost("u2")
               [] i = 6 -> Registry!refreshRemoteConfigNode("u1")
               [] i = 7 -> Registry!refreshRemoteConfigNode("u2")
               [] OTHER -> FALSE
          /\ Others("registry")
      [] part = "kobold" ->
          /\ CASE i = 1 -> Kobold!RouterStep
               [] i = 2 -> Kobold!ProcessStep
               [] OTHER -> FALSE
          /\ Others("kobold")
      [] part = "path" -> i = 1 /\ Path!RequestStep("r1") /\ Others("path")
      [] part = "install" ->
          /\ CASE i = 1 -> \E w \in Install!Workers : Install!WorkerStep(w)
               [] i = 2 -> Install!Restart
               [] OTHER -> FALSE
          /\ Others("install")
      [] part = "vllm" ->
          /\ CASE i = 1 -> Vllm!CallStep("backend")
               [] i = 2 -> Vllm!CallStep("options")
               [] i = 3 -> Vllm!CallStep("close")
               [] i = 4 -> 1 \in DOMAIN vchild /\ Vllm!watchRuntime(1)
               [] i = 5 -> 2 \in DOMAIN vchild /\ Vllm!watchRuntime(2)
               [] OTHER -> FALSE
          /\ Others("vllm")
      [] part = "assets" ->
          /\ CASE i = 1 -> Assets!JobStep("c1")
               [] i = 2 -> Assets!JobStep("c2")
               [] OTHER -> FALSE
          /\ Others("assets")
      [] part = "benchmarks" ->
          /\ CASE i = 1 -> Benchmarks!RunStep("k1")
               [] i = 2 -> Benchmarks!RunStep("k2")
               [] OTHER -> FALSE
          /\ Others("benchmarks")
      [] part = "runtimes" ->
          /\ CASE i = 1 -> RestoreOf(1)
               [] i = 2 -> RestoreOf(2)
               [] i = 3 -> UserOf("r1")
               [] i = 4 -> UserOf("r2")
               [] i = 5 -> \E h \in 1 .. 2 : Runtimes!TimerFires(h)
               [] OTHER -> FALSE
          /\ Others("runtimes")
      [] part = "bodies" -> i = 1 /\ Bodies!RequestStep("r1") /\ Others("bodies")
      [] OTHER -> FALSE

\* The i-th wait for a slot, a lane or a mutex, which is granted when what it
\* waits for is free again and again.
Granted(i) ==
    CASE part = "leases" -> i = 1 /\ Broker({"s"}, {"r2"}, 1, 0, 0)!planOnTick /\ Others("leases")
      [] part = "events" -> i = 1 /\ Broker({"s"}, {"r2"}, 0, 0, 1)!planOnTick /\ Others("events")
      [] part = "links" -> i = 1 /\ Broker({"s", "h"}, {}, 1, 1, 1)!planOnTick /\ Others("links")
      [] part = "assets" ->
          /\ CASE i = 1 -> Assets!TakeSlot("c1")
               [] i = 2 -> Assets!TakeSlot("c2")
               [] OTHER -> FALSE
          /\ Others("assets")
      [] part = "benchmarks" ->
          /\ CASE i = 1 -> Benchmarks!Lock("k1")
               [] i = 2 -> Benchmarks!Lock("k2")
               [] OTHER -> FALSE
          /\ Others("benchmarks")
      [] part = "runtimes" ->
          /\ CASE i = 1 -> Runtimes!RestoreLoad(1)
               [] i = 2 -> Runtimes!RestoreLoad(2)
               [] i = 3 -> Runtimes!Join("r1") \/ Runtimes!BeginSwitch("r1")
               [] i = 4 -> Runtimes!Join("r2") \/ Runtimes!BeginSwitch("r2")
               [] OTHER -> FALSE
          /\ Others("runtimes")
      [] OTHER -> FALSE

\* No fairness is assumed of clients, operators, crashes, or messages that may
\* be lost. That a plan which has been begun is finished is written as what it
\* comes to: planMu is free again and again.
Fairness ==
    /\ []<>(part \in {"leases", "events", "links"} => ~lb.plan.on)
    /\ (\A i \in 1 .. 8 : WF_vars(Runs(i)))
    /\ (\A i \in 1 .. 4 : SF_vars(Granted(i)))

Spec == Init /\ [][Next]_vars /\ Fairness

-----------------------------------------------------------------------------
\* k is the request, the child, the caller or the run the work is for, where
\* there are several (n1 and n2 are alike).
Waiting(k) == IF k = "k1" THEN "n1" ELSE "n3"
Child(k)   == IF k = "k1" THEN 1 ELSE 2
Begun(k) ==
    CASE part = "lending"    -> pc[Waiting(k)] = "waiting"
      [] part = "companion"  -> \E g \in cpHandler : cpQueue[g] # <<>>
      [] part = "install"    -> vm.job.state \in Install!Pending
      [] part = "vllm"       -> Child(k) \in DOMAIN vchild /\ Vllm!Registered(Child(k)) /\ ~vchild[Child(k)].alive
      [] part = "kobold"     -> kl.pc # "idle"
      [] part = "assets"     -> macall[k].pc = "wait"
      [] part = "benchmarks" -> bmr[k].pc = "waiting"
      [] part = "runtimes"   -> nrback.target # Runtimes!NoTarget
      [] part = "bodies"     -> tbq["r1"].pc # "done"
      [] part = "path"       -> rq["r1"].pc # "done"
      [] OTHER               -> FALSE
Ended(k) ==
    CASE part = "lending"    -> pc[Waiting(k)] # "waiting"
      [] part = "companion"  -> cpClosing # "no" \/ cpEvents.got # <<>>
      [] part = "install"    -> vm.job.state \notin Install!Pending \/ vm.closed
      [] part = "vllm"       -> ~Vllm!Registered(Child(k)) \/ ~vchild[Child(k)].running
      [] part = "kobold"     -> kl.pc = "idle"
      [] part = "assets"     -> macall[k].pc # "wait"
      [] part = "benchmarks" -> bmr[k].pc \in {"saved", "unsaved", "gone"}
      [] part = "runtimes"   -> nrback.target = Runtimes!NoTarget
      [] part = "bodies"     -> tbq["r1"].pc = "done"
      [] part = "path"       -> rq["r1"].pc = "done"
      [] OTHER               -> TRUE

\* What was begun ends.  A request in the lending queue gets its outcome, unless
\* helpers hand requests back for ever (each of those is queued in front of it);
\* an artifact a companion reported reaches the router
\* although companions die; a vLLM initialization completes, fails or is
\* cancelled; a runtime that exited is no longer reported as running; a KoboldCpp
\* load returns; a load that waits for its assets is answered; a benchmark gets
\* its turn and ends; the config a borrowed request displaced does not stay
\* displaced; a request is answered, whatever its body, its retries and its
\* backend do.
WorkEnds == \/ []<><<part = "lending" /\ Lending!HandBackStep>>_lqvars
            \/ \A k \in {"k1", "k2"} : Begun(k) ~> Ended(k)

\* Once slaves and operators stop changing things, the registry shows every
\* running slave as it is, and every node has the stored links and settings and
\* no lease of a removed link.
Settled == CASE part = "registry" -> \A u \in Registry!Urls : Registry!Shown(u)
             [] part = "leases"   -> Broker({"s"}, {"r2"}, 1, 0, 0)!Settled
             [] part = "events"   -> Broker({"s"}, {"r2"}, 0, 0, 1)!Settled
             [] part = "links"    -> Broker({"s", "h"}, {}, 1, 1, 1)!Settled
             [] OTHER             -> TRUE
ClusterSettles == <>[]Settled
=============================================================================
