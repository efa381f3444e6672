------------------------------ MODULE MCSupply ------------------------------
(***************************************************************************)
(* What reaches a node and what it records, for TLC: downloads and the     *)
(* companion that runs them, model assets, the configs that name them and  *)
(* the cache of their hashes, the vLLM installation, backend updates and   *)
(* their publication, and the stores of analytics, load captures,          *)
(* benchmarks, load errors and decisions.                                  *)
(*                                                                         *)
(* The components share no state, so they are checked next to each other:  *)
(* part says which of them a behaviour is about, the variables of the      *)
(* others are off.  Two parts of one component are two instances of it.    *)
(***************************************************************************)
EXTENDS Integers, Sequences, FiniteSets, TLC

VARIABLES part,
    dlState, dlFile, dlStaged, dlTemp, dlBackup, dlDest, dlCurrent, dlRuns, dlCalls, dlLife, dlCount,
    cpProc, cpDone, cpPending, cpWire, cpCall, cpReply, cpWatch, cpCurrent, cpClosing, cpQueue, cpWake,
    cpDeliver, cpHandler, cpEvents, cpSub,
    vm, vd, vw, vf,
    bu, budisk, burepo, buhist,
    tprepo, tpwork, tprot, tpcache, tptime,
    maconf, madisk, maidx, majob, mapull, macall, mahist,
    pfconf, pfhave, pforig, pfui, pfhist,
    hsfile, hs, hsdisk, hscall, hsscan, hshist,
    ccfile, ccart, ccsnap, ccreg, ccrec, cclock, cccall, cchist,
    antime, ann, anf, anr, anq, anend,
    lctime, lcn, lcl, lcp, lcend,
    bmr, bmm, bmstore, bmend,
    rstime, rse, rsclear, rsd, rsend

Off == "off"

-----------------------------------------------------------------------------
\* Two jobs for one file, which two clients create and which run together; with a
\* crash, or with a third call (a pause or a resume beside another one).
Jobs(retries, calls, crashes) == INSTANCE DownloadJobs WITH
    DlJobs <- {"j1", "j2"}, DlClients <- {"c1", "c2"}, ConcurrentJobs <- 2, RetryLimit <- retries, FileSize <- 1,
    MaxRuns <- 2, MaxCalls <- calls, MaxRestarts <- retries, MaxCrashes <- crashes, MaxFaults <- crashes

\* Two calls, a companion that is restarted once, two artifacts.
Companion == INSTANCE DownloadCompanion WITH
    CpCalls <- {"c1", "c2"}, MaxGenerations <- 2, MaxArtifacts <- 2, MaxPolls <- 1

\* A wheel profile for CUDA and a container profile for the CPU, on a machine
\* with and on one without the GPU.
VmProfilesMC ==
    {[id |-> "gpu", method |-> "wheel", devs |-> {"cuda"}, prio |-> 2, needs |-> {"driver"},
      roles |-> {"python", "vllm", "smoke_model"}, image |-> FALSE],
     [id |-> "cpu", method |-> "oci", devs |-> {"cpu"}, prio |-> 1, needs |-> {"container_engine"},
      roles |-> {"oci", "smoke_model"}, image |-> TRUE]}
VmDetectionsMC == {[dev |-> {"cpu"}, pre |-> {"container_engine"}],
                   [dev |-> {"cpu", "cuda"}, pre |-> {"driver", "container_engine"}]}
Install == INSTANCE VllmInstall WITH
    VmProfiles <- VmProfilesMC, VmDetections <- VmDetectionsMC, VmRequests <- {"auto"},
    VmAllowUnverified <- TRUE, VmMaxWorkers <- 2, VmMaxFaults <- 1

\* Four releases: one drops a file and carries a device, one is a prerelease
\* with a link in it, one is a plain executable.
Asset(kind, version) == [kind |-> kind, platform |-> "linux", gpu |-> "cuda", version |-> version]
BuAssetsMC == {Asset("primary", "12"), Asset("primary", "13"), Asset("cudart", "13")}
Release(pre, files, entry, assets) ==
    [pre |-> pre, plain |-> entry = "plain", files |-> files, entries |-> {entry}, assets |-> assets]
BuReleasesMC == <<Release(FALSE, {"bin", "lib"}, "file", BuAssetsMC),
                  Release(FALSE, {"bin", "new"}, "device", BuAssetsMC),
                  Release(TRUE, {"bin"}, "link", {}),
                  Release(FALSE, {"bin"}, "plain", BuAssetsMC)>>
Update == INSTANCE BackendUpdate WITH
    BuFiles <- {"bin", "lib", "new"}, BuReleases <- BuReleasesMC,
    BuInfo <- [platform |-> "linux", gpu |-> "cuda", version |-> "13"],
    BuPrereleases <- FALSE, BuMaxFaults <- 2, BuMaxRuns <- 4

\* Two platforms; complete bundles, one that covers a platform, a mixed one.
TpDevicesMC == [linux |-> {"cuda", "cpu"}, darwin |-> {"cpu"}]
Manifest(p, r) ==
    [platform |-> p, release |-> r, devices |-> TpDevicesMC[p],
     results |-> {[device |-> d, runner |-> IF d = "cpu" THEN "github-hosted" ELSE "self-hosted",
                   passed |-> TRUE] : d \in TpDevicesMC[p]}]
Bundle(manifests) == [commit |-> TRUE, fresh |-> TRUE, platforms |-> manifests]
Publish == INSTANCE TufPublish WITH
    TpPlatforms <- {"linux", "darwin"}, TpDevices <- TpDevicesMC,
    TpBundles <- {Bundle({Manifest("linux", 1), Manifest("darwin", 1)}),
                  Bundle({Manifest("linux", 2), Manifest("darwin", 2)}),
                  Bundle({Manifest("linux", 2)}),
                  Bundle({Manifest("linux", 2), Manifest("darwin", 1)})},
    TpMaxVersion <- 4, TpMaxTime <- 4

\* Two configs that name one content under two file names; two that name one
\* file, which is replaced while they hash it; two contents under one name.
Wanted(hash, name) == [hash |-> hash, name |-> name]
AssetParts == {"assets", "replaced", "transfers"}
AssetRefs == [assets |-> [c1 |-> Wanted("h", "n1"), c2 |-> Wanted("h", "n2")],
              replaced |-> [c1 |-> Wanted("h", "n1"), c2 |-> Wanted("h", "n1")],
              transfers |-> [c1 |-> Wanted("h", "n1"), c2 |-> Wanted("g", "n1")]]
Assets(p) == INSTANCE ModelAssets WITH
    MaConfigs <- {"c1", "c2"}, MaRefs <- AssetRefs[p], MaCallers <- {"k1", "k2"}, MaPeers <- {"p"}, MaSlots <- 1,
    MaHashes <- {AssetRefs[p][c].hash : c \in {"c1", "c2"}}, MaNames <- {AssetRefs[p][c].name : c \in {"c1", "c2"}},
    MaSize <- IF p = "assets" THEN 2 ELSE 1, MaMaxFaults <- [assets |-> 2, replaced |-> 0, transfers |-> 0][p],
    MaMaxEdits <- [assets |-> 0, replaced |-> 1, transfers |-> 1][p], MaMaxCrashes <- IF p = "assets" THEN 1 ELSE 0

\* Two different files with the same base name on two nodes; one starts with a
\* config in portable form.
Portable == INSTANCE PortableConfig WITH
    PfNodes <- {"n1", "n2"}, PfFields <- {"f"}, PfFiles <- {"p1", "p2"},
    PfHash <- [p1 |-> "h1", p2 |-> "h2"], PfName <- [p1 |-> "a", p2 |-> "a"],
    PfHashed <- {"f"}, PfHubHashes <- {"h2"}, PfGiven <- [n1 |-> <<>>, n2 |-> [f |-> "p1"]],
    PfMaxWrites <- 3

\* One file that is replaced twice while a caller and a scan hash it.
Hashes == INSTANCE HashStore WITH
    HsPaths <- {"p"}, HsContents <- {"x", "y"}, HsCallers <- {"k"}, HsMaxWrites <- 3, HsMaxCalls <- 2,
    HsMaxFaults <- 1

\* Two calls on a config with and without an MCP server; two calls on the
\* configs of two nodes.
CcOn == [mcp |-> TRUE, backend |-> "kobold", servers |-> "s"]
CcOff == [mcp |-> FALSE, backend |-> "llama_sdcpp", servers |-> "none"]
Configs == INSTANCE ConfigFiles WITH
    CcCallers <- {"k1", "k2"}, CcNode <- [a |-> "n1"], CcLocal <- "n1", CcContents <- {CcOn, CcOff},
    CcGroups <- <<"a">>, CcMcpOn <- TRUE, CcMaxCalls <- 2, CcMaxFaults <- 1
Cooks == INSTANCE ConfigFiles WITH
    CcCallers <- {"k1", "k2"}, CcNode <- [a |-> "n1", d |-> "n2"], CcLocal <- "n1", CcContents <- {CcOn},
    CcGroups <- <<"a", "d">>, CcMcpOn <- TRUE, CcMaxCalls <- 2, CcMaxFaults <- 1

\* Two-hour days and raw rows kept for one, so that rows are pruned and queries
\* turn to the rollups: one node that fails and has an older database to import;
\* two nodes whose answers are merged.
AnOld == [id |-> "old", at |-> 0, ok |-> TRUE, load |-> FALSE, peak |-> 1]
Analytics == INSTANCE AnalyticsStore WITH
    AnNodes <- {"n1"}, AnRequests <- {"r1"}, AnLoads <- {}, AnPeak <- [r1 |-> 1], AnLegacy <- [n1 |-> {AnOld}],
    HoursPerDay <- 2, HourSpan <- 1, AnBufferLimit <- 1, AnRawRetention <- 1, AnMaxTime <- 3, AnMaxFaults <- 1
Merged == INSTANCE AnalyticsStore WITH
    AnNodes <- {"n1", "n2"}, AnRequests <- {}, AnLoads <- {"l1", "l2"}, AnPeak <- [l1 |-> 1, l2 |-> 2],
    AnLegacy <- [n1 |-> {}, n2 |-> {}],
    HoursPerDay <- 2, HourSpan <- 1, AnBufferLimit <- 1, AnRawRetention <- 1, AnMaxTime <- 3, AnMaxFaults <- 0

\* Attempts of two nodes read page by page; two loads of one node that write
\* output with a secret in it; two whose config is edited in between.
Attempts == INSTANCE LoadCapture WITH
    LcNodes <- {"n1", "n2"}, LcLoads <- {"l1"}, LcPayloads <- {}, LcMaxChunk <- 1, LcOutputLimit <- 3,
    LcPageLimit <- 1, LcIds <- {1, 2}, LcMaxTime <- 2, LcMaxWrites <- 2, LcMaxConfig <- 1, LcMaxFaults <- 1
Output(payloads, configs, faults) == INSTANCE LoadCapture WITH
    LcNodes <- {"n1"}, LcLoads <- {"l1", "l2"}, LcPayloads <- payloads, LcMaxChunk <- 1,
    LcOutputLimit <- 2, LcPageLimit <- 3, LcIds <- {1, 2}, LcMaxTime <- 1, LcMaxWrites <- 2,
    LcMaxConfig <- configs, LcMaxFaults <- faults
Secret == {<<"a">>, <<"b", "x">>}

\* Two runs over a model that answers two of three sections.
Benchmarks == INSTANCE BenchmarkRuns WITH
    BmRuns <- {"r1", "r2"}, BmSections <- <<"runtime", "llm", "image">>, BmHas <- {"runtime", "llm"},
    BmHistoryLimit <- 4, BmOptionKeys <- {"k1"}, BmMaxEdits <- 1, BmMaxFaults <- 1

\* Failures of which two share a fingerprint; decisions kept for a while.
RsFingerprintMC == [f1 |-> "F", f2 |-> "F", g |-> "G"]
LoadErrors == INSTANCE RecordStores WITH
    RsNodes <- {"n1"}, RsFailures <- {"f1", "f2", "g"}, RsFingerprint <- RsFingerprintMC, RsDecisions <- {},
    RsRetention <- 1, RsPruneEach <- 2, RsBufferLimit <- 1, RsMaxTime <- 4, RsMaxSightings <- 3, RsMaxFaults <- 1
Decisions == INSTANCE RecordStores WITH
    RsNodes <- {"n1"}, RsFailures <- {}, RsFingerprint <- RsFingerprintMC, RsDecisions <- {"d1", "d2"},
    RsRetention <- 1, RsPruneEach <- 2, RsBufferLimit <- 1, RsMaxTime <- 4, RsMaxSightings <- 3, RsMaxFaults <- 1

-----------------------------------------------------------------------------
dlVars == <<dlState, dlFile, dlStaged, dlTemp, dlBackup, dlDest, dlCurrent, dlRuns, dlCalls, dlLife, dlCount>>
cpVars == <<cpProc, cpDone, cpPending, cpWire, cpCall, cpReply, cpWatch, cpCurrent, cpClosing, cpQueue,
            cpWake, cpDeliver, cpHandler, cpEvents, cpSub>>
vmvars == <<vm, vd, vw, vf>>
buvars == <<bu, budisk, burepo, buhist>>
tpvars == <<tprepo, tpwork, tprot, tpcache, tptime>>
mavars == <<maconf, madisk, maidx, majob, mapull, macall, mahist>>
pfvars == <<pfconf, pfhave, pforig, pfui, pfhist>>
hsvars == <<hsfile, hs, hsdisk, hscall, hsscan, hshist>>
ccvars == <<ccfile, ccart, ccsnap, ccreg, ccrec, cclock, cccall, cchist>>
anvars == <<antime, ann, anf, anr, anq, anend>>
lcvars == <<lctime, lcn, lcl, lcp, lcend>>
bmvars == <<bmr, bmm, bmstore, bmend>>
rsvars == <<rstime, rse, rsclear, rsd, rsend>>
vars == <<part, dlVars, cpVars, vmvars, buvars, tpvars, mavars, pfvars, hsvars, ccvars, anvars, lcvars,
          bmvars, rsvars>>

Parts == {"jobs", "calls", "companion", "install", "update", "publish", "assets", "replaced", "transfers", "portable",
          "hashes", "configs", "cooks", "analytics", "merged", "attempts", "output", "reused", "benchmarks", "errors",
          "decisions"}

Init ==
    /\ part \in Parts
    /\ CASE part = "jobs" -> Jobs(1, 2, 1)!Init
         [] part = "calls" -> Jobs(0, 3, 0)!Init
         [] OTHER ->
            /\ dlState = Off /\ dlFile = Off /\ dlStaged = Off /\ dlTemp = Off /\ dlBackup = Off /\ dlDest = Off
            /\ dlCurrent = Off /\ dlRuns = Off /\ dlCalls = Off /\ dlLife = Off /\ dlCount = Off
    /\ IF part = "companion" THEN Companion!Init
       ELSE /\ cpProc = Off /\ cpDone = Off /\ cpPending = Off /\ cpWire = Off /\ cpCall = Off /\ cpReply = Off
            /\ cpWatch = Off /\ cpCurrent = Off /\ cpClosing = Off /\ cpQueue = Off /\ cpWake = Off
            /\ cpDeliver = Off /\ cpHandler = Off /\ cpEvents = Off /\ cpSub = Off
    /\ IF part = "install" THEN Install!Init ELSE vm = Off /\ vd = Off /\ vw = Off /\ vf = Off
    /\ IF part = "update" THEN Update!Init ELSE bu = Off /\ budisk = Off /\ burepo = Off /\ buhist = Off
    /\ IF part = "publish" THEN Publish!Init
       ELSE tprepo = Off /\ tpwork = Off /\ tprot = Off /\ tpcache = Off /\ tptime = Off
    /\ \/ \E p \in AssetParts : part = p /\ Assets(p)!Init
       \/ /\ part \notin AssetParts
          /\ maconf = Off /\ madisk = Off /\ maidx = Off /\ majob = Off /\ mapull = Off
            /\ macall = Off /\ mahist = Off
    /\ IF part = "portable" THEN Portable!Init
       ELSE pfconf = Off /\ pfhave = Off /\ pforig = Off /\ pfui = Off /\ pfhist = Off
    /\ IF part = "hashes" THEN Hashes!Init
       ELSE hsfile = Off /\ hs = Off /\ hsdisk = Off /\ hscall = Off /\ hsscan = Off /\ hshist = Off
    /\ CASE part = "configs" -> Configs!Init
         [] part = "cooks"   -> Cooks!Init
         [] OTHER -> /\ ccfile = Off /\ ccart = Off /\ ccsnap = Off /\ ccreg = Off /\ ccrec = Off
                     /\ cclock = Off /\ cccall = Off /\ cchist = Off
    /\ IF part = "analytics" THEN Analytics!Init ELSE IF part = "merged" THEN Merged!Init
       ELSE antime = Off /\ ann = Off /\ anf = Off /\ anr = Off /\ anq = Off /\ anend = Off
    /\ CASE part = "attempts" -> Attempts!Init
         [] part = "output"   -> Output(Secret, 1, 0)!Init
         [] part = "reused"   -> Output({}, 2, 1)!Init
         [] OTHER -> lctime = Off /\ lcn = Off /\ lcl = Off /\ lcp = Off /\ lcend = Off
    /\ IF part = "benchmarks" THEN Benchmarks!Init ELSE bmr = Off /\ bmm = Off /\ bmstore = Off /\ bmend = Off
    /\ CASE part = "errors"    -> LoadErrors!Init
         [] part = "decisions" -> Decisions!Init
         [] OTHER -> rstime = Off /\ rse = Off /\ rsclear = Off /\ rsd = Off /\ rsend = Off

Others(p) ==
    /\ UNCHANGED part
    /\ (p \notin {"jobs", "calls"} => UNCHANGED dlVars) /\ (p # "companion" => UNCHANGED cpVars)
    /\ (p # "install" => UNCHANGED vmvars) /\ (p # "update" => UNCHANGED buvars)
    /\ (p # "publish" => UNCHANGED tpvars) /\ (p \notin AssetParts => UNCHANGED mavars)
    /\ (p # "hashes" => UNCHANGED hsvars) /\ (p \notin {"configs", "cooks"} => UNCHANGED ccvars)
    /\ (p # "portable" => UNCHANGED pfvars) /\ (p \notin {"analytics", "merged"} => UNCHANGED anvars)
    /\ (p \notin {"attempts", "output", "reused"} => UNCHANGED lcvars) /\ (p # "benchmarks" => UNCHANGED bmvars)
    /\ (p \notin {"errors", "decisions"} => UNCHANGED rsvars)

Next ==
    \/ part = "jobs" /\ Jobs(1, 2, 1)!Next /\ Others("jobs")
    \/ part = "calls" /\ Jobs(0, 3, 0)!Next /\ Others("calls")
    \/ part = "companion" /\ Companion!Next /\ Others("companion")
    \/ part = "install" /\ Install!Next /\ Others("install")
    \/ part = "update" /\ Update!Next /\ Others("update")
    \/ part = "publish" /\ Publish!Next /\ Others("publish")
    \/ \E p \in AssetParts : part = p /\ Assets(p)!Next /\ Others(p)
    \/ part = "portable" /\ Portable!Next /\ Others("portable")
    \/ part = "hashes" /\ Hashes!Next /\ Others("hashes")
    \/ part = "configs" /\ Configs!Next /\ Others("configs")
    \/ part = "cooks" /\ Cooks!Next /\ Others("cooks")
    \/ part = "analytics" /\ Analytics!Next /\ Others("analytics")
    \/ part = "merged" /\ Merged!Next /\ Others("merged")
    \/ part = "attempts" /\ Attempts!Next /\ Others("attempts")
    \/ part = "output" /\ Output(Secret, 1, 0)!Next /\ Others("output")
    \/ part = "reused" /\ Output({}, 2, 1)!Next /\ Others("reused")
    \/ part = "benchmarks" /\ Benchmarks!Next /\ Others("benchmarks")
    \/ part = "errors" /\ LoadErrors!Next /\ Others("errors")
    \/ part = "decisions" /\ Decisions!Next /\ Others("decisions")

Spec == Init /\ [][Next]_vars

-----------------------------------------------------------------------------
\* Downloads (internal/downloader, its companion process): a file that was at
\* the destination is never lost while it is replaced, a completed job has its
\* file unless another promotion put an older one back, one goroutine at a time
\* writes a job's staging file, and a job is left without one only by a failed
\* statement or an overtaken pause; a call to the companion is answered once,
\* nothing stays pending on a dead companion, an artifact is never queued unseen.
DownloadsSafe ==
    /\ part = "jobs" => Jobs(1, 2, 1)!DownloadSafe
    /\ part = "calls" => Jobs(0, 3, 0)!DownloadSafe
    /\ part = "companion" => Companion!CompanionSafe

\* vLLM initialization (internal/vllm): whatever crashes, closes and failed
\* writes do, the active environment has passed its smoke test, a completed job
\* is the active one, and unverified profiles are used only where none is
\* published.
InstallSafe == part = "install" => Install!VllmInstallSafe

\* Backend updates and TUF publication (internal/update, internal/tufpublish):
\* a failed update restores what was installed or leaves it in its backup,
\* metadata describes the tree, no downgrade; every publication is one that
\* existing clients can follow.
UpdatesSafe == (part = "update" => Update!UpdateSafe) /\ (part = "publish" => Publish!PublicationSafe)

\* Model files (internal/modelassets, proxy/model_assets.go, internal/catalog,
\* config_file_handlers.go, site_cook.go): a config is resolved only to a file
\* whose content has the hash it names; an export, an import, a form or an edit
\* by hand never makes a config mean another model; a cached hash is the hash
\* of what the file holds, and the cache is written; whatever saves, deletes,
\* cooks and loads interleave, the catalog, the registry, the recipe and the
\* MCP artifacts agree with the config files, but for what a call that was
\* overtaken leaves behind (see the findings).
ModelFilesSafe ==
    /\ \A p \in AssetParts : part = p => Assets(p)!AssetsSafe
    /\ part = "portable" => Portable!PortableSafe
    /\ part = "hashes" => Hashes!HashStoreSafe
    /\ part = "configs" => Configs!ConfigFilesSafe
    /\ part = "cooks" => Cooks!ConfigFilesSafe

\* Records (internal/analytics, loadcapture, benchmark, loaderrors): each
\* request is counted once although it may be flushed, rolled up, pruned and
\* queried at the same time; captures and pages are complete and free of
\* secrets; a run is in the history exactly when it was saved; a row counts the
\* sightings of its failure.
RecordsSafe ==
    /\ part = "analytics" => Analytics!AnalyticsSafe
    /\ part = "merged" => Merged!AnalyticsSafe
    /\ part = "attempts" => Attempts!LoadCaptureSafe
    /\ part = "output" => Output(Secret, 1, 0)!LoadCaptureSafe
    /\ part = "reused" => Output({}, 2, 1)!LoadCaptureSafe
    /\ part = "benchmarks" => Benchmarks!BenchmarkSafe
    /\ part = "errors" => LoadErrors!RecordStoresSafe
    /\ part = "decisions" => Decisions!RecordStoresSafe
=============================================================================
