----------------------------- MODULE MCServing -----------------------------
(***************************************************************************)
(* What serves a request on a node and in the cluster, for TLC: the        *)
(* managers of backend processes, the runtimes of a node, the registry of  *)
(* nodes, the broker that lends requests, the transport of bodies and the  *)
(* path of a request through the proxy.                                    *)
(*                                                                         *)
(* As in MCSupply, part says which component a behaviour is about and the  *)
(* variables of the others are off.  Instances with parameters are checked *)
(* with several bounds: one component, several parts.                      *)
(***************************************************************************)
EXTENDS Integers, Sequences, FiniteSets

VARIABLES part,
    np, npch, npres, npext,
    kl, klm, klp, kld,
    vr, vchild, vsock, vcall,
    nrt, nrpool, nrreq, nrset, nrop, nrback,
    cr, crs, crf, crq,
    lb, lbn, lbe, lbr, lbx,
    tbq, tbused, tbfault,
    jrw, jrin, jrout, jrp,
    rq, rpserver, rpkept, rptime

Off == "off"

-----------------------------------------------------------------------------
\* Managers without a fixed port compete for two ports, which another program
\* may take.
Processes(managers, calls) == INSTANCE NativeProcess WITH
    NpManagers <- managers, NpPinned <- [m \in managers |-> 0], NpPorts <- {1, 2}, NpConfigs <- {"a"},
    NpMaxChildren <- 2, NpMaxCalls <- calls, NpMaxSquats <- 1
\* The managers' instances are among those their theorem is about.
ASSUME ProcessInputs == Processes({"ma", "mb"}, 1)!NpInputs /\ Processes({"ma"}, 2)!NpInputs

\* Two configs that differ in what is kept apart and what is generated.
KlConfigsMC ==
    [a |-> {"textmodel", "gendefaults", "embeddingsmodel", "embeddingsgpu", "run_embed_separate", "usecuda", "threads"},
     b |-> {"textmodel", "run_embed_separate", "embeddingsmodel", "usecuda", "gpulayers"}]
Kobold == INSTANCE KoboldLoad WITH
    KlConfigs <- KlConfigsMC, KlExtra <- {"usecuda", "quiet"}, KlOwnsDefaults <- TRUE,
    KlMaxLoads <- 2, KlMaxStarts <- 2

Vllm == INSTANCE VllmRuntime WITH VrConfigs <- {"a", "b"}, VrMaxChildren <- 3, VrMaxOps <- 2

\* Two configs of one lane and one operator: a pool of one separate runtime; or
\* the shared runtime alone, with a model disabled and enabled again.
Runtimes(separate, selections, settings) == INSTANCE NodeRuntimes WITH
    NrConfigs <- {"a", "b"}, NrLane <- [a |-> "text", b |-> "text"], NrRequests <- {"r1", "r2"},
    NrOperators <- {"o1"}, NrToggled <- {"a"}, NrSelections <- selections,
    NrSeparate <- separate, NrLimit <- 1, NrMaxEntries <- 2, NrMaxSettings <- settings
Pooled == {{}, {"a", "b"}}
Triggers == {{}, {"text"}}

\* Two slaves of which one may claim the other's id; the same model with the
\* same and with another hash, on one node and on several; a model named like
\* the second of another's.
Model(id, hash, off) == [id |-> id, hash |-> hash, off |-> off, caps |-> {"voice"}]
ModelA(hash, off) == Model(<<1>>, hash, off)
CrCatalogsMC == [u1 |-> {<<ModelA(<<1, 1>>, FALSE)>>, <<>>},
                 u2 |-> {<<ModelA(<<1, 2>>, FALSE)>>, <<ModelA(<<1, 2>>, FALSE), ModelA(<<1, 3>>, FALSE)>>}]
CrLocalsMC == {<<ModelA(<<1, 1>>, FALSE)>>, <<ModelA(<<1, 1>>, TRUE), Model(<<1, 2>>, <<2, 1>>, FALSE)>>}
Registry(requests, updates, calls, refused) == INSTANCE ClusterRegistry WITH
    CrUrls <- <<"u1", "u2">>, CrIds <- [u1 |-> {"n1"}, u2 |-> {"n2", "n1"}], CrWidth <- 2, CrRank <- [n1 |-> 2, n2 |-> 4],
    CrUnauthorized <- refused, CrCatalogs <- CrCatalogsMC, CrLocals <- CrLocalsMC, CrRequests <- requests,
    CrMaxChanges <- 1, CrMaxUpdates <- updates, CrMaxCalls <- calls
\* The registry's instance is among those its theorems are about.
ASSUME RegistryInputs == Registry({"r1", "r2"}, 1, 1, {})!CrInputs

\* A master and two slaves, each with the costs its own models have.
PerNode(m, s, h) == [m |-> m, s |-> s, h |-> h]
Link(o, h, load) == [o |-> o, h |-> h, load |-> load]
OneLink == {Link("s", "h", TRUE)}
LoadOrNot == {Link("s", "h", load) : load \in BOOLEAN}
TwoLinks == {Link("s", "h", TRUE), Link("m", "h", FALSE)}
Broker(links, stored, reqs, edits, ttl, busy, losses) == INSTANCE LendingBroker WITH
    LbMaster <- "m", LbSlaves <- {"s", "h"}, LbLinks <- links, LbStored <- stored, LbReqs <- reqs,
    LbReqOwners <- [r1 |-> {"s"}, r2 |-> {l.o : l \in links}], LbReqSize <- [r1 |-> 2, r2 |-> 1],
    LbWindow <- PerNode(2, 2, 1), LbRank <- PerNode(1, 3, 2), LbJob <- PerNode(1, 3, 0),
    LbService <- PerNode(0, 0, 1), LbLoad <- PerNode(1, 0, 1), LbRestore <- PerNode(0, 0, 0),
    LbRestoreUnpriced <- {"m"}, LbSwitches <- {}, LbProbeIdle <- 1, LbUnloadedFactor <- 1, LbMaxIdle <- 1,
    LbTtl <- ttl, LbSlots <- [faster |-> 2, slower |-> 1, probe |-> 1],
    LbMaxEdits <- edits, LbMaxSettings <- busy, LbMaxBusy <- busy, LbMaxRestarts <- losses, LbMaxLosses <- losses

\* Two bodies, which fit the buffers or do not, and a budget that does not hold
\* both; one body that may also exceed the limit, on every kind of route.
TbRoute(lane, source, remote, fault) == [lane |-> lane, source |-> source, remote |-> remote, fault |-> fault]
GoodRoutes == {TbRoute("text", "registry", TRUE, "none"), TbRoute("image", "catalog", FALSE, "none")}
AllRoutes == {TbRoute(lane, source, remote, fault) : lane \in {"text", "image", "audio"}, source \in {"registry", "catalog"},
                 remote \in BOOLEAN, fault \in {"none", "unknown", "mode", "replica", "endpoint", "ollama"}}
             \cup {TbRoute("text", "passthrough", FALSE, "none")}
Bodies(reqs, sizes, routes) == INSTANCE TransportBody WITH
    TbRequests <- reqs, TbSizes <- sizes, TbRoutes <- routes,
    ReplayBufferBytes <- 2, SelectorScanBytes <- 1, MaxRequestBytes <- 3, MemoryBudgetBytes <- 5,
    ReplayChunk <- 2, TransformationWorkingSet <- 1, TbMaxAborts <- 1

\* Every sequence of tokens that may still become a request, under each kind of
\* rewrite: the model's name in two places, template arguments that win or
\* yield, generation defaults at the top or among the options.
Rewriting(strings, from, to, insert, kwargs, wins, defaults, overwrite, into) ==
    [strings |-> strings, from |-> from, to |-> to, insert |-> insert, kwargs |-> kwargs, wins |-> wins,
     defaults |-> defaults, overwrite |-> overwrite, into |-> into]
Nine == {<<"t", <<"leaf", <<"p", "9">>>>>>}
JrRewritesMC ==
    {Rewriting({"model", "x"}, "", "m2", TRUE, {}, FALSE, <<>>, FALSE, FALSE),
     Rewriting({"sd_model_checkpoint", "override_settings"}, "sd_model_checkpoint", "m2", FALSE, {}, FALSE, <<>>, FALSE, FALSE),
     Rewriting({"chat_template_kwargs", "t"}, "", "none", FALSE, Nine, TRUE, <<>>, FALSE, FALSE),
     Rewriting({"chat_template_kwargs", "t"}, "", "none", FALSE, Nine, FALSE, <<"t">>, FALSE, FALSE),
     Rewriting({"t", "u"}, "", "none", FALSE, {}, FALSE, <<"t", "u">>, TRUE, FALSE),
     Rewriting({"options", "t"}, "", "none", FALSE, {}, FALSE, <<"t", "u">>, TRUE, TRUE),
     Rewriting({"options", "t"}, "", "m2", TRUE, {}, FALSE, <<"t">>, FALSE, TRUE)}
Rewrites == INSTANCE JsonRewrite WITH JrRewrites <- JrRewritesMC, JrMaxTokens <- 9, JrNesting <- 3

\* One request of any shape; one of each lane next to a request for another
\* config; requests whose answers are remembered next to operations on them.
Asks(lane, target, path, config) ==
    [lane |-> lane, target |-> target, path |-> path, config |-> config,
     borrowed |-> "no", picture |-> "none", stream |-> FALSE]
Text == Asks("text", "registry", "core", "a")
LaneShapes ==
    {[Text EXCEPT !.picture = "known"], [Text EXCEPT !.picture = "learned", !.stream = TRUE],
     [Text EXCEPT !.borrowed = "keep"], [Asks("image", "registry", "jobs", "b") EXCEPT !.borrowed = "load"],
     Asks("image", "registry", "jobs", "b"), Asks("image", "recipe", "other", "a"),
     Asks("image", "local", "other", "a"), Asks("audio", "registry", "other", "a"),
     Asks("audio", "local", "other", "a"), Asks("audio", "recipe", "other", "a")}
OtherShapes ==
    {Text, [Text EXCEPT !.picture = "learned"], [Text EXCEPT !.borrowed = "load"],
     [Asks("image", "registry", "other", "b") EXCEPT !.borrowed = "keep"],
     [Asks("text", "local", "responses", "a") EXCEPT !.stream = TRUE]}
    \cup {Asks("text", target, path, "a") : target \in {"registry", "none"}, path \in {"embeddings", "responses"}}
    \cup {Asks("text", "operation", path, "a") : path \in {"cancel", "other"}}
    \cup {Asks("text", target, "other", "b") : target \in {"recipe", "none"}}
    \cup {Asks("image", target, "options", "b") : target \in {"recipe", "registry", "local", "none"}}
    \cup {Asks("image", "none", path, "b") : path \in {"discovery", "other"}}
    \cup {Asks("image", "job", "other", "b")}
    \cup {Asks("audio", target, "other", "a") : target \in {"unknown", "none", "realtime"}}
Options == Asks("image", "local", "options", "b")
Alone == [r1 |-> LaneShapes \cup OtherShapes]
Beside == [r1 |-> LaneShapes, r2 |-> {Options}]
Response == Asks("text", "local", "responses", "a")
Remembered ==
    [r1 |-> {Response, [Response EXCEPT !.stream = TRUE]}, r2 |-> {Options, Asks("text", "operation", "cancel", "b")}]
ImageJobs ==
    [r1 |-> {Asks("image", "recipe", "jobs", "a")},
     r2 |-> {Options, Asks("image", "job", "other", "b"), Asks("image", "recipe", "jobs", "b")}]
Path(shapes, readiness, time, crashes) == INSTANCE RequestPath WITH
    RpRequests <- DOMAIN shapes, RpShapes <- shapes, RpGuardian <- "g", RpInference <- readiness - 1,
    RpReadiness <- readiness, RpKeepLimit <- 1, RpLifetime <- 1, RpMaxTime <- time, RpMaxCrashes <- crashes
\* The instances of the request path are among those its theorems are about.
ASSUME PathInputs ==
    /\ Path(Alone, 3, 0, 1)!RpInputs /\ Path(Beside, 2, 0, 1)!RpInputs
    /\ Path(Remembered, 2, 1, 0)!RpInputs /\ Path(ImageJobs, 1, 1, 0)!RpInputs

-----------------------------------------------------------------------------
npvars == <<np, npch, npres, npext>>
klvars == <<kl, klm, klp, kld>>
vrvars == <<vr, vchild, vsock, vcall>>
nrvars == <<nrt, nrpool, nrreq, nrset, nrop, nrback>>
crvars == <<cr, crs, crf, crq>>
lbvars == <<lb, lbn, lbe, lbr, lbx>>
tbvars == <<tbq, tbused, tbfault>>
jrvars == <<jrw, jrin, jrout, jrp>>
rpvars == <<rq, rpserver, rpkept, rptime>>
vars == <<part, npvars, klvars, vrvars, nrvars, crvars, lbvars, tbvars, jrvars, rpvars>>

Managers == {"pair", "single"}
NodeParts == {"runtimes", "toggled"}
Registries == {"polled", "updated"}
Brokers == {"planned", "edited", "lossy", "busy"}
Paths == {"alone", "beside", "remembered", "jobs"}
Parts == Managers \cup {"kobold", "vllm", "bodies", "oversize", "rewrites"} \cup NodeParts \cup Registries \cup Brokers \cup Paths

Init ==
    /\ part \in Parts
    /\ CASE part = "pair"   -> Processes({"ma", "mb"}, 1)!Init
         [] part = "single" -> Processes({"ma"}, 2)!Init
         [] OTHER -> np = Off /\ npch = Off /\ npres = Off /\ npext = Off
    /\ IF part = "kobold" THEN Kobold!Init ELSE kl = Off /\ klm = Off /\ klp = Off /\ kld = Off
    /\ IF part = "vllm" THEN Vllm!Init ELSE vr = Off /\ vchild = Off /\ vsock = Off /\ vcall = Off
    /\ CASE part = "runtimes" -> Runtimes(Pooled, Triggers, 1)!Init
         [] part = "toggled"  -> Runtimes({{}}, {}, 2)!Init
         [] OTHER -> nrt = Off /\ nrpool = Off /\ nrreq = Off /\ nrset = Off /\ nrop = Off /\ nrback = Off
    /\ CASE part = "polled"  -> Registry({"r1"}, 0, 2, {"u1"})!Init
         [] part = "updated" -> Registry({"r1", "r2"}, 1, 1, {})!Init
         [] OTHER -> cr = Off /\ crs = Off /\ crf = Off /\ crq = Off
    /\ CASE part = "planned" -> Broker(TwoLinks, TwoLinks, {"r1", "r2"}, 0, 1, 0, 0)!Init
         [] part = "edited"  -> Broker(LoadOrNot, OneLink, {"r2"}, 1, 2, 0, 0)!Init
         [] part = "lossy"   -> Broker(OneLink, OneLink, {"r2"}, 0, 1, 0, 1)!Init
         [] part = "busy"    -> Broker({Link("s", "h", FALSE)}, {Link("s", "h", FALSE)}, {"r2"}, 0, 1, 1, 0)!Init
         [] OTHER -> lb = Off /\ lbn = Off /\ lbe = Off /\ lbr = Off /\ lbx = Off
    /\ IF part = "bodies" THEN Bodies({"r1", "r2"}, {1, 3}, GoodRoutes)!Init ELSE IF part = "oversize" THEN Bodies({"r1"}, {1, 3, 4}, AllRoutes)!Init
       ELSE tbq = Off /\ tbused = Off /\ tbfault = Off
    /\ IF part = "rewrites" THEN Rewrites!Init ELSE jrw = Off /\ jrin = Off /\ jrout = Off /\ jrp = Off
    /\ CASE part = "alone"      -> Path(Alone, 3, 0, 1)!RpInit
         [] part = "beside"     -> Path(Beside, 2, 0, 1)!RpInit
         [] part = "remembered" -> Path(Remembered, 2, 1, 0)!RpInit
         [] part = "jobs" -> Path(ImageJobs, 1, 1, 0)!RpInit
         [] OTHER -> rq = Off /\ rpserver = Off /\ rpkept = Off /\ rptime = Off

Others(p) ==
    /\ UNCHANGED part
    /\ (p \notin Managers => UNCHANGED npvars) /\ (p # "kobold" => UNCHANGED klvars)
    /\ (p # "vllm" => UNCHANGED vrvars) /\ (p \notin NodeParts => UNCHANGED nrvars)
    /\ (p \notin Registries => UNCHANGED crvars) /\ (p \notin Brokers => UNCHANGED lbvars)
    /\ (p \notin {"bodies", "oversize"} => UNCHANGED tbvars) /\ (p # "rewrites" => UNCHANGED jrvars)
    /\ (p \notin Paths => UNCHANGED rpvars)

Next ==
    \/ part = "pair" /\ Processes({"ma", "mb"}, 1)!Next /\ Others("pair")
    \/ part = "single" /\ Processes({"ma"}, 2)!Next /\ Others("single")
    \/ part = "kobold" /\ Kobold!Next /\ Others("kobold")
    \/ part = "vllm" /\ Vllm!Next /\ Others("vllm")
    \/ part = "runtimes" /\ Runtimes(Pooled, Triggers, 1)!Next /\ Others("runtimes")
    \/ part = "toggled" /\ Runtimes({{}}, {}, 2)!Next /\ Others("toggled")
    \/ part = "polled" /\ Registry({"r1"}, 0, 2, {"u1"})!Next /\ Others("polled")
    \/ part = "updated" /\ Registry({"r1", "r2"}, 1, 1, {})!Next /\ Others("updated")
    \/ part = "planned" /\ Broker(TwoLinks, TwoLinks, {"r1", "r2"}, 0, 1, 0, 0)!Next /\ Others("planned")
    \/ part = "edited" /\ Broker(LoadOrNot, OneLink, {"r2"}, 1, 2, 0, 0)!Next /\ Others("edited")
    \/ part = "lossy" /\ Broker(OneLink, OneLink, {"r2"}, 0, 1, 0, 1)!Next /\ Others("lossy")
    \/ part = "busy" /\ Broker({Link("s", "h", FALSE)}, {Link("s", "h", FALSE)}, {"r2"}, 0, 1, 1, 0)!Next /\ Others("busy")
    \/ part = "bodies" /\ Bodies({"r1", "r2"}, {1, 3}, GoodRoutes)!Next /\ Others("bodies")
    \/ part = "oversize" /\ Bodies({"r1"}, {1, 3, 4}, AllRoutes)!Next /\ Others("oversize")
    \/ part = "rewrites" /\ Rewrites!Next /\ Others("rewrites")
    \/ part = "alone" /\ Path(Alone, 3, 0, 1)!RpNext /\ Others("alone")
    \/ part = "beside" /\ Path(Beside, 2, 0, 1)!RpNext /\ Others("beside")
    \/ part = "remembered" /\ Path(Remembered, 2, 1, 0)!RpNext /\ Others("remembered")
    \/ part = "jobs" /\ Path(ImageJobs, 1, 1, 0)!RpNext /\ Others("jobs")

Spec == Init /\ [][Next]_vars

-----------------------------------------------------------------------------
\* Backend processes (internal/native, kobold, vllm): a process a manager has
\* forgotten is killed, two managers never share a port, a load is reported
\* ready only when the process of this load serves it, a generated config is
\* accounted for, and a closed vLLM manager leaves no child.
ProcessesSafe ==
    /\ part = "pair" => Processes({"ma", "mb"}, 1)!ProcessSafe
    /\ part = "single" => Processes({"ma"}, 2)!ProcessSafe
    /\ part = "kobold" => Kobold!KoboldLoadSafe
    /\ part = "vllm" => Vllm!VllmRuntimeSafe

\* Runtimes of a node (separate_runtime.go, model_state.go, offload_restore.go):
\* a leased runtime keeps its process and its config whatever is evicted,
\* disabled or restored meanwhile (only the Start of another request for its
\* config may stop the process), the pool stays within its limit, enabling a
\* model stops its unload, a displaced config keeps a way back and is put back
\* only over an unused runtime.
RuntimesSafe ==
    /\ part = "runtimes" => Runtimes(Pooled, Triggers, 1)!NodeRuntimesSafe
    /\ part = "toggled" => Runtimes({{}}, {}, 2)!NodeRuntimesSafe

\* The registry (internal/cluster): two URLs never own one node id, one public
\* id names two contents only where a model is named like another's suffixed id,
\* and in-flight counts are those of the requests although polls, registrations
\* and refreshes replace the nodes under them.
RegistrySafe ==
    /\ part = "polled" => Registry({"r1"}, 0, 2, {"u1"})!RegistrySafe
    /\ part = "updated" => Registry({"r1", "r2"}, 1, 1, {})!RegistrySafe



\* The path of a request (model_request.go, backend_forward.go, vllm_responses.go,
\* sdcpp_jobs.go): whichever way a request ends it returns its lease, its route
\* and its queue entry, is served by the config it asked for, generates a
\* bounded number of times and is counted as often as it was forwarded.
PathSafe ==
    /\ part = "alone" => Path(Alone, 3, 0, 1)!RequestPathSafe
    /\ part = "beside" => Path(Beside, 2, 0, 1)!RequestPathSafe
    /\ part = "remembered" => Path(Remembered, 2, 1, 0)!RequestPathSafe
    /\ part = "jobs" => Path(ImageJobs, 1, 1, 0)!RequestPathSafe
=============================================================================
