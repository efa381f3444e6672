----------------------------- MODULE KoboldLoad -----------------------------
(***************************************************************************)
(* Loading a config into KoboldCpp (internal/kobold with                   *)
(* proxy/backend_readiness*.go, backendreadiness and lane.go's             *)
(* loadModelConfig).  KoboldCpp restarts itself to apply a reload: it      *)
(* answers, serves what it had for a moment more, closes its port, and     *)
(* comes back loading, or holding nothing when the reload was lost.  The   *)
(* router tells these apart by probes and by what the process prints.      *)
(* Loads of one lane follow one another (RuntimeLane), so there is one     *)
(* caller; its client may go away in the middle of a load.                 *)
(***************************************************************************)
EXTENDS Naturals, FiniteSets, TLC

CONSTANTS KlConfigs,   \* configs: name -> set of keys
          KlExtra,     \* extra launch arguments
          KlOwnsDefaults, \* whether the router keeps generation defaults to itself
          KlMaxLoads,  \* loads asked for
          KlMaxStarts  \* processes started

VARIABLES kl,   \* the load: pc, cfg, try, stage, watch, result, and ghosts: held and seen (what the
                \* process held and was doing when the load ended), timer (what opened the gate), trouble
          klm,  \* the manager: role, up (it has a process), generated, args
          klp,  \* the process: phase, holds, next, values
          kld   \* generated files on disk

klvars == <<kl, klm, klp, kld>>

Nothing == "none"
modelLoadAttempts == 3
Configs == DOMAIN KlConfigs

-----------------------------------------------------------------------------
(***************************************************************************)
(* What a process is given                                                 *)
(***************************************************************************)
primaryOnlyEmbeddingKeys == {"embeddingsmodel", "embeddingsgpu", "run_embed_separate"}
generationDefaultsKeys == {"gendefaults"}
sharedEmbeddingKeys == {"embeddingsmodel", "embeddingsgpu", "threads", "gpulayers", "usecuda", "usecpu"}
gpuKeys == {"usecuda", "tensor_split"}

RunEmbedSeparate(c) == "run_embed_separate" \in KlConfigs[c]
leavesGenerationDefaultsToRouter(c) ==
    klm.role # "embeddings" /\ KlOwnsDefaults /\ generationDefaultsKeys \cap KlConfigs[c] # {}
embeddingRuntimeValues(keys) ==
    LET kept == keys \cap sharedEmbeddingKeys IN
    IF "embeddingsgpu" \in keys THEN kept \ {"usecpu"} ELSE (kept \cup {"usecpu"}) \ gpuKeys
roleRuntimeContent(c) ==
    IF klm.role = "embeddings" THEN embeddingRuntimeValues(KlConfigs[c])
    ELSE KlConfigs[c] \ ((IF RunEmbedSeparate(c) THEN primaryOnlyEmbeddingKeys ELSE {})
                         \cup (IF leavesGenerationDefaultsToRouter(c) THEN generationDefaultsKeys ELSE {}))
roleArgs(c) == IF klm.role = "embeddings" /\ "embeddingsgpu" \notin KlConfigs[c] THEN {"usecpu"} ELSE {}
embeddingLaunchExtraArgs(cpu) == KlExtra \ ({"usecpu"} \cup (IF cpu THEN gpuKeys \cup {"gpulayers"} ELSE {}))
LaunchArguments(args) ==
    IF klm.role = "embeddings" THEN embeddingLaunchExtraArgs(args # {}) \cup args ELSE KlExtra

\* A file is written for a config that must not reach the process as it is.
NeedsGenerated(c) == RunEmbedSeparate(c) \/ leavesGenerationDefaultsToRouter(c)
\* The keys the process reads for config c, and the refusal of a config of the wrong role.
RuntimeValues(c) == IF NeedsGenerated(c) THEN roleRuntimeContent(c) ELSE KlConfigs[c]
WrongRole(c) == klm.role = "embeddings" /\ ~RunEmbedSeparate(c)

-----------------------------------------------------------------------------
(***************************************************************************)
(* The probes                                                              *)
(***************************************************************************)
Alive == klp.phase # "down"
Healthy == klp.phase \in {"up", "accepted", "loading"}
\* The endpoint lists a model; it answers with none ("inactive"); or it does not answer.
backendEndpointReady == klp.phase \in {"up", "accepted"} /\ klp.holds # Nothing
probeAnswersWithoutModel == Healthy /\ ~backendEndpointReady

\* The scanner keeps its first verdict; a "Loading" line only says that a load was announced.
Observe(w, line) ==
    IF w.verdict # "undecided" THEN w
    ELSE CASE line = "loading" -> [w EXCEPT !.loading = TRUE]
           [] line = "ok"      -> [w EXCEPT !.verdict = "ready"]
           [] line = "failed"  -> [w EXCEPT !.verdict = "failed"]
           [] OTHER            -> w       \* the module banner says nothing
Unwatched == [verdict |-> "undecided", loading |-> FALSE]

Prints(line) == kl' = [kl EXCEPT !.watch = Observe(@, line)]

-----------------------------------------------------------------------------
(***************************************************************************)
(* loadModelConfig and reloadModelConfig                                   *)
(***************************************************************************)
Goto(pc) == kl' = [kl EXCEPT !.pc = pc]
Finish(result) == kl' = [kl EXCEPT !.pc = "idle", !.result = result, !.held = klp.holds, !.seen = klp.phase]
Attempt(c, try) == [pc |-> "reload", cfg |-> c, try |-> try, stage |-> 1, watch |-> Unwatched, result |-> "busy",
                    held |-> Nothing, seen |-> Nothing, timer |-> FALSE]

loadModelConfig(c) ==
    /\ kl.pc = "idle" /\ kl.loads < KlMaxLoads
    /\ kl' = Attempt(c, 1) @@ [kl EXCEPT !.loads = @ + 1]
    /\ UNCHANGED <<klm, klp, kld>>

\* runtimeConfig: materialise the generated file and register it.
runtimeConfig ==
    /\ kl.pc = "reload"
    /\ IF WrongRole(kl.cfg) THEN Goto("reloadFailed") /\ UNCHANGED <<klm, kld>>
       ELSE /\ Goto("ensure")
            /\ klm' = [klm EXCEPT !.generated = IF NeedsGenerated(kl.cfg) THEN @ \cup {kl.cfg} ELSE @,
                                  !.args = IF klm.role = "embeddings" THEN roleArgs(kl.cfg) ELSE @]
            /\ kld' = IF NeedsGenerated(kl.cfg) THEN kld \cup {kl.cfg} ELSE kld
    /\ UNCHANGED klp

removeGenerated == klm' = [klm EXCEPT !.generated = @ \ {kl.cfg}] /\ kld' = kld \ {kl.cfg}

\* spawnLocked: a fresh process comes up holding nothing, or is not healthy in time and is killed.
Fresh == [klp EXCEPT !.phase = "up", !.holds = Nothing, !.next = Nothing, !.starts = @ + 1,
                     !.values = LaunchArguments(klm.args)]
Stopped == [klp EXCEPT !.phase = "down", !.holds = Nothing, !.next = Nothing]

ensureEmbeddingsProcess ==
    /\ kl.pc = "ensure"
    /\ \/ /\ klm.role # "embeddings" \/ klm.up
          /\ Goto("post") /\ UNCHANGED <<klm, klp, kld>>
       \/ /\ klm.role = "embeddings" /\ ~klm.up /\ klp.starts < KlMaxStarts
          /\ klp' = Fresh /\ klm' = [klm EXCEPT !.up = TRUE] /\ Goto("post") /\ UNCHANGED kld
       \/ /\ klm.role = "embeddings" /\ ~klm.up
          /\ removeGenerated /\ kl' = [kl EXCEPT !.pc = "reloadFailed", !.trouble = TRUE] /\ UNCHANGED klp

\* What KoboldCpp makes of an accepted reload: one that arrives while it is still coming up is lost.
Accepts == klp' = IF klp.phase = "loading" THEN [klp EXCEPT !.phase = "closed", !.next = Nothing]
                  ELSE [klp EXCEPT !.phase = "accepted", !.next = kl.cfg]
PostAccepted == /\ kl.pc = "post" /\ Healthy /\ Accepts
                /\ Goto("waitHealthy") /\ UNCHANGED <<klm, kld>>
\* adminReloadBody: the MCP artifacts of the config cannot be reconciled; nothing is asked
\* and the generated file stays for the next stop.
ReconcileFails == /\ kl.pc = "post"
                  /\ kl' = [kl EXCEPT !.pc = "reloadFailed", !.trouble = TRUE]
                  /\ UNCHANGED <<klm, klp, kld>>
\* The answer is a failure, or there is nobody to answer.
PostRefused == /\ kl.pc = "post" /\ removeGenerated
               /\ kl' = [kl EXCEPT !.pc = "reloadFailed", !.trouble = @ \/ Healthy]
               /\ UNCHANGED klp
\* The reload was accepted and its answer is lost; a broken body leaves the generated file.
PostAnswerLost == /\ kl.pc = "post" /\ Healthy /\ Accepts
                  /\ kl' = [kl EXCEPT !.pc = "reloadFailed", !.trouble = TRUE]
                  /\ removeGenerated \/ UNCHANGED <<klm, kld>>

\* ReloadConfig's waitHealthy: the port answers, the process exits, or ninety seconds pass.
waitHealthy ==
    /\ kl.pc = "waitHealthy"
    /\ \/ Healthy /\ Goto("gate") /\ UNCHANGED <<klm, kld>>
       \/ ~Healthy /\ removeGenerated /\ kl' = [kl EXCEPT !.pc = "reloadFailed", !.trouble = TRUE]
    /\ UNCHANGED klp

\* After a failed reload: report it if the backend answers; wait for a live process that is
\* restarting itself; restart a dead one.  Only the first reload of an attempt asks.
reloadModelConfig ==
    /\ kl.pc = "reloadFailed"
    /\ CASE kl.stage = 3 \/ (kl.stage = 1 /\ Healthy) -> Finish("error")
         [] kl.stage = 1 /\ ~Healthy /\ Alive -> Goto("selfWait")
         [] OTHER -> Goto("restart")
    /\ UNCHANGED <<klm, klp, kld>>

waitForBackendProcess ==
    /\ kl.pc = "selfWait"
    /\ \/ Healthy /\ kl' = [kl EXCEPT !.pc = "reload", !.stage = 2]
       \/ ~Alive /\ Goto("restart")
       \/ Alive /\ ~Healthy /\ kl' = [kl EXCEPT !.pc = "restart", !.trouble = TRUE]   \* after a minute
    /\ UNCHANGED <<klm, klp, kld>>

\* Restart: Stop with its clean-up of generated files, then Start.
Restart ==
    /\ kl.pc = "restart"
    /\ kld' = kld \ klm.generated
    /\ \/ /\ klp.starts < KlMaxStarts
          /\ klp' = Fresh /\ klm' = [klm EXCEPT !.generated = {}, !.up = TRUE]
          /\ kl' = [kl EXCEPT !.pc = "reload", !.stage = 3]
       \/ klp' = Stopped /\ klm' = [klm EXCEPT !.generated = {}, !.up = FALSE] /\ Finish("error")

\* awaitOutputGate: a failure ends the load, any other verdict opens the gate, and so do
\* five seconds, whatever the process is doing (at once when its output is not watched).
awaitOutputGate ==
    /\ kl.pc = "gate"
    /\ \/ kl.watch.verdict = "failed" /\ Finish("error")
       \/ kl.watch.verdict = "ready" /\ Goto("probe")
       \/ kl' = [kl EXCEPT !.pc = "probe", !.timer = TRUE]
    /\ UNCHANGED <<klm, klp, kld>>

\* One probe: the exit and a printed failure come first, readiness is the endpoint's word.
probe ==
    /\ kl.pc = "probe"
    /\ \/ (~Alive \/ kl.watch.verdict = "failed") /\ Finish("error")
       \/ Alive /\ kl.watch.verdict # "failed" /\ backendEndpointReady /\ Finish("ready")
    /\ UNCHANGED <<klm, klp, kld>>
\* The backend answers that it holds nothing and announced no load, or the retries are used
\* up (perhaps on a process that still works at it): the load is repeated when the last answer
\* was "no model", and fails otherwise.
stoppedMakingProgress ==
    /\ kl.pc = "probe" /\ Alive /\ ~backendEndpointReady
    /\ IF kl.watch.verdict # "failed" /\ probeAnswersWithoutModel /\ kl.try < modelLoadAttempts
       THEN kl' = Attempt(kl.cfg, kl.try + 1) @@ [kl EXCEPT !.trouble = @ \/ klp.phase # "up"]
       ELSE kl' = [kl EXCEPT !.pc = "idle", !.result = "error", !.trouble = @ \/ klp.phase # "up"]
    /\ UNCHANGED <<klm, klp, kld>>

\* The client goes away: whatever the load waited for, it returns; removeGenerated runs where
\* the code reports the cancelled call.
Cancel ==
    /\ kl.pc \in {"waitHealthy", "gate", "probe", "selfWait"}
    /\ kl' = [kl EXCEPT !.pc = "idle", !.result = "cancelled", !.trouble = TRUE]
    /\ IF kl.pc = "waitHealthy" THEN removeGenerated ELSE UNCHANGED <<klm, kld>>
    /\ UNCHANGED klp

\* Unload of an idle lane: the process is replaced by one that holds nothing (an embeddings
\* process is only stopped) and the generated files are removed.
Unload ==
    /\ kl.pc = "idle" /\ klm.up /\ klp.starts < KlMaxStarts
    /\ klp' = IF klm.role = "embeddings" THEN Stopped ELSE Fresh
    /\ klm' = [klm EXCEPT !.generated = {}, !.up = klm.role # "embeddings"]
    /\ kld' = kld \ klm.generated
    /\ kl' = [kl EXCEPT !.result = "unloaded"]
\* The stop is cancelled, with the process killed and forgotten, or no new one comes up: the
\* generated files stay.
UnloadFails ==
    /\ kl.pc = "idle" /\ klm.up
    /\ klp' = Stopped /\ klm' = [klm EXCEPT !.up = FALSE]
    /\ kl' = [kl EXCEPT !.result = "error", !.trouble = TRUE]
    /\ UNCHANGED kld

-----------------------------------------------------------------------------
(***************************************************************************)
(* The KoboldCpp process                                                   *)
(***************************************************************************)
SelfRestart == /\ klp.phase = "accepted" /\ klp' = [klp EXCEPT !.phase = "closed", !.holds = Nothing]
               /\ UNCHANGED <<kl, klm, kld>>
\* It comes back: it announces the load, or holds nothing because the reload was lost.
ComesBack == /\ klp.phase = "closed"
             /\ \/ klp.next # Nothing /\ klp' = [klp EXCEPT !.phase = "loading"] /\ Prints("loading")
                \/ klp' = [klp EXCEPT !.phase = "up", !.next = Nothing] /\ Prints("banner")
             /\ UNCHANGED <<klm, kld>>
LoadEnds == /\ klp.phase = "loading"
            /\ \/ klp' = [klp EXCEPT !.phase = "up", !.holds = klp.next, !.next = Nothing] /\ Prints("ok")
               \/ klp' = [klp EXCEPT !.phase = "up", !.next = Nothing] /\ Prints("failed")
            /\ UNCHANGED <<klm, kld>>
Exits == /\ Alive /\ klp.exits < 1
         /\ klp' = [Stopped EXCEPT !.exits = @ + 1] /\ kl' = [kl EXCEPT !.trouble = TRUE]
         /\ UNCHANGED <<klm, kld>>

Init == /\ kl = [pc |-> "idle", cfg |-> Nothing, try |-> 0, stage |-> 0, watch |-> Unwatched,
                 result |-> Nothing, held |-> Nothing, seen |-> Nothing, timer |-> FALSE, loads |-> 0, trouble |-> FALSE]
        /\ klm \in {[role |-> r, up |-> r # "embeddings", generated |-> {}, args |-> {}] : r \in {"primary", "embeddings"}}
        /\ klp = [phase |-> IF klm.up THEN "up" ELSE "down", holds |-> Nothing, next |-> Nothing,
                  starts |-> 0, exits |-> 0, values |-> KlExtra]
        /\ kld = {}

ProcessStep == SelfRestart \/ ComesBack \/ LoadEnds
RouterStep == \/ runtimeConfig \/ ensureEmbeddingsProcess
              \/ PostAccepted \/ PostRefused \/ ReconcileFails \/ PostAnswerLost
              \/ waitHealthy \/ reloadModelConfig \/ waitForBackendProcess \/ Restart
              \/ awaitOutputGate \/ probe \/ stoppedMakingProgress
Next == RouterStep \/ ProcessStep \/ Exits \/ Cancel \/ Unload \/ UnloadFails \/ \E c \in Configs : loadModelConfig(c)

Spec == Init /\ [][Next]_klvars
-----------------------------------------------------------------------------
\* A load is reported ready only when the backend holds a model, and it is the model asked
\* for unless the probe reached a process that had accepted the reload and not yet begun it
\* (the finding on ReadyHolds).  That takes a gate opened by its timer, or by a line printed
\* for a load that was given up: a lost reload or answer, a dead process, a refusal or a
\* client that goes away never make another model pass for it by themselves.
ReadyIsServing ==
    kl.result = "ready" =>
        /\ kl.held # Nothing
        /\ kl.held = kl.cfg \/ (kl.seen = "accepted" /\ (kl.timer \/ kl.trouble))

\* Generated configs do not pile up: outside a load, one on disk is one the next stop removes.
GeneratedAccounted == kl.pc = "idle" => kld \subseteq klm.generated

\* A process that is applying a reload is not restarted under it: without an exit, a lost
\* answer, a refusal, a failed unload or an expired wait, no load starts another process.
NoNeedlessRestart == kl.pc = "restart" => kl.trouble

\* Nothing of the embeddings model reaches the primary process when a second process serves
\* it, and that one runs on the CPU or on the GPU, never on both.
RolesSeparate ==
    /\ \A c \in Configs \cap {klp.holds} :
         /\ klm.role = "primary" /\ RunEmbedSeparate(c) => RuntimeValues(c) \cap primaryOnlyEmbeddingKeys = {}
         /\ klm.role = "embeddings" => /\ RuntimeValues(c) \subseteq sharedEmbeddingKeys
                                     /\ ~({"usecpu", "usecuda"} \subseteq RuntimeValues(c))
    /\ klm.role = "embeddings" /\ klp.starts > 0 => ~({"usecpu", "usecuda"} \subseteq klp.values)

KoboldLoadSafe == ReadyIsServing /\ GeneratedAccounted /\ NoNeedlessRestart /\ RolesSeparate

\* A load is reported ready when the backend holds the config that was asked for.
ReadyHolds == kl.result = "ready" => kl.held = kl.cfg
=============================================================================
