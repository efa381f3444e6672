---------------------------- MODULE RequestPath ----------------------------
(***************************************************************************)
(* The way of one inference request through a node, for the text, image    *)
(* and audio lanes (internal/proxy): choosing the target, the guardian of a *)
(* model that reads no images, the route of the registry, the lending      *)
(* queue, the lease of the runtime, the retry session and the answer; and  *)
(* the vLLM responses and sd.cpp jobs the router remembers after the       *)
(* answer is gone.                                                         *)
(*                                                                         *)
(* One runtime is shared by all requests, as by the lanes of a KoboldCpp   *)
(* family, and no two configs are siblings that may share it.  Tickets and *)
(* preemption are the subject of RuntimeLane; here a lease is granted when *)
(* the runtime holds the wanted config, and a switch begins when nobody    *)
(* uses it.  The queue is the subject of LendingQueue; here it answers in   *)
(* any of the ways it may.                                                 *)
(***************************************************************************)
EXTENDS Integers, FiniteSets

CONSTANTS
  RpRequests,      \* the requests
  RpShapes,        \* what each request may be, see Shape in the MC modules
  RpGuardian,      \* the config of the guardian model
  RpInference,     \* backendInferenceRetryAttempts
  RpReadiness,     \* backendRetryAttempts
  RpKeepLimit,     \* maxVLLMResponses, maxSdcppJobs
  RpLifetime,      \* vllmResponseLifetime, sdcppJobLifetime
  RpMaxTime,       \* bound: ticks of the clock
  RpMaxCrashes     \* bound: deaths of the backend

VARIABLES
  rq,              \* the requests and what each holds
  rpserver,        \* the runtime: its record, its loads, its process
  rpkept,          \* the remembered responses and jobs
  rptime           \* the clock, the deaths so far, whether the store closed

rpvars == <<rq, rpserver, rpkept, rptime>>

NoConfig == "no config"

(***************************************************************************)
(* A shape says what decides the way of a request.                         *)
(*   lane      text, image, audio                                          *)
(*   target    what its name is: of a recipe, of a model of the registry or *)
(*             only of the local catalog, unknown, or none; or it is a     *)
(*             realtime connection, or is about a response or a job        *)
(*   path      core (chat and completions), embeddings, responses of vLLM, *)
(*             jobs of sd.cpp, options, discovery, cancel, or other        *)
(*   config    the config its name stands for                              *)
(*   borrowed  no, keep (may not load), load                               *)
(*   picture   none, known (the registry knows its model reads none and     *)
(*             that it has a guardian), learned                            *)
(*   stream    it asks for an event stream                                 *)
(* Only text and image models are lent, and only by their own names.       *)
(***************************************************************************)
RpTargets ==
  [text  |-> {"recipe", "registry", "local", "none", "operation"},
   image |-> {"recipe", "registry", "local", "none", "job"},
   audio |-> {"recipe", "registry", "local", "unknown", "none", "realtime"}]

Shapes ==
  {s \in [lane : {"text", "image", "audio"},
          target : UNION {RpTargets[lane] : lane \in {"text", "image", "audio"}},
          path : {"core", "embeddings", "responses", "jobs", "options", "discovery", "cancel", "other"},
          config : STRING, borrowed : {"no", "keep", "load"},
          picture : {"none", "known", "learned"}, stream : BOOLEAN] :
     /\ s.target \in RpTargets[s.lane]
     /\ s.path = "options" => s.lane = "image" /\ s.target # "job"
     /\ s.borrowed # "no" => s.target = "registry" /\ s.lane # "audio" /\ s.path # "options"}

\* What the theorems need of the constants: finitely many requests, of the
\* shapes there are, budgets of retries that are numbers, and room in the stores.
RpInputs ==
  /\ IsFiniteSet(RpRequests)
  /\ \A r \in RpRequests : RpShapes[r] \subseteq Shapes
  /\ RpInference \in Nat /\ RpReadiness \in Nat
  /\ RpKeepLimit \in Nat /\ RpKeepLimit > 0

RpInit ==
  /\ \E shapes \in [RpRequests -> UNION {RpShapes[r] : r \in RpRequests}] :
       /\ \A r \in RpRequests : shapes[r] \in RpShapes[r]
       /\ rq = [r \in RpRequests |->
                 [shape |-> shapes[r], config |-> shapes[r].config, pc |-> "idle",
                  redirected |-> FALSE, remote |-> FALSE, route |-> FALSE, entry |-> "none",
                  lease |-> FALSE, attempt |-> 0, result |-> "none", skip |-> FALSE,
                  recovered |-> FALSE, generated |-> 0, body |-> "none", kept |-> FALSE,
                  forwards |-> 0, events |-> 0, gone |-> FALSE, about |-> "none", answer |-> "none"]]
  /\ rpserver = [config |-> NoConfig, switching |-> FALSE, epoch |-> 0, alive |-> TRUE]
  /\ rpkept = {}
  /\ rptime = [now |-> 0, crashes |-> 0, closed |-> FALSE]

-----------------------------------------------------------------------------
(* What a request holds and how it lets go.                                *)

\* state.users of the runtime: one for each lease not yet released.
users == Cardinality({r \in RpRequests : rq[r].lease})
           + Cardinality({k \in rpkept : k.lease})

release(q) == [q EXCEPT !.route = FALSE]
releaseModel(q) == [q EXCEPT !.lease = FALSE]
complete(q) == [q EXCEPT !.entry = "none"]

At(r, pc) == rq[r].pc = pc
In(r, lane, targets) == rq[r].shape.lane = lane /\ rq[r].shape.target \in targets

Becomes(r, q) == rq' = [rq EXCEPT ![r] = q]
Alone(r, q) == Becomes(r, q) /\ UNCHANGED <<rpserver, rpkept, rptime>>
Goes(r, pc) == Alone(r, [rq[r] EXCEPT !.pc = pc])

Answered(q, answer) == [q EXCEPT !.pc = "done", !.answer = answer]

\* The handler returns; its deferred release and complete run, or it has called
\* them itself, or it holds nothing yet.
Returns(r, answer) == Alone(r, Answered(release(complete(rq[r])), answer))

\* What is forwarded locally is an event of the analytics, except a text path
\* that is no inference and names no model, audio and image calls that name
\* none, and what is done for responses.
observed(q) ==
  /\ q.shape.target # "operation"
  /\ q.shape.target = "none" => q.shape.lane = "text" /\ q.shape.path = "embeddings"

\* Forwarding begins: with a model to load, or to whatever the family runs.
BeginForward(r) ==
  LET q == rq[r] IN
  Alone(r, [q EXCEPT !.pc = IF q.shape.target \in {"none", "unknown"} THEN "family" ELSE "load",
                     !.forwards = IF observed(q) THEN @ + 1 ELSE @])

recordFailure(q) == IF observed(q) THEN [q EXCEPT !.events = @ + 1] ELSE q

\* Forwarding failed: recorded, and everything is let go.
forwardFailed(q) == Answered(release(complete(recordFailure(q))), "error")

-----------------------------------------------------------------------------
(* Dispatch and the choice of the target.                                  *)

\* The method is refused, no memory is left for a body, or no handler serves
\* the path; realtime and operations are dispatched before all that.
serveHTTP(r) ==
  LET s == rq[r].shape
      session == s.target \in {"realtime", "operation"}
  IN /\ At(r, "idle")
     /\ \/ ~session /\ Returns(r, "error")
        \/ Goes(r, IF session THEN s.target ELSE IF s.path = "options" THEN "options" ELSE s.lane)

\* The client goes away; its context is cancelled.
ClientLeaves(r) ==
  /\ rq[r].pc \notin {"idle", "done"}
  /\ ~rq[r].gone
  /\ Alone(r, [rq[r] EXCEPT !.gone = TRUE])

\* The body or the model in it cannot be read, a model is required, or none
\* serves a vLLM path without one.
selectRequestModel(r) ==
  /\ At(r, "text")
  /\ \/ Returns(r, "error")
     \/ Goes(r, IF rq[r].shape.target = "none" THEN "local" ELSE "named")

\* An embedding without a model takes a route to a loaded one, or without a
\* registry a loaded local one.
selectSelectorlessEmbeddingModel(r) ==
  LET q == rq[r] IN
  /\ At(r, "text") /\ q.shape.target = "none" /\ q.shape.path = "embeddings"
  /\ \/ \E remote \in BOOLEAN :
          Alone(r, [q EXCEPT !.pc = "prepare", !.route = TRUE, !.remote = remote,
                             !.shape.target = "registry"])
     \/ Alone(r, [q EXCEPT !.pc = "local", !.shape.target = "local"])

guardiansMayAnswer(q) == q.shape.borrowed = "no" /\ ~q.redirected

guardianBeforeSend(q) == q.shape.picture = "known" /\ guardiansMayAnswer(q)

\* A guardian, a recipe, the registry, the local catalog, in this order.
routeNamedModelRequest(r) ==
  /\ At(r, "named")
  /\ Goes(r, IF guardianBeforeSend(rq[r]) THEN "takeover"
             ELSE [recipe |-> "recipe", registry |-> "route", local |-> "local"][rq[r].shape.target])

\* The marked request starts over as one of the registry, with the guardian's
\* public id.
handleGuardianTakeover(r) ==
  /\ At(r, "takeover")
  /\ Alone(r, [rq[r] EXCEPT !.pc = "route", !.redirected = TRUE, !.config = RpGuardian,
                            !.shape.target = "registry", !.attempt = 0, !.result = "none",
                            !.skip = FALSE, !.recovered = FALSE, !.generated = 0, !.body = "none"])

\* The model is unknown, unsuited to the path, disabled, or its mode unusable.
resolveLocalModelTarget(r) ==
  /\ At(r, "local") /\ rq[r].shape.lane = "text"
  /\ Returns(r, "error") \/ Goes(r, "ready")

\* The image runtime beside the model cannot be loaded, or the body rewritten.
forwardLocalModelRequest(r) ==
  /\ At(r, "ready") /\ In(r, "text", {"local", "none"})
  /\ Returns(r, "error") \/ BeginForward(r)

\* The body or the selector cannot be read; a job and a discovery path are
\* served without a model, and whatever else names none by the active one.
handleImageRequest(r) ==
  LET s == rq[r].shape IN
  /\ At(r, "image")
  /\ \/ Returns(r, "error")
     \/ s.target \notin {"none", "job"} /\ Goes(r, IF s.target = "registry" THEN "route" ELSE s.target)
     \/ s.target = "job" /\ Goes(r, "job")
     \/ s.target = "none" /\ s.path = "discovery" /\ Goes(r, "ready")
     \/ s.target = "none" /\ s.path # "discovery" /\ Goes(r, "active")

forwardImageDiscovery(r) ==
  /\ At(r, "ready") /\ In(r, "image", {"none"})
  /\ Returns(r, "error") \/ BeginForward(r)

\* The image model the runtime holds now, if it holds one.
resolveActiveImageModel(r) ==
  LET q == rq[r] IN
  /\ At(r, "active")
  /\ \/ Returns(r, "error")
     \/ /\ rpserver.config # NoConfig
        /\ Alone(r, [q EXCEPT !.pc = "local", !.shape.target = "local", !.config = rpserver.config])

\* The model is not visible, its mode unusable, or the text runtime it needs
\* beside it cannot be loaded.
prepareLocalImageModel(r) ==
  /\ At(r, "local") /\ rq[r].shape.lane = "image"
  /\ \/ Returns(r, "error")
     \/ Goes(r, IF rq[r].shape.path = "options" THEN "load" ELSE "ready")

forwardLocalImageRequest(r) ==
  /\ At(r, "ready") /\ In(r, "image", {"local"})
  /\ BeginForward(r)

\* The body or the model cannot be read, or nobody transcribes where none is
\* named.
handleAudioRequest(r) ==
  LET first == [recipe |-> "recipe", registry |-> "route", local |-> "local",
                unknown |-> "local", none |-> "local"]
  IN /\ At(r, "audio")
     /\ Returns(r, "error") \/ Goes(r, first[rq[r].shape.target])

\* The model does not do this kind of audio, or its backend not this path.
resolveLocalAudioTarget(r) ==
  /\ At(r, "local") /\ rq[r].shape.lane = "audio"
  /\ Returns(r, "error") \/ Goes(r, "ready")

\* A whisper request cannot be adapted.
forwardLocalAudioRequest(r) ==
  /\ At(r, "ready") /\ In(r, "audio", {"local", "unknown", "none"})
  /\ Returns(r, "error") \/ BeginForward(r)

\* GET reads the active checkpoint and POST without a model changes nothing.  A
\* recipe is forwarded to like any image request.
handleImageOptions(r) ==
  LET s == rq[r].shape IN
  /\ At(r, "options")
  /\ \/ Returns(r, "error")
     \/ s.target = "none" /\ Returns(r, "served")
     \/ s.target = "recipe" /\ Alone(r, [rq[r] EXCEPT !.pc = "recipe", !.shape.path = "other"])
     \/ s.target = "registry" /\ Goes(r, "route")
     \/ s.target = "local" /\ Goes(r, "local")

\* The component is disabled, its mode or path is refused, the body cannot be
\* rewritten; it runs on another node, or here.
recipeComponentGoes(r, lane) ==
  /\ At(r, "recipe") /\ rq[r].shape.lane = lane
  /\ \/ Returns(r, "error")
     \/ Alone(r, [rq[r] EXCEPT !.pc = "remote", !.remote = TRUE])
     \/ BeginForward(r)

handleRecipeModelRequest(r) == recipeComponentGoes(r, "text")

\* Here an error is also a text runtime that cannot be loaded.
handleRecipeImageRequest(r) == recipeComponentGoes(r, "image")

handleRecipeAudioRequest(r) == recipeComponentGoes(r, "audio")

-----------------------------------------------------------------------------
(* The route of the registry.                                              *)

borrowedRequestMustStayOnThisNode(q, remote) == q.shape.borrowed # "no" /\ remote

\* A replica is chosen and its use counted, or there is none; a borrowed
\* request does not follow a route away from here.
handleRegistryModelRequest(r) ==
  LET q == rq[r] IN
  /\ At(r, "route") /\ q.shape.lane = "text"
  /\ \/ Returns(r, "error")
     \/ \E remote \in BOOLEAN :
          IF borrowedRequestMustStayOnThisNode(q, remote) THEN Returns(r, "returned")
          ELSE Alone(r, [q EXCEPT !.pc = "prepare", !.route = TRUE, !.remote = remote])

acquireRegistryImageRoute(r) ==
  LET q == rq[r] IN
  /\ At(r, "route") /\ q.shape.lane = "image"
  /\ \/ Returns(r, "error")
     \/ \E remote \in BOOLEAN :
          IF borrowedRequestMustStayOnThisNode(q, remote) THEN Returns(r, "returned")
          ELSE Alone(r, [q EXCEPT !.pc = IF remote THEN "remote" ELSE "admit",
                                  !.route = TRUE, !.remote = remote])

acquireRegistryAudioRequest(r) ==
  LET q == rq[r] IN
  /\ At(r, "route") /\ q.shape.lane = "audio"
  /\ \/ Returns(r, "error")
     \/ \E remote \in BOOLEAN :
          Alone(r, [q EXCEPT !.pc = IF remote THEN "remote" ELSE "admit",
                             !.route = TRUE, !.remote = remote])

\* The path and the mode suit the model and the body can be rewritten.
prepareRegistryTextRequest(r) ==
  /\ At(r, "prepare")
  /\ Returns(r, "error") \/ Goes(r, IF rq[r].remote THEN "remote" ELSE "admit")

\* The other node answers, well or not, or it cannot be reached.
forwardRemote(r) ==
  /\ At(r, "remote")
  /\ \/ Returns(r, "error")
     \/ ~rq[r].gone /\ \E result \in {"ok", "other"} :
          Alone(r, [rq[r] EXCEPT !.pc = "answered", !.body = "remote", !.result = result])

\* The check reads the record; nothing keeps it as it is until the load.
borrowedRequestWouldLoadWithoutPermission(q) ==
  q.shape.borrowed = "keep" /\ rpserver.config # q.config

\* The mode cannot be resolved, or the image runtime beside the model cannot be
\* loaded; the deferred release runs.  Embeddings are not queued.
admitLocalRegistryTextRequest(r) ==
  LET q == rq[r] IN
  /\ At(r, "admit") /\ q.shape.lane = "text"
  /\ \/ Returns(r, "error")
     \/ borrowedRequestWouldLoadWithoutPermission(q) /\ Returns(r, "returned")
     \/ /\ ~borrowedRequestWouldLoadWithoutPermission(q)
        /\ Goes(r, IF q.shape.path = "embeddings" THEN "ready" ELSE "queue")

\* Mutant: a refusal forgets the route.
admitImageKeepingRoute(r) ==
  LET q == rq[r] IN
  /\ At(r, "admit") /\ q.shape.lane = "image" /\ q.shape.path # "options"
  /\ \/ Alone(r, Answered(q, "error"))
     \/ borrowedRequestWouldLoadWithoutPermission(q) /\ Alone(r, Answered(q, "returned"))
     \/ ~borrowedRequestWouldLoadWithoutPermission(q) /\ Goes(r, "queue")

\* Every refusal releases the route itself.
admitLocalRegistryImageRequest(r) ==
  LET q == rq[r] IN
  /\ At(r, "admit") /\ q.shape.lane = "image" /\ q.shape.path # "options"
  /\ \/ Returns(r, "error")
     \/ borrowedRequestWouldLoadWithoutPermission(q) /\ Returns(r, "returned")
     \/ ~borrowedRequestWouldLoadWithoutPermission(q) /\ Goes(r, "queue")

\* Audio never queues for lending; a split backend may not serve the path.
admitLocalRegistryAudioRequest(r) ==
  /\ At(r, "admit") /\ rq[r].shape.lane = "audio"
  /\ Returns(r, "error") \/ Goes(r, "ready")

forwardLocalRegistryTextRequest(r) ==
  /\ At(r, "ready") /\ In(r, "text", {"registry"})
  /\ BeginForward(r)

\* The text runtime a model needs beside it cannot be loaded.
forwardRegistryImageRequest(r) ==
  /\ At(r, "ready") /\ In(r, "image", {"registry"})
  /\ Returns(r, "error") \/ BeginForward(r)

forwardLocalRegistryAudioRequest(r) ==
  /\ At(r, "ready") /\ In(r, "audio", {"registry"})
  /\ BeginForward(r)

\* The options only load the runtime, or the text runtime cannot be loaded.
loadLocalImageOptions(r) ==
  /\ At(r, "admit") /\ rq[r].shape.path = "options"
  /\ Returns(r, "error") \/ Goes(r, "load")

\* The lease is given up as soon as it is had.
loadImageOptionsModel(r) ==
  /\ At(r, "loaded")
  /\ Alone(r, Answered(release(releaseModel(rq[r])), "served"))

-----------------------------------------------------------------------------
(* The lending queue.                                                      *)

\* The model is in no link; or the request waits until it is admitted, its
\* client leaves, it is handed back, or it is withdrawn for lending.
throughLendingQueue(r, lane, pinned) ==
  LET q == rq[r] IN
  /\ At(r, "queue") /\ q.shape.lane = lane
  /\ \/ Goes(r, "ready")
     \/ Alone(r, [q EXCEPT !.pc = "ready", !.entry = "admitted"])
     \/ q.gone /\ Returns(r, "error")
     \/ q.shape.borrowed # "no" /\ Returns(r, "returned")
     \/ /\ q.shape.borrowed = "no" /\ ~pinned
        /\ Alone(r, [q EXCEPT !.pc = "lent", !.entry = "lent"])

\* A stream is pinned to this node.
serveTextThroughLendingQueue(r) == throughLendingQueue(r, "text", rq[r].shape.stream)
serveImageThroughLendingQueue(r) == throughLendingQueue(r, "image", FALSE)

\* A text request does not fit its helper, or the request cannot be sent or is
\* returned: the lending is finished and it is queued again with its arrival.
\* Or the helper answers.
forwardOffloadedRequest(r) ==
  /\ At(r, "lent")
  /\ \/ Alone(r, [rq[r] EXCEPT !.pc = "requeued", !.entry = "queued"])
     \/ ~rq[r].gone /\ Alone(r, [rq[r] EXCEPT !.pc = "relay", !.body = "lent"])

serveWithdrawnTextRequest(r) ==
  /\ At(r, "requeued")
  /\ \/ Alone(r, [rq[r] EXCEPT !.pc = "ready", !.entry = "admitted"])
     \/ rq[r].gone /\ Returns(r, "error")

-----------------------------------------------------------------------------
(* The lease of the runtime.                                               *)

\* Where the holder of the lease goes on.
Leased(q) ==
  [q EXCEPT !.lease = TRUE,
            !.pc = CASE q.shape.target = "realtime" -> "connect"
                     [] q.shape.path = "options"    -> "loaded"
                     [] OTHER                       -> "forward"]

\* What failing to get it means for options and realtime, which are no event,
\* and for a forwarding.
LeaseFails(q) ==
  IF q.shape.target = "realtime" \/ q.shape.path = "options"
  THEN Answered(release(q), "error") ELSE forwardFailed(q)

\* The runtime, the assets or the family are not to be had or the wait runs
\* out; the runtime holds the config; or it is unused and begins to switch.
acquireModelConfig(r) ==
  LET q == rq[r] IN
  /\ At(r, "load")
  /\ \/ Alone(r, LeaseFails(q))
     \/ /\ ~rpserver.switching /\ rpserver.config = q.config
        /\ Alone(r, Leased(q))
     \/ /\ ~rpserver.switching /\ rpserver.config # q.config /\ users = 0
        /\ rpserver' = [rpserver EXCEPT !.switching = TRUE]
        /\ Becomes(r, [q EXCEPT !.pc = "loading"])
        /\ UNCHANGED <<rpkept, rptime>>

Loaded(config, epoch) ==
  [config |-> config, switching |-> FALSE, epoch |-> epoch, alive |-> TRUE]

\* A load that fails leaves the runtime without a config.
loadModelConfig(r) ==
  LET q == rq[r] IN
  /\ At(r, "loading")
  /\ \/ rpserver' = Loaded(q.config, rpserver.epoch + 1) /\ Becomes(r, Leased(q))
     \/ rpserver' = Loaded(NoConfig, rpserver.epoch) /\ Becomes(r, LeaseFails(q))
  /\ UNCHANGED <<rpkept, rptime>>

\* The family is leased and let go before the request is sent, and nothing is
\* retried.
forwardToBackendFamily(r) ==
  LET q == rq[r] IN
  /\ At(r, "family")
  /\ \/ Alone(r, forwardFailed(q))
     \/ rpserver.alive /\ ~q.gone /\ Alone(r, [q EXCEPT !.pc = "relay", !.body = "family"])

-----------------------------------------------------------------------------
(* The retry session.                                                      *)

\* What the JSON of an answer may turn out to be: of a backend that calls itself
\* inactive, or without any text or tool call.
coreResponseHasEmptyText == {"inactive", "empty"}

\* On a core path a success may still be worth a retry: nothing at all, or such
\* an answer.  Of a stream only the first byte is looked at.
successRetryResult(q) ==
  IF q.shape.path # "core" THEN {"ok"}
  ELSE {"ok", "blank"} \cup (IF q.shape.stream THEN {} ELSE coreResponseHasEmptyText)

\* A 5xx is retried unless it refuses a picture, any other status is passed on.
backendRetryResult(q) ==
  IF q.gone \/ ~rpserver.alive THEN {"transport"}
  ELSE successRetryResult(q) \cup {"transport", "status", "other"}
         \cup (IF q.shape.picture = "learned" THEN {"refused"} ELSE {})

Passing == {"ok", "other", "refused"}

\* One attempt; answers that were generated are counted.
sessionForward(r) ==
  LET q == rq[r] IN
  /\ At(r, "forward")
  /\ \E result \in backendRetryResult(q) :
       Alone(r, [q EXCEPT !.result = result,
                          !.generated = IF result \in {"ok", "blank", "empty"} THEN @ + 1 ELSE @,
                          !.body = IF result \in Passing THEN "local" ELSE "none",
                          !.pc = IF result \in Passing THEN "answered" ELSE "recover"])

\* Once in a session, when the client is there and the backend not found
\* healthy: a dead one is not, a live one may fail the probe.
shouldRecoverBackend(q) ==
  IF q.recovered \/ q.result # "transport" \/ q.gone THEN {FALSE}
  ELSE {TRUE} \cup {~rpserver.alive}

recoverIfTransportFailed(r) ==
  /\ At(r, "recover")
  /\ \E recover \in shouldRecoverBackend(rq[r]) : Goes(r, IF recover THEN "reload" ELSE "wait")

\* The lease is kept until it is the only one, or the wait for the others runs
\* out.
reloadHeldModelConfig(r) ==
  /\ At(r, "reload")
  /\ \/ Alone(r, forwardFailed(releaseModel(rq[r])))
     \/ /\ ~rpserver.switching /\ users <= 1
        /\ rpserver' = [rpserver EXCEPT !.switching = TRUE]
        /\ Becomes(r, [rq[r] EXCEPT !.pc = "reloading"])
        /\ UNCHANGED <<rpkept, rptime>>

finishReload(r) ==
  LET q == rq[r] IN
  /\ At(r, "reloading")
  /\ \/ /\ rpserver' = Loaded(q.config, rpserver.epoch + 1)
        /\ Becomes(r, [q EXCEPT !.pc = "wait", !.recovered = TRUE])
     \/ /\ rpserver' = Loaded(NoConfig, rpserver.epoch)
        /\ Becomes(r, forwardFailed(releaseModel(q)))
  /\ UNCHANGED <<rpkept, rptime>>

\* An inactive backend is waited for, which replaces the delay.
waitIfInactive(r) ==
  LET q == rq[r] IN
  /\ At(r, "wait")
  /\ \/ Alone(r, [q EXCEPT !.pc = "again", !.skip = (q.result = "inactive")])
     \/ q.result = "inactive" /\ Alone(r, forwardFailed(releaseModel(q)))

\* The large budget for a backend that is still starting, the small one for an
\* answer that is generated again; the smaller of the two at most.
inferenceRetryAttempts(result) ==
  IF result = "inactive" \/ RpInference > RpReadiness THEN RpReadiness ELSE RpInference

\* The next attempt, from the second on after a delay that the client leaving
\* may end.
retryUntilExhausted(r) ==
  LET q == rq[r] IN
  /\ At(r, "again")
  /\ q.attempt + 1 <= inferenceRetryAttempts(q.result)
  /\ \/ Alone(r, [q EXCEPT !.pc = "forward", !.attempt = @ + 1])
     \/ /\ q.attempt + 1 > 1 /\ ~q.skip /\ q.gone
        /\ Alone(r, forwardFailed(releaseModel(q)))

\* An answer that is merely empty is handed out as it came.
exhausted(r) ==
  LET q == rq[r] IN
  /\ At(r, "again")
  /\ q.attempt + 1 > inferenceRetryAttempts(q.result)
  /\ IF q.result = "empty"
     THEN Alone(r, [q EXCEPT !.pc = "answered", !.body = "local"])
     ELSE Alone(r, forwardFailed(releaseModel(q)))

-----------------------------------------------------------------------------
(* Realtime connections.                                                   *)

\* The upgrade or the selector is missing, there is no replica, or the model
\* does not hear; the release of the route is deferred.
handleVLLMRealtime(r) ==
  LET q == rq[r] IN
  /\ At(r, "realtime")
  /\ \/ Returns(r, "error")
     \/ \E remote \in BOOLEAN :
          Alone(r, [q EXCEPT !.pc = IF remote THEN "connect" ELSE "load",
                             !.route = TRUE, !.remote = remote])

\* The connection fails, is not upgraded, or cannot be handed to the client; or
\* it lasts, and the lease with it.
openRealtimeBackend(r) ==
  LET q == rq[r] IN
  /\ At(r, "connect")
  /\ \/ Alone(r, Answered(release(releaseModel(q)), "error"))
     \/ /\ ~q.gone /\ (q.remote \/ rpserver.alive)
        /\ Alone(r, [q EXCEPT !.pc = "relay", !.body = IF q.remote THEN "remote" ELSE "local"])

-----------------------------------------------------------------------------
(* After the answer.                                                       *)

\* The answer is to be written: with a look for what to remember, or as it is.
Written(q) ==
  [q EXCEPT !.pc = IF q.shape.path \in {"responses", "jobs"} THEN "track" ELSE "relay"]

\* A local text model refused the picture, and it has a guardian: the answer is
\* closed, which releases the runtime, and recorded; the entry is completed and
\* the route released before the guardian takes over.
guardianAfterRefusal(r) ==
  LET q == rq[r] IN
  /\ At(r, "answered") /\ In(r, "text", {"registry"})
  /\ q.result = "refused" /\ ~q.remote /\ guardiansMayAnswer(q)
  /\ Alone(r, [release(complete(recordFailure(releaseModel(q)))) EXCEPT !.pc = "takeover"])

writeRegistryTextResponse(r) ==
  At(r, "answered") /\ In(r, "text", {"registry"}) /\ Alone(r, Written(rq[r]))

writeRegistryImageResponse(r) ==
  At(r, "answered") /\ In(r, "image", {"registry"}) /\ Alone(r, Written(rq[r]))

handleRegistryAudioRequest(r) ==
  At(r, "answered") /\ In(r, "audio", {"registry"}) /\ Alone(r, Written(rq[r]))

\* Recipes, local models and jobs.
writeForwardedResponse(r) ==
  /\ At(r, "answered") /\ rq[r].shape.target \in {"recipe", "local", "job"}
  /\ Alone(r, Written(rq[r]))

\* A stream is watched while it is written.  Another answer that succeeded is
\* read to its end and closed, which releases the lease, and only then is it
\* remembered; unless it is no JSON or too long, breaks off, or carries no id.
trackAnswer(r, path) ==
  LET q == rq[r]
      closed == [releaseModel(q) EXCEPT !.body = IF @ = "local" THEN "closed" ELSE @]
  IN /\ At(r, "track") /\ q.shape.path = path
     /\ \/ Goes(r, "relay")
        \/ /\ q.result = "ok" /\ ~q.shape.stream
           /\ \E pc \in {"relay", "remember"} : Alone(r, [closed EXCEPT !.pc = pc])

responseWithVLLMTracking(r) == trackAnswer(r, "responses")
responseWithSdcppJobTracking(r) == trackAnswer(r, "jobs")

expired(path) == {k \in rpkept : k.path = path /\ k.expires <= rptime.now}

\* Of the given entries one with the first expiry, when there are too many.
removeOldest(mine) ==
  IF Cardinality(mine) < RpKeepLimit THEN {mine}
  ELSE {mine \ {k} : k \in {k \in mine : \A l \in mine : k.expires <= l.expires}}

\* A switching or empty runtime cannot be leased; else whatever it holds is.
acquireLoadedRuntimeLease == ~rpserver.switching /\ rpserver.config # NoConfig

\* Expired entries go, one of the oldest goes when the store is full, and the
\* new one is kept, with a lease if it is asked for and to be had.
remember(r, path, leases) ==
  LET mine == {k \in rpkept : k.path = path} \ expired(path)
      entry == [id |-> r, path |-> path, config |-> rq[r].config, remote |-> rq[r].remote,
                stream |-> rq[r].shape.stream, lease |-> leases /\ acquireLoadedRuntimeLease,
                leased |-> rpserver.config, epoch |-> rpserver.epoch,
                expires |-> rptime.now + RpLifetime]
  IN \E others \in removeOldest(mine) :
       rpkept' = {k \in rpkept : k.path # path} \cup others \cup {entry}

\* A closed store gives the lease back.  A stream does this once, while it is
\* read and holds its own lease.
rememberResponse(r) ==
  LET q == rq[r]
      watched == q.shape.stream /\ q.result = "ok" /\ ~q.kept /\ q.body # "lent"
  IN /\ q.shape.path = "responses"
     /\ At(r, "remember") \/ (At(r, "relay") /\ watched)
     /\ Becomes(r, [q EXCEPT !.pc = "relay", !.kept = TRUE])
     /\ IF rptime.closed THEN UNCHANGED rpkept ELSE remember(r, "responses", ~q.remote)
     /\ UNCHANGED <<rpserver, rptime>>

rememberJob(r) ==
  /\ At(r, "remember") /\ rq[r].shape.path = "jobs"
  /\ Becomes(r, [rq[r] EXCEPT !.pc = "relay", !.kept = TRUE])
  /\ remember(r, "jobs", FALSE)
  /\ UNCHANGED <<rpserver, rptime>>

\* A later call about what is remembered goes where that was made.
Follows(q, k) == [q EXCEPT !.about = k.id, !.config = k.config, !.remote = k.remote]

\* The path or the method is refused, the response is not known (any more), or
\* the body cannot be read.
handleVLLMResponseOperation(r) ==
  /\ At(r, "operation")
  /\ rpkept' = rpkept \ expired("responses")
  /\ \/ Becomes(r, Answered(rq[r], "error"))
     \/ \E k \in rpkept' : k.path = "responses" /\
          Becomes(r, [Follows(rq[r], k) EXCEPT !.pc = IF k.remote THEN "remote" ELSE "load"])
  /\ UNCHANGED <<rpserver, rptime>>

\* A job that is not known (any more) is taken for the active model's.
forwardTrackedSdcppJob(r) ==
  /\ At(r, "job")
  /\ rpkept' = rpkept \ expired("jobs")
  /\ \/ Becomes(r, [rq[r] EXCEPT !.pc = "active"])
     \/ \E k \in rpkept' : k.path = "jobs" /\
          Becomes(r, [Follows(rq[r], k) EXCEPT !.pc = IF k.remote THEN "remote" ELSE "load",
                                               !.forwards = IF k.remote THEN @ ELSE @ + 1])
  /\ UNCHANGED <<rpserver, rptime>>

\* A response that was deleted or cancelled is forgotten and its lease given up.
forgetResponse(r) ==
  LET q == rq[r]
      ended == q.result = "ok" /\ q.shape.path = "cancel"
  IN /\ At(r, "answered") /\ q.shape.target = "operation"
     /\ Becomes(r, [q EXCEPT !.pc = "relay"])
     /\ rpkept' = IF ended THEN {k \in rpkept : k.path # "responses" \/ k.id # q.about} ELSE rpkept
     /\ UNCHANGED <<rpserver, rptime>>

\* The answer is written, or is too long for that, and its body closed: the
\* lease, the route, the lending and the event end here, then the entry.
responseClosed(r) ==
  LET q == rq[r]
      ended == complete(release(releaseModel(q)))
  IN /\ At(r, "relay")
     /\ \E answer \in {"served", "error"} :
          Alone(r, Answered(IF q.body \in {"local", "closed", "family"} THEN recordFailure(ended) ELSE ended,
                            answer))

writeModelProxyResponse(r) == rq[r].shape.lane = "text" /\ responseClosed(r)
writeProxyResponse(r) ==
  rq[r].shape.lane # "text" /\ rq[r].shape.target # "realtime" /\ responseClosed(r)

\* Either side ends the connection.
proxyBidirectionalStream(r) ==
  /\ At(r, "relay") /\ rq[r].shape.target = "realtime"
  /\ Alone(r, Answered(release(releaseModel(rq[r])), "served"))

-----------------------------------------------------------------------------
(* The clock, the cleanup, the shutdown and the backend's death.           *)

Tick ==
  /\ rptime.now < RpMaxTime
  /\ rptime' = [rptime EXCEPT !.now = @ + 1]
  /\ UNCHANGED <<rq, rpserver, rpkept>>

cleanupExpired ==
  /\ ~rptime.closed /\ expired("responses") # {}
  /\ rpkept' = rpkept \ expired("responses")
  /\ UNCHANGED <<rq, rpserver, rptime>>

closeResponseStore ==
  /\ ~rptime.closed
  /\ rptime' = [rptime EXCEPT !.closed = TRUE]
  /\ rpkept' = {k \in rpkept : k.path # "responses"}
  /\ UNCHANGED <<rq, rpserver>>

BackendDies ==
  /\ rptime.crashes < RpMaxCrashes
  /\ rpserver.alive /\ rpserver.config # NoConfig
  /\ rpserver' = [rpserver EXCEPT !.alive = FALSE]
  /\ rptime' = [rptime EXCEPT !.crashes = @ + 1]
  /\ UNCHANGED <<rq, rpkept>>

Choosing(r) ==
  \/ serveHTTP(r) \/ selectRequestModel(r) \/ selectSelectorlessEmbeddingModel(r)
  \/ routeNamedModelRequest(r) \/ handleGuardianTakeover(r)
  \/ resolveLocalModelTarget(r) \/ forwardLocalModelRequest(r)
  \/ handleImageRequest(r) \/ forwardImageDiscovery(r) \/ resolveActiveImageModel(r)
  \/ prepareLocalImageModel(r) \/ forwardLocalImageRequest(r)
  \/ handleAudioRequest(r) \/ resolveLocalAudioTarget(r) \/ forwardLocalAudioRequest(r)
  \/ handleImageOptions(r) \/ handleRecipeModelRequest(r)
  \/ handleRecipeImageRequest(r) \/ handleRecipeAudioRequest(r)

Routing(r) ==
  \/ handleRegistryModelRequest(r) \/ acquireRegistryImageRoute(r)
  \/ acquireRegistryAudioRequest(r) \/ prepareRegistryTextRequest(r) \/ forwardRemote(r)
  \/ admitLocalRegistryTextRequest(r) \/ admitLocalRegistryImageRequest(r)
  \/ admitLocalRegistryAudioRequest(r) \/ forwardLocalRegistryTextRequest(r)
  \/ forwardRegistryImageRequest(r) \/ forwardLocalRegistryAudioRequest(r)
  \/ loadLocalImageOptions(r) \/ loadImageOptionsModel(r)
  \/ serveTextThroughLendingQueue(r) \/ serveImageThroughLendingQueue(r)
  \/ forwardOffloadedRequest(r) \/ serveWithdrawnTextRequest(r)

Forwarding(r) ==
  \/ acquireModelConfig(r) \/ loadModelConfig(r) \/ forwardToBackendFamily(r)
  \/ sessionForward(r) \/ recoverIfTransportFailed(r) \/ reloadHeldModelConfig(r)
  \/ finishReload(r) \/ waitIfInactive(r) \/ retryUntilExhausted(r) \/ exhausted(r)
  \/ handleVLLMRealtime(r) \/ openRealtimeBackend(r)

Answering(r) ==
  \/ guardianAfterRefusal(r) \/ writeRegistryTextResponse(r)
  \/ writeRegistryImageResponse(r) \/ handleRegistryAudioRequest(r)
  \/ writeForwardedResponse(r) \/ responseWithVLLMTracking(r)
  \/ responseWithSdcppJobTracking(r) \/ rememberResponse(r) \/ rememberJob(r)
  \/ handleVLLMResponseOperation(r) \/ forwardTrackedSdcppJob(r) \/ forgetResponse(r)
  \/ writeModelProxyResponse(r) \/ writeProxyResponse(r) \/ proxyBidirectionalStream(r)

RequestStep(r) == Choosing(r) \/ Routing(r) \/ Forwarding(r) \/ Answering(r)

RpNext ==
  \/ \E r \in RpRequests : ClientLeaves(r) \/ RequestStep(r)
  \/ Tick \/ cleanupExpired \/ closeResponseStore \/ BackendDies

RpSpec == RpInit /\ [][RpNext]_rpvars

-----------------------------------------------------------------------------
(* Properties.                                                             *)

RpTypeOK ==
  /\ rpserver.epoch \in Nat /\ rpserver.alive \in BOOLEAN /\ rpserver.switching \in BOOLEAN
  /\ \A r \in RpRequests :
       /\ rq[r].shape \in Shapes
       /\ rq[r].entry \in {"none", "lent", "queued", "admitted"}
       /\ rq[r].answer \in {"none", "error", "returned", "served"}
       /\ rq[r].body \in {"none", "local", "closed", "remote", "family", "lent"}

\* Whatever path a request takes, at its end nothing is held: no route counts
\* it, no queue entry waits for its completion and no lease keeps the runtime
\* from switching.
NothingIsLeftHeld ==
  \A r \in RpRequests : rq[r].pc = "done" =>
    ~rq[r].route /\ ~rq[r].lease /\ rq[r].entry = "none"

\* Every forwarding this node did itself is one event in the analytics, also
\* when the request went on to a guardian.
EventPerForwarding ==
  \A r \in RpRequests : rq[r].pc = "done" => rq[r].events = rq[r].forwards

\* While a request is sent to the backend, retried, or its answer read from
\* it, the runtime holds the config the request asked for.
ServedByItsConfig ==
  \A r \in RpRequests :
    \/ rq[r].pc \in {"forward", "recover", "reload", "reloading", "wait", "again"}
    \/ rq[r].pc \in {"answered", "track", "relay"} /\ rq[r].body = "local"
    => rq[r].lease /\ rpserver.config = rq[r].config

\* A runtime switches for one request at a time, and never under the lease of
\* another request or of a remembered response.
SwitchIsAlone ==
  LET switchers == {r \in RpRequests : rq[r].pc \in {"loading", "reloading"}}
  IN /\ rpserver.switching <=> switchers # {}
     /\ Cardinality(switchers) <= 1
     /\ \A r \in switchers :
          /\ \A k \in rpkept : ~k.lease
          /\ \A other \in RpRequests : rq[other].lease => other = r

\* However inactive answers and others alternate, an answer is generated at
\* most once more than the small budget allows, and the backend is asked at
\* most once more than the large one.
GenerationsAreBounded ==
  \A r \in RpRequests :
    rq[r].generated <= RpInference + 1 /\ rq[r].attempt <= RpReadiness

\* No request asks a guardian while it still holds the route, the entry or the
\* runtime the guardian may be waiting for, and none asks twice.
TakeoverHoldsNothing ==
  \A r \in RpRequests : rq[r].pc = "takeover" =>
    /\ ~rq[r].redirected /\ rq[r].shape.borrowed = "no"
    /\ ~rq[r].route /\ ~rq[r].lease /\ rq[r].entry = "none"

\* A borrowed request is neither sent on nor lent again.
BorrowedStays ==
  \A r \in RpRequests : rq[r].shape.borrowed # "no" => rq[r].body \notin {"remote", "lent"}

\* The remembered answers stay within the limit, and the lease kept for a
\* streamed response is on the runtime that made it.
KeptIsSound ==
  /\ \A path \in {"responses", "jobs"} :
       Cardinality({k \in rpkept : k.path = path}) <= RpKeepLimit
  /\ \A k \in rpkept : k.stream /\ k.lease =>
       rpserver.config = k.config /\ rpserver.epoch = k.epoch

\* All of the above.
RequestPathSafe ==
  /\ RpTypeOK /\ NothingIsLeftHeld /\ EventPerForwarding /\ ServedByItsConfig
  /\ SwitchIsAlone /\ GenerationsAreBounded /\ TakeoverHoldsNothing
  /\ BorrowedStays /\ KeptIsSound

\* Later operations follow the runtime that created the response: the lease
\* remembered with it is on its config.
ResponseKeepsItsRuntime ==
  \A k \in rpkept : k.lease => k.leased = k.config

=============================================================================
