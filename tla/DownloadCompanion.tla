-------------------------- MODULE DownloadCompanion --------------------------
(***************************************************************************)
(* The router's side of the downloader companion process: the client that  *)
(* multiplexes calls over the companion's pipes (client.go), the           *)
(* supervisor that restarts a companion that died (supervisor.go), the     *)
(* queue that hands artifact events to the router (artifact_queue.go), a   *)
(* subscription that polls a job (subscription.go) and the companion's     *)
(* request loop (protocol.go).  A generation is one companion process with *)
(* its client.  What a call asks for and how long a delay is are left out; *)
(* deadlines may pass at any moment.                                       *)
(***************************************************************************)
EXTENDS Naturals, Sequences

CONSTANTS CpCalls, MaxGenerations, MaxArtifacts, MaxPolls  \* the last three bound the instance

VARIABLES cpProc,     \* generation -> "none", "up", "gone"
          cpDone,     \* generation -> client.done is closed
          cpPending,  \* generation -> calls registered in client.pending
          cpWire,     \* generation -> requests and responses on its pipes
          cpCall,     \* call -> [pc, gen]
          cpReply,    \* call -> responses sent to its channel
          cpWatch,    \* the supervisor's goroutine: "watch", "backoff", "started", "ended"
          cpCurrent,  \* supervisor.current
          cpClosing,  \* Close: "no", "waits", "client", "closed"
          cpQueue,    \* generation -> artifacts pending in its queue
          cpWake,     \* generation -> the wake channel holds a token
          cpDeliver,  \* generation -> its delivery goroutine: "idle", "drain", "stopped"
          cpHandler,  \* generations whose queue has the router's artifact handler
          cpEvents,   \* [sent, got]: artifacts sent by companions, handled by the router
          cpSub       \* the subscription: pc, last update seen, the job's update, failures

cpVars == <<cpProc, cpDone, cpPending, cpWire, cpCall, cpReply, cpWatch, cpCurrent,
            cpClosing, cpQueue, cpWake, cpDeliver, cpHandler, cpEvents, cpSub>>
callVars == <<cpPending, cpWire, cpCall, cpReply>>
queueVars == <<cpQueue, cpWake, cpDeliver, cpHandler, cpEvents>>
supVars == <<cpWatch, cpCurrent, cpClosing>>

Gens == 1..MaxGenerations

\* StartClient of the first companion, and superviseClient.  A behaviour has calls
\* in flight, a subscription, or artifact events: they share no state of their own.
Init ==
  /\ cpProc = [g \in Gens |-> IF g = 1 THEN "up" ELSE "none"]
  /\ cpDone = [g \in Gens |-> FALSE]
  /\ cpPending = [g \in Gens |-> {}] /\ cpWire = [g \in Gens |-> {}]
  /\ \E use \in {"calls", "subscription", "artifacts"} :
       /\ cpCall = [c \in CpCalls |-> [pc |-> IF use = "calls" THEN "active" ELSE "none", gen |-> 0]]
       /\ cpSub = [pc |-> IF use = "subscription" THEN "poll" ELSE "none", seen |-> 0, job |-> 1, fails |-> 0]
       /\ cpEvents = [sent |-> IF use = "artifacts" THEN 0 ELSE MaxArtifacts, got |-> <<>>]
  /\ cpReply = [c \in CpCalls |-> 0]
  /\ cpWatch = "watch" /\ cpCurrent = 1 /\ cpClosing = "no"
  /\ cpQueue = [g \in Gens |-> <<>>] /\ cpWake = [g \in Gens |-> FALSE]
  /\ cpDeliver = [g \in Gens |-> "idle"] /\ cpHandler = {}
-----------------------------------------------------------------------------
(* Calls *)

CallTo(c, pc) == cpCall' = [cpCall EXCEPT ![c].pc = pc]

\* active: refused while the current client is done.
active(c) ==
  /\ cpCall[c].pc = "active"
  /\ cpCall' = [cpCall EXCEPT ![c] =
       IF cpDone[cpCurrent] THEN [@ EXCEPT !.pc = "error"] ELSE [pc |-> "register", gen |-> cpCurrent]]
  /\ UNCHANGED <<cpProc, cpDone, cpPending, cpWire, cpReply, supVars, queueVars, cpSub>>

\* call: the channel is registered under stateMu unless the client is done.
Register(c) ==
  /\ cpCall[c].pc = "register"
  /\ LET g == cpCall[c].gen IN
     IF cpDone[g] THEN CallTo(c, "error") /\ UNCHANGED cpPending
     ELSE CallTo(c, "write") /\ cpPending' = [cpPending EXCEPT ![g] = @ \cup {c}]
  /\ UNCHANGED <<cpProc, cpDone, cpWire, cpReply, supVars, queueVars, cpSub>>

removePending(c) == cpPending' = [cpPending EXCEPT ![cpCall[c].gen] = @ \ {c}]

WriteRequest(c) ==
  /\ cpCall[c].pc = "write"
  /\ LET g == cpCall[c].gen IN
     \/ /\ cpProc[g] = "up" /\ CallTo(c, "wait")
        /\ cpWire' = [cpWire EXCEPT ![g] = @ \cup {<<"request", c>>}] /\ UNCHANGED cpPending
     \/ cpProc[g] = "gone" /\ CallTo(c, "error") /\ removePending(c) /\ UNCHANGED cpWire
  /\ UNCHANGED <<cpProc, cpDone, cpReply, supVars, queueVars, cpSub>>

\* The select of call: the response, or the end of the context (at any moment) or of the client.
Await(c) ==
  /\ cpCall[c].pc = "wait"
  /\ \/ cpReply[c] > 0 /\ CallTo(c, "answered") /\ cpReply' = [cpReply EXCEPT ![c] = 0]
        /\ UNCHANGED cpPending
     \/ CallTo(c, "error") /\ removePending(c) /\ UNCHANGED cpReply
  /\ UNCHANGED <<cpProc, cpDone, cpWire, supVars, queueVars, cpSub>>

\* ServeWorker: every request is answered from a goroutine of its own, in any order.
ServeWorker(g, c) ==
  /\ <<"request", c>> \in cpWire[g] /\ cpProc[g] = "up"
  /\ cpWire' = [cpWire EXCEPT ![g] = (@ \ {<<"request", c>>}) \cup {<<"response", c>>}]
  /\ UNCHANGED <<cpProc, cpDone, cpPending, cpCall, cpReply, supVars, queueVars, cpSub>>

\* readResponses deletes the registration and only then sends, so that nothing is sent twice.
readResponses(g, c) ==
  /\ <<"response", c>> \in cpWire[g] /\ ~cpDone[g]
  /\ cpWire' = [cpWire EXCEPT ![g] = @ \ {<<"response", c>>}]
  /\ cpPending' = [cpPending EXCEPT ![g] = @ \ {c}]
  /\ cpReply' = [cpReply EXCEPT ![c] = IF c \in cpPending[g] THEN @ + 1 ELSE @]
  /\ UNCHANGED <<cpProc, cpDone, cpCall, supVars, queueVars, cpSub>>
-----------------------------------------------------------------------------
(* The companion's life *)

\* The companion ends: by itself, or because Close closed its input or killed it.
Exit(g) ==
  /\ cpProc[g] = "up"
  /\ cpProc' = [cpProc EXCEPT ![g] = "gone"]
  /\ UNCHANGED <<cpDone, callVars, supVars, queueVars, cpSub>>

\* finish: after the end of the output the process is waited for and done is closed.
finish(g) ==
  /\ cpProc[g] = "gone" /\ ~cpDone[g]
  /\ cpDone' = [cpDone EXCEPT ![g] = TRUE]
  /\ UNCHANGED <<cpProc, callVars, supVars, queueVars, cpSub>>

\* watch: an outage starts the restart loop; the end of the lifecycle ends it.
watch ==
  /\ cpWatch = "watch"
  /\ \/ cpDone[cpCurrent] /\ cpWatch' = "backoff"
     \/ cpClosing # "no" /\ cpWatch' = "ended"
  /\ UNCHANGED <<cpProc, cpDone, callVars, cpCurrent, cpClosing, queueVars, cpSub>>

Unstarted == {g \in Gens : cpProc[g] = "none"}
Newest == CHOOSE g \in Gens : cpProc[g] # "none" /\ \A h \in Gens : cpProc[h] # "none" => h <= g

\* restart: wait, start a process; one that fails its handshake is closed again.
restart ==
  /\ cpWatch = "backoff"
  /\ \/ cpClosing # "no" /\ cpWatch' = "ended" /\ UNCHANGED cpProc
     \/ /\ Unstarted # {} /\ cpWatch' = "started"
        /\ cpProc' = [cpProc EXCEPT ![Newest + 1] = "up"]
     \/ /\ Unstarted # {} /\ UNCHANGED cpWatch
        /\ cpProc' = [cpProc EXCEPT ![Newest + 1] = "gone"]
  /\ UNCHANGED <<cpDone, callVars, cpCurrent, cpClosing, queueVars, cpSub>>

SignalAt(g) == cpWake' = [cpWake EXCEPT ![g] = TRUE]

\* restart and install: a replacement that comes after Close is closed at once;
\* otherwise it becomes current with the router's artifact handler.
install ==
  /\ cpWatch = "started"
  /\ IF cpClosing # "no"
     THEN /\ cpProc' = [cpProc EXCEPT ![Newest] = "gone"]
          /\ cpDone' = [cpDone EXCEPT ![Newest] = TRUE]
          /\ cpWatch' = "ended" /\ UNCHANGED <<cpCurrent, cpWake, cpHandler>>
     ELSE /\ cpCurrent' = Newest /\ cpWatch' = "watch" /\ SignalAt(Newest)
          /\ cpHandler' = IF cpHandler = {} THEN {} ELSE cpHandler \cup {Newest}
          /\ UNCHANGED <<cpProc, cpDone>>
  /\ UNCHANGED <<callVars, cpClosing, cpQueue, cpDeliver, cpEvents, cpSub>>

\* SupervisedClient.Close: stop, wait for the watcher, close the current client,
\* which waits for its end and stops its queue.
Close ==
  /\ \/ cpClosing = "no" /\ cpClosing' = "waits" /\ UNCHANGED cpDeliver
     \/ cpClosing = "waits" /\ cpWatch = "ended" /\ cpClosing' = "client" /\ UNCHANGED cpDeliver
     \/ /\ cpClosing = "client" /\ cpDone[cpCurrent] /\ cpClosing' = "closed"
        /\ cpDeliver' = [cpDeliver EXCEPT ![cpCurrent] = IF @ = "idle" THEN "stopped" ELSE @]
  /\ UNCHANGED <<cpProc, cpDone, callVars, cpWatch, cpCurrent, cpQueue, cpWake, cpHandler, cpEvents, cpSub>>
-----------------------------------------------------------------------------
(* Artifact events *)

\* readResponses: an artifact event is queued and the delivery goroutine woken.
push(g) ==
  /\ cpProc[g] = "up" /\ cpEvents.sent < MaxArtifacts
  /\ cpEvents' = [cpEvents EXCEPT !.sent = @ + 1]
  /\ cpQueue' = [cpQueue EXCEPT ![g] = Append(@, cpEvents.sent + 1)]
  /\ SignalAt(g)
  /\ UNCHANGED <<cpProc, cpDone, callVars, supVars, cpDeliver, cpHandler, cpSub>>

\* The router sets its handler; the queue of the current client is woken.
SetArtifactHandler ==
  /\ cpHandler = {} /\ cpHandler' = {cpCurrent}
  /\ SignalAt(cpCurrent)
  /\ UNCHANGED <<cpProc, cpDone, callVars, supVars, cpQueue, cpDeliver, cpEvents, cpSub>>

deliver(g) ==
  /\ \/ /\ cpDeliver[g] = "idle" /\ cpWake[g]
        /\ cpDeliver' = [cpDeliver EXCEPT ![g] = "drain"]
        /\ cpWake' = [cpWake EXCEPT ![g] = FALSE] /\ UNCHANGED <<cpQueue, cpEvents>>
     \/ /\ cpDeliver[g] = "drain" /\ (cpQueue[g] = <<>> \/ g \notin cpHandler)
        /\ cpDeliver' = [cpDeliver EXCEPT ![g] = "idle"] /\ UNCHANGED <<cpQueue, cpWake, cpEvents>>
     \/ /\ cpDeliver[g] = "drain" /\ cpQueue[g] # <<>> /\ g \in cpHandler
        /\ cpQueue' = [cpQueue EXCEPT ![g] = Tail(@)]
        /\ cpEvents' = [cpEvents EXCEPT !.got = Append(@, Head(cpQueue[g]))]
        /\ UNCHANGED <<cpDeliver, cpWake>>
  /\ UNCHANGED <<cpProc, cpDone, callVars, supVars, cpHandler, cpSub>>
-----------------------------------------------------------------------------
(* Subscription to a job.  cpSub.job is the job's update: 1 running, 2 terminal. *)

\* The companion finishes the job.
JobEnds ==
  /\ cpSub.pc # "none" /\ cpSub.job = 1 /\ cpSub' = [cpSub EXCEPT !.job = 2]
  /\ UNCHANGED <<cpProc, cpDone, callVars, supVars, queueVars>>

\* pollJob: a failed read is tolerated for a while; a new update is sent to the
\* subscriber, who may unsubscribe instead; a terminal one ends the subscription.
pollJob ==
  /\ cpSub.pc \in {"poll", "tick"}
  /\ cpSub' \in
       IF cpSub.pc = "tick"
       THEN {[cpSub EXCEPT !.pc = "poll"], [cpSub EXCEPT !.pc = "stopped"]}
            \cup (IF cpClosing # "no" THEN {[cpSub EXCEPT !.pc = "closed"]} ELSE {})
       ELSE IF cpProc[cpCurrent] # "up"
       THEN {IF cpSub.fails = MaxPolls THEN [cpSub EXCEPT !.pc = "outage"]
             ELSE [cpSub EXCEPT !.pc = "tick", !.fails = @ + 1]}
       ELSE {[cpSub EXCEPT !.pc = IF cpSub.job = 2 THEN "ended" ELSE "tick",
                           !.fails = 0, !.seen = cpSub.job]}
            \cup (IF cpSub.seen # cpSub.job THEN {[cpSub EXCEPT !.pc = "stopped"]} ELSE {})
  /\ UNCHANGED <<cpProc, cpDone, callVars, supVars, queueVars>>
-----------------------------------------------------------------------------
CallStep(c) == active(c) \/ Register(c) \/ WriteRequest(c) \/ Await(c)

Next ==
  \/ \E c \in CpCalls : CallStep(c)
  \/ \E g \in Gens, c \in CpCalls : ServeWorker(g, c) \/ readResponses(g, c)
  \/ \E g \in Gens : Exit(g) \/ finish(g) \/ push(g) \/ deliver(g)
  \/ watch \/ restart \/ install \/ Close \/ SetArtifactHandler \/ JobEnds \/ pollJob

Spec == Init /\ [][Next]_cpVars

-----------------------------------------------------------------------------
(* Properties *)

\* A response channel of capacity one never gets a second response: sending it
\* would block readResponses, and with it every other call.
OneReply == \A c \in CpCalls : cpReply[c] <= 1

\* A call that has returned is not registered, and a registered one is at its write or wait.
NoStrandedPending ==
  \A g \in Gens : \A c \in cpPending[g] : cpCall[c].gen = g /\ cpCall[c].pc \in {"write", "wait"}

\* The wake token is not lost: a queue with artifacts and a handler is being
\* drained or is about to be, unless its goroutine was stopped by Close.
ArtifactsWake ==
  \A g \in Gens : cpQueue[g] # <<>> /\ g \in cpHandler =>
    cpWake[g] \/ cpDeliver[g] \in {"drain", "stopped"}

\* Once Close has returned no companion is left running.
CloseLeavesNothing == cpClosing = "closed" => \A g \in Gens : cpProc[g] # "up"

\* A subscription that ends with the job has delivered the job's last update.
SubscriberSeesEnd == cpSub.pc = "ended" => cpSub.seen = 2

CompanionSafe == OneReply /\ NoStrandedPending /\ ArtifactsWake /\ CloseLeavesNothing /\ SubscriberSeesEnd

=============================================================================
