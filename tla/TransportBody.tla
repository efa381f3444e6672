----------------------------- MODULE TransportBody -----------------------------
(***************************************************************************)
(* How an inference body travels (internal/transportbody,                   *)
(* internal/proxy/transport_*.go).  A body within the replay buffer is held *)
(* in memory under a shared budget; a larger one streams to the backend,    *)
(* rewritten on the way by a goroutine of its own, and is sent again only   *)
(* when the first attempt read none of it.  A body is the sequence of its   *)
(* bytes 1 .. size, of which those up to `end` arrive.                      *)
(***************************************************************************)
EXTENDS Naturals, FiniteSets, FiniteSetsExt, SequencesExt

CONSTANTS
    TbRequests,
    TbSizes,        \* body sizes clients send
    TbRoutes,       \* routes a selector may resolve to: [lane, source, remote, fault], the last
                    \* what may still be wrong with a route once it is chosen
    ReplayBufferBytes, SelectorScanBytes, MaxRequestBytes, MemoryBudgetBytes,
    ReplayChunk, TransformationWorkingSet,
    TbMaxAborts     \* bound on clients that stop sending

VARIABLES
    tbq,     \* request -> its state, see Idle below
    tbused,  \* the budget: bytes reserved
    tbfault  \* clients that have stopped so far

tbvars == <<tbq, tbused, tbfault>>

\* Attempts of a streaming body: what was read from it, what the backend was
\* sent, whether its pump (transport and rewriting goroutines) has started,
\* is still reading, and whether the attempt was closed.
NoAttempt == [read |-> 0, sent |-> <<>>, pump |-> "idle", closed |-> FALSE, base |-> 0,
              whole |-> FALSE, over |-> FALSE]
Idle == [pc |-> "new", size |-> 0, end |-> 0, length |-> 0, selector |-> FALSE,
         ws |-> 0, held |-> 0, kept |-> 0, src |-> 0, chunk |-> 0,
         body |-> "none", closed |-> FALSE, consumed |-> 0, att |-> <<>>,
         route |-> [lane |-> "none"], slot |-> 0, lease |-> 0, answer |-> "none"]
Unknown == MaxRequestBytes + 9      \* a chunked request declares no length

Init ==
    /\ tbq = [r \in TbRequests |-> Idle]
    /\ tbused = 0
    /\ tbfault = 0

Least(a, b) == IF a < b THEN a ELSE b
Threshold == Least(SelectorScanBytes, ReplayBufferBytes)
Known(r) == tbq[r].length # Unknown
Gone(q) == q.end < q.size       \* the client stopped before the end of its body

(* ------------------------------- the budget ----------------------------- *)
Available == MemoryBudgetBytes - tbused
Reserve(bytes) == bytes <= Available

\* ShrinkTo, Release: what a reservation gives back.
ShrinkTo(q, bytes) == [q EXCEPT !.ws = Least(bytes, @)]

\* The budget after this request's state becomes q.
Refund(r, q) == tbused' = (tbused + q.held + q.ws) - (tbq[r].held + tbq[r].ws)
Become(r, q) == tbq' = [tbq EXCEPT ![r] = q] /\ Refund(r, q)

\* The handler returns: its deferred calls release the working set and close
\* a streaming body; the source is the server's to close.
Answered(q, answer) ==
    [Idle EXCEPT !.pc = "done", !.answer = answer, !.closed = TRUE,
                 !.held = q.held, !.kept = q.kept, !.slot = q.slot, !.lease = q.lease]
releaseReservations(q) == [q EXCEPT !.held = 0, !.kept = 0]

(* --------------------------- reading a request -------------------------- *)
\* reserveTransportWorkingSet: what a request may come to hold, ahead of time;
\* one that will be refused for its length reserves nothing.
retainedBytes(length) ==
    IF length = Unknown THEN ReplayBufferBytes ELSE IF length > ReplayBufferBytes THEN 0 ELSE length
reservesNothing(length, selector) ==
    /\ length # Unknown
    /\ length > MaxRequestBytes \/ (length > Threshold /\ ~selector)

reserveTransportWorkingSet(r) ==
    /\ tbq[r].pc = "new"
    /\ \E size \in TbSizes, chunked, selector \in BOOLEAN :
         LET length == IF chunked THEN Unknown ELSE size
             want == TransformationWorkingSet + retainedBytes(length)
             q == [Idle EXCEPT !.size = size, !.end = size, !.length = length, !.selector = selector, !.src = 1] IN
         IF reservesNothing(length, selector)
         THEN Become(r, [q EXCEPT !.pc = "prepare"])
         ELSE IF Reserve(want) THEN Become(r, [q EXCEPT !.pc = "prepare", !.ws = want])
         ELSE Become(r, Answered(q, "capacity"))
    /\ UNCHANGED tbfault

\* prepareOrHandleTransport: too large; short enough to be read whole; or Prepare.
prepareOrHandleTransport(r) ==
    LET q == tbq[r] IN
    /\ q.pc = "prepare"
    /\ \/ /\ Known(r) /\ q.length > MaxRequestBytes
          /\ Become(r, Answered(q, "too_large"))
       \/ /\ Known(r) /\ q.length <= Least(Threshold, MaxRequestBytes)
          /\ IF Reserve(q.length) THEN Become(r, [q EXCEPT !.pc = "read", !.held = q.length])
             ELSE Become(r, Answered(q, "capacity"))
       \/ /\ ~Known(r) \/ q.length \in Threshold + 1 .. MaxRequestBytes
          /\ Become(r, [q EXCEPT !.pc = "body"])
    /\ UNCHANGED tbfault

\* Prepare: decide by the declared length, else read up to the limit.
Prepare(r) ==
    LET q == tbq[r] IN
    /\ q.pc = "body"
    /\ \/ /\ Known(r) /\ q.length > Threshold /\ ~q.selector
          /\ Become(r, Answered(q, "selector"))
       \/ /\ Known(r) /\ q.length > ReplayBufferBytes /\ q.selector
          /\ Become(r, [q EXCEPT !.pc = "route", !.body = "stream", !.ws = ShrinkTo(q, TransformationWorkingSet).ws])
       \/ /\ Known(r) => q.length <= ReplayBufferBytes
          /\ Known(r) => q.length <= Threshold \/ q.selector
          /\ Become(r, [q EXCEPT !.pc = "prefix"])
    /\ UNCHANGED tbfault

readLimit(q) == IF q.selector THEN ReplayBufferBytes ELSE Threshold
Left(q) == (q.end + 1) - q.src

\* nextChunkSize: one more than is expected, so that the end is seen, but no
\* more than the budget has now.
nextChunkSize(r) ==
    LET q == tbq[r]  room == readLimit(q) - q.kept
        wanted == IF Known(r) /\ q.length - q.kept < Least(ReplayChunk, room)
                  THEN (q.length - q.kept) + 1 ELSE Least(ReplayChunk, room) IN
    /\ q.pc = "prefix" /\ room > 0
    /\ Become(r, [q EXCEPT !.pc = IF Least(wanted, Available) = 0 THEN "probe" ELSE "chunk",
                           !.chunk = Least(wanted, Available)])
    /\ UNCHANGED tbfault

Complete(q) == [q EXCEPT !.pc = "read", !.body = "replay", !.ws = ShrinkTo(q, TransformationWorkingSet + q.kept).ws]

Failed(q, answer) == Answered(releaseReservations(q), answer)

\* readChunk: reserve, read up to the chunk, give back what was not read. A
\* connection that is closed in the middle of a body ends it like its end does
\* (io.ErrUnexpectedEOF); one that is reset is an error.
readChunk(r) ==
    LET q == tbq[r]  got == Least(q.chunk, Left(q))
        after == [q EXCEPT !.held = @ + got, !.kept = @ + got, !.src = @ + got, !.pc = "prefix"] IN
    /\ q.pc = "chunk"
    /\ \/ ~Reserve(q.chunk) /\ Become(r, Failed(q, "capacity"))
       \/ Reserve(q.chunk) /\ got = q.chunk /\ Become(r, after)
       \/ Reserve(q.chunk) /\ got < q.chunk /\ Become(r, Complete(after))
       \/ Reserve(q.chunk) /\ got < q.chunk /\ Gone(q) /\ Become(r, Failed(after, "read_failed"))
    /\ UNCHANGED tbfault

\* probeWithoutBudget: the end may have been reached all the same.
probeWithoutBudget(r) ==
    LET q == tbq[r] IN
    /\ q.pc = "probe"
    /\ Become(r, IF Left(q) > 0 THEN Failed(q, "capacity") ELSE IF Gone(q) THEN Failed(q, "read_failed") ELSE Complete(q))
    /\ UNCHANGED tbfault

\* probeBeyondLimit: one byte more means the body does not fit; it streams
\* with what was read as its prefix, if its model is known.
probeBeyondLimit(r) ==
    LET q == tbq[r]
        streaming == [q EXCEPT !.pc = "route", !.body = "stream", !.held = @ + 1, !.kept = @ + 1, !.src = @ + 1,
                               !.ws = ShrinkTo(q, TransformationWorkingSet).ws] IN
    /\ q.pc = "prefix" /\ readLimit(q) <= q.kept
    /\ \/ Left(q) = 0 /\ Become(r, IF Gone(q) THEN Failed(q, "read_failed") ELSE Complete(q))
       \/ /\ Left(q) > 0
          /\ Become(r, IF ~Reserve(1) THEN Failed(q, "capacity")
                       ELSE IF ~q.selector THEN Failed(q, "selector") ELSE streaming)
    /\ UNCHANGED tbfault

\* readRequestBody by the lane's handler, which closes the body afterwards;
\* when the read fails it returns without closing it.
readRequestBody(r) ==
    LET q == tbq[r] IN
    /\ q.pc = "read"
    /\ Become(r, IF Gone(q) /\ q.body = "none" THEN Answered(q, "unread")
                 ELSE [q EXCEPT !.pc = "buffered", !.kept = IF q.body = "replay" THEN @ ELSE q.size])
    /\ UNCHANGED tbfault

\* The buffered path serves the request (its retries are not modelled here).
ServeBuffered(r) ==
    /\ tbq[r].pc = "buffered"
    /\ Become(r, Answered(releaseReservations(tbq[r]), "served"))
    /\ UNCHANGED tbfault

(* ------------------------------- the route ------------------------------ *)
\* What resolving a route comes to: refused before a replica is taken, with
\* or without one taken, or refused after it.
Resolved(first, route, after) ==
    [refused |-> first, slot |-> IF route.source = "registry" THEN 1 ELSE 0,
     released |-> after /\ route.source = "registry"]

\* resolveRegistryTextRoute acquires a replica, then looks at what it is.
resolveTransportTextRoute(route) ==
    Resolved(route.fault = "unknown" \/ (route.fault = "mode" /\ route.source # "registry"),
             route, route.fault \in {"mode", "replica"})

\* resolveTransportImageRoute settles the model's mode, acquires, and settles
\* the mode of the replica it got.
resolveTransportImageRoute(route) == Resolved(route.fault \in {"unknown", "mode"}, route, route.fault = "replica")

\* resolveTransportAudioRoute
resolveTransportAudioRoute(route) == Resolved(route.fault \in {"unknown", "mode"}, route, route.fault = "replica")

\* resolveTransportRoute up to the lane's choice; an embeddings request
\* without a selector goes to whatever runs.
resolveTransportRoute(r) ==
    LET q == tbq[r] IN
    /\ q.pc = "route"
    /\ \E route \in TbRoutes :
         LET found == IF route.lane = "image" THEN resolveTransportImageRoute(route)
                      ELSE IF route.lane = "audio" THEN resolveTransportAudioRoute(route)
                      ELSE resolveTransportTextRoute(route) IN
         Become(r, IF found.refused THEN Failed(q, "refused")
                   ELSE [q EXCEPT !.pc = IF found.released THEN "refusing" ELSE "resolved",
                                  !.route = route, !.slot = found.slot])
    /\ UNCHANGED tbfault

\* A replica whose mode or path does not serve the request is released.
ReplicaRefused(r) ==
    /\ tbq[r].pc = "refusing"
    /\ Become(r, Failed([tbq[r] EXCEPT !.slot = 0], "refused"))
    /\ UNCHANGED tbfault

\* handleStreamingRequest up to forwarding: an endpoint vLLM does not serve
\* and a request a local backend would need translated release their replica.
handleStreamingRequest(r) ==
    LET q == tbq[r] IN
    /\ q.pc = "resolved"
    /\ Become(r, IF q.route.fault = "endpoint" \/ (q.route.fault = "ollama" /\ ~q.route.remote)
                 THEN Failed([q EXCEPT !.slot = 0], "refused")
                 ELSE [q EXCEPT !.pc = "transform"])
    /\ UNCHANGED tbfault

\* transformTransportRequestBody may refuse the body; every refusal from here
\* on releases the replica.
transformTransportRequestBody(r) ==
    LET q == tbq[r] IN
    /\ q.pc = "transform"
    /\ \/ Become(r, Failed([q EXCEPT !.slot = 0], "refused"))
       \/ Become(r, [q EXCEPT !.pc = IF q.route.remote THEN "send" ELSE "lease"])
    /\ UNCHANGED tbfault

\* forwardTransportRoute: a local route leases its model first, unless it
\* names none.
forwardTransportRoute(r) ==
    LET q == tbq[r] IN
    /\ q.pc = "lease"
    /\ \/ Become(r, Failed([q EXCEPT !.slot = 0], "backend"))
       \/ Become(r, [q EXCEPT !.pc = "send", !.lease = IF q.route.source = "passthrough" THEN 0 ELSE 1])
    /\ UNCHANGED tbfault

(* ------------------------------- attempts ------------------------------- *)
Current(q) == Len(q.att)

\* OpenAttempt: the prefix again from its start, then the client's stream.
OpenAttempt(r) ==
    LET q == tbq[r] IN
    /\ q.pc = "send" /\ ~q.closed /\ q.consumed = 0
    /\ Become(r, [q EXCEPT !.pc = "waiting", !.att = Append(@, NoAttempt)])
    /\ UNCHANGED tbfault

\* The transport asks for the body: the pump starts.
start(r) ==
    LET q == tbq[r]  i == Current(q) IN
    /\ q.pc = "waiting" /\ q.att[i].pump = "idle"
    /\ Become(r, [q EXCEPT !.att[i].pump = "reading"])
    /\ UNCHANGED tbfault

\* The pump of attempt i reads on: the prefix, then the shared source, within
\* the request limit.  What it reads reaches the backend unless the attempt
\* was closed; it ends at the end of the body, on an error, and when there is
\* a byte beyond the limit, which it takes from the source to know.
PumpReads(r, i) ==
    LET q == tbq[r]  a == q.att[i]
        fromPrefix == a.base < q.kept
        byte == IF fromPrefix THEN a.base + 1 ELSE q.src
        more == fromPrefix \/ Left(q) > 0 IN
    /\ i \in 1 .. Len(q.att) /\ a.pump = "reading" /\ ~q.closed
    /\ \/ /\ more /\ a.read < MaxRequestBytes
          /\ tbq' = [tbq EXCEPT ![r].att[i] = [a EXCEPT !.read = @ + 1, !.base = IF fromPrefix THEN @ + 1 ELSE @,
                                                 !.sent = IF a.closed THEN @ ELSE Append(@, byte),
                                                 !.pump = IF a.closed THEN "ended" ELSE @],
                                ![r].src = IF fromPrefix THEN @ ELSE @ + 1]
       \/ /\ more /\ a.read = MaxRequestBytes
          /\ tbq' = [tbq EXCEPT ![r].att[i] = [a EXCEPT !.pump = "ended", !.over = TRUE],
                                ![r].src = IF fromPrefix THEN @ ELSE @ + 1]
       \/ /\ ~more
          /\ tbq' = [tbq EXCEPT ![r].att[i] = [a EXCEPT !.pump = "ended", !.whole = ~Gone(q)]]
    /\ UNCHANGED <<tbused, tbfault>>

\* doTransportAttempt returns: consumed is read, then the attempt is closed,
\* which adds what it had read by then to the body's count.
doTransportAttempt(r) ==
    LET q == tbq[r]  i == Current(q)  a == q.att[i] IN
    /\ q.pc = "waiting"
    /\ \E ok \in BOOLEAN :
         Become(r, [q EXCEPT !.pc = IF ok THEN "response" ELSE "failed", !.att[i].closed = TRUE,
                             !.consumed = @ + a.read])
    /\ UNCHANGED tbfault

\* doTransportAttempts: once more if nothing had been read of the body.
canRetry(q) == Current(q) = 1 /\ q.consumed = 0 /\ ~q.closed

doTransportAttempts(r) ==
    LET q == tbq[r] IN
    /\ q.pc = "failed"
    /\ \/ canRetry(q) /\ Become(r, [q EXCEPT !.pc = "send"])
       \/ \E over \in {q.att[Current(q)].over} :
            /\ over \/ ~canRetry(q)
            /\ Become(r, Failed([q EXCEPT !.slot = 0, !.lease = 0],
                               IF over THEN "too_large" ELSE IF q.consumed > 0 THEN "not_replayable" ELSE "backend"))
    /\ UNCHANGED tbfault

\* writeProxyResponse copies the answer and closes it, which releases the
\* model's lease and the replica.
writeProxyResponse(r) ==
    LET q == tbq[r] IN
    /\ q.pc = "response"
    /\ Become(r, Failed([q EXCEPT !.slot = 0, !.lease = 0], "served"))
    /\ UNCHANGED tbfault

\* The client's connection breaks: what has not been read may have arrived
\* in part.
ClientStops(r) ==
    /\ tbfault < TbMaxAborts /\ tbq[r].pc \notin {"new", "done"} /\ Left(tbq[r]) > 0
    /\ \E end \in tbq[r].src - 1 .. tbq[r].end - 1 : tbq' = [tbq EXCEPT ![r].end = end]
    /\ tbfault' = tbfault + 1
    /\ UNCHANGED tbused

RequestStep(r) ==
    \/ reserveTransportWorkingSet(r) \/ prepareOrHandleTransport(r) \/ Prepare(r) \/ nextChunkSize(r)
    \/ readChunk(r) \/ probeWithoutBudget(r) \/ probeBeyondLimit(r) \/ readRequestBody(r) \/ ServeBuffered(r)
    \/ resolveTransportRoute(r) \/ ReplicaRefused(r) \/ handleStreamingRequest(r) \/ transformTransportRequestBody(r) \/ forwardTransportRoute(r)
    \/ OpenAttempt(r) \/ doTransportAttempt(r) \/ doTransportAttempts(r) \/ writeProxyResponse(r)

Next == \E r \in TbRequests :
    RequestStep(r) \/ start(r) \/ ClientStops(r) \/ \E i \in 1 .. 2 : i <= Len(tbq[r].att) /\ PumpReads(r, i)

Spec == Init /\ [][Next]_tbvars

(* ------------------------------ properties ------------------------------ *)
Reserved(r) == tbq[r].held + tbq[r].ws

\* The budget is the sum of what requests hold, never beyond its limit, and
\* every byte of a body kept in memory is covered by a reservation.
BudgetHonoured ==
    /\ tbused = MapThenSumSet(Reserved, TbRequests) /\ tbused <= MemoryBudgetBytes
    /\ \A r \in TbRequests : tbq[r].kept <= tbq[r].held + tbq[r].ws

\* Whatever way a request ends, its replica and its model are released, and
\* its memory too, save the reservation of a short body that could not be
\* read to its end.
AllReleased ==
    \A r \in TbRequests : tbq[r].pc = "done" =>
        /\ tbq[r].slot = 0 /\ tbq[r].lease = 0
        /\ Reserved(r) = 0 \/ (tbq[r].answer = "unread" /\ Reserved(r) <= Threshold)

\* A streamed body is never sent twice: what one attempt delivered no other
\* attempt delivers again.
SentOnce ==
    \A r \in TbRequests : \A i, j \in 1 .. Len(tbq[r].att) :
        i # j => Range(tbq[r].att[i].sent) \cap Range(tbq[r].att[j].sent) = {}

\* No backend is sent more of a body than the limit.
SizeCapped == \A r \in TbRequests : \A i \in 1 .. Len(tbq[r].att) : Len(tbq[r].att[i].sent) <= MaxRequestBytes

\* What the budget's users expect: nothing stays reserved once a request is
\* answered, even one whose client went away.
BudgetReturned == \A r \in TbRequests : tbq[r].pc = "done" => Reserved(r) = 0

\* What a retry promises: the body the backend reads to its end is the whole
\* body, from its first byte.
RetryIsWhole ==
    \A r \in TbRequests : \A i \in 1 .. Len(tbq[r].att) :
        tbq[r].att[i].whole /\ ~tbq[r].att[i].closed => tbq[r].att[i].sent = [k \in 1 .. tbq[r].size |-> k]

\* What is buffered and served is the body the client meant to send.
BufferedIsWhole == \A r \in TbRequests : tbq[r].pc = "buffered" => tbq[r].kept = tbq[r].size

=============================================================================
