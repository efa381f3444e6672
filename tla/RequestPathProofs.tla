------------------------- MODULE RequestPathProofs -------------------------
(***************************************************************************)
(* Proofs about RequestPath: for any number of requests and remembered     *)
(* answers, any shapes and any retry budgets.                              *)
(***************************************************************************)
EXTENDS RequestPath, FiniteSetTheorems, TLAPS

-----------------------------------------------------------------------------
(* The invariant of one request.                                           *)

Fields ==
  {"shape", "config", "pc", "redirected", "remote", "route", "entry", "lease", "attempt", "result",
   "skip", "recovered", "generated", "body", "kept", "forwards", "events", "gone", "about", "answer"}

Typed(q) ==
  /\ DOMAIN q = Fields /\ q.shape \in Shapes
  /\ q.entry \in {"none", "lent", "queued", "admitted"}
  /\ q.body \in {"none", "local", "closed", "remote", "family", "lent"}
  /\ q.answer \in {"none", "error", "returned", "served"}
  /\ q.attempt \in Nat /\ q.generated \in Nat /\ q.forwards \in Nat /\ q.events \in Nat

Retrying == {"recover", "reload", "reloading", "wait", "again"}
Session == {"forward"} \cup Retrying
Answer == {"answered", "track", "remember", "relay"}

\* What a request may hold where.
Holds(q) ==
  /\ q.lease => q.pc \in Session \cup {"connect", "loaded", "answered", "track", "relay"}
  /\ q.pc \in Session => q.lease
  /\ q.pc \in {"answered", "track", "relay"} /\ q.body = "local" => q.lease
  /\ q.pc = "connect" /\ ~q.remote => q.lease
  /\ q.entry # "none" =>
       /\ q.pc \in {"ready", "lent", "requeued", "load", "loading"} \cup Session \cup Answer
       /\ q.shape.target = "registry" /\ q.shape.path # "options"
  /\ q.route => q.pc \notin {"idle", "text", "named", "takeover", "operation", "done"}

\* Which requests get where.
Belongs(pc, s, redirected, remote) ==
  /\ pc \in {"route", "prepare", "admit", "queue", "lent", "requeued"} => s.target = "registry"
  /\ pc \in {"queue", "lent", "requeued"} => s.lane # "audio"
  /\ s.path = "options" =>
       pc \in {"idle", "options", "route", "local", "remote", "admit", "load", "loading",
                 "loaded", "answered", "relay", "done"}
  /\ pc = "named" => s.lane = "text" /\ s.target \in {"recipe", "registry", "local"}
  /\ pc \in {"text", "image", "audio"} => s.lane = pc /\ s.target # "operation"
  /\ pc = "options" => s.path = "options"
  /\ pc = "loaded" => s.path = "options"
  /\ pc = "operation" => s.target = "operation"
  /\ pc = "job" => s.target = "job"
  /\ pc = "active" => s.target \in {"none", "job"}
  /\ pc = "recipe" => s.target = "recipe"
  /\ pc = "realtime" => s.target = "realtime"
  /\ s.target = "realtime" =>
       pc \in {"idle", "realtime", "load", "loading", "connect", "relay", "done"}
  /\ pc = "connect" => s.target = "realtime"
  /\ pc = "takeover" => ~redirected /\ s.borrowed = "no"
  /\ s.borrowed # "no" => ~remote /\ pc \notin {"remote", "lent"}

Placed(q) == Belongs(q.pc, q.shape, q.redirected, q.remote)

\* Where the answer comes from.
Sourced(q) ==
  /\ q.remote => q.pc \in {"prepare", "remote", "connect", "done"} \cup Answer
  /\ q.pc = "remote" => q.remote
  /\ q.pc = "answered" => q.body = IF q.remote THEN "remote" ELSE "local"
  /\ q.pc \in Answer => q.body # "none"
  /\ q.pc = "track" => q.body \in {"local", "remote"}
  /\ q.pc = "remember" => q.body \in {"closed", "remote"} /\ ~q.shape.stream
  /\ q.pc \in Answer /\ q.body = "remote" => q.remote
  /\ q.pc \in Answer /\ q.body = "closed" => ~q.shape.stream
  /\ q.pc \in Answer /\ q.shape.path = "options" => q.body = "remote"
  /\ q.body = "family" => q.result = "none"
  /\ q.body # "none" => q.pc \in Answer \cup {"takeover", "done"}
  /\ q.shape.borrowed # "no" => q.body \notin {"remote", "lent"}
  /\ q.attempt # 0 \/ q.generated # 0 \/ q.result # "none" =>
       q.pc \in Session \cup Answer \cup {"takeover", "done"}

\* The retries and the answers generated so far.
Counted(q) ==
  LET asked == IF q.pc = "forward" \/ q.result = "inactive" THEN 0 ELSE 1
  IN /\ q.attempt <= RpReadiness
     /\ q.generated <= RpInference + 1
     /\ q.pc \in Session => q.generated <= q.attempt + asked /\ q.generated <= RpInference + asked

\* A forwarding whose event is still to be recorded.
Owed(q) ==
  IF /\ observed(q) /\ q.shape.target # "realtime" /\ q.shape.path # "options"
     /\ \/ q.pc \in {"load", "loading", "family"} \cup Session
        \/ q.pc \in Answer /\ q.body \in {"local", "closed", "family"}
  THEN 1 ELSE 0

Good(q) ==
  /\ Typed(q)
  /\ Holds(q) /\ Placed(q) /\ Sourced(q) /\ Counted(q)
  /\ q.forwards = q.events + Owed(q)

-----------------------------------------------------------------------------
(* The runtime and what is remembered.                                     *)

Switching == {"loading", "reloading"}

\* Nobody's lease is on a runtime that is switching or that holds something else.
Shared ==
  /\ DOMAIN rpserver = {"config", "switching", "epoch", "alive"} /\ rpserver.epoch \in Nat
  /\ rpserver.switching \in BOOLEAN /\ rpserver.alive \in BOOLEAN
  /\ \A r \in RpRequests : rq[r].lease => rpserver.config = rq[r].config
  /\ \A r \in RpRequests : rq[r].pc \in Switching =>
       /\ rpserver.switching
       /\ \A k \in rpkept : ~k.lease
       /\ \A s \in RpRequests \ {r} : ~rq[s].lease /\ rq[s].pc \notin Switching
  /\ rpserver.switching => \E r \in RpRequests : rq[r].pc \in Switching

Kept ==
  /\ IsFiniteSet(rpkept)
  /\ \A path \in {"responses", "jobs"} : Cardinality({k \in rpkept : k.path = path}) <= RpKeepLimit
  /\ \A k \in rpkept : k.stream /\ k.lease => rpserver.config = k.config /\ rpserver.epoch = k.epoch

RpInv ==
  /\ rq = [r \in RpRequests |-> rq[r]]
  /\ \A r \in RpRequests : Good(rq[r])
  /\ Shared /\ Kept

-----------------------------------------------------------------------------
(* Steps that change one request only.                                     *)

\* The request stays good, and what it gains is a lease on a runtime that holds
\* its config.
Passes(q, p) ==
  /\ Good(p)
  /\ p.lease => (q.lease /\ p.config = q.config) \/ (~rpserver.switching /\ rpserver.config = p.config)
  /\ p.pc \in Switching <=> q.pc \in Switching

Stepped(r) == \E q : Alone(r, q) /\ Passes(rq[r], q)

\* Until something is forwarded a request holds no lease and owes no event.
BeforePcs ==
  {"idle", "text", "image", "audio", "options", "named", "local", "active", "job", "recipe", "route",
   "prepare", "remote", "admit", "queue", "ready", "lent", "requeued", "realtime", "operation"}

Before(q) ==
  /\ q.pc \in BeforePcs /\ ~q.lease /\ q.body = "none" /\ q.result = "none"
  /\ q.attempt = 0 /\ q.generated = 0 /\ q.forwards = q.events
  /\ q.entry # "none" =>
       q.pc \in {"ready", "lent", "requeued"} /\ q.shape.target = "registry" /\ q.shape.path # "options"
  /\ q.route => q.pc \notin {"idle", "text", "named", "operation"}
  /\ q.remote => q.pc \in {"prepare", "remote"}
  /\ q.pc = "remote" => q.remote
  /\ Placed(q)

\* Where it is, being good and this are the same.
LEMMA GoodBefore ==
  ASSUME NEW q, Good(q), q.pc \in BeforePcs
  PROVE  Typed(q) /\ Before(q) /\ q.pc \notin Switching /\ Owed(q) = 0
<1>1. Typed(q) /\ Holds(q) /\ Placed(q) /\ Sourced(q) /\ Counted(q) /\ q.forwards = q.events + Owed(q)
  BY DEF Good
<1>2. Owed(q) = 0
  BY DEF Owed, BeforePcs, Session, Retrying, Answer
<1>3. q.forwards = q.events
  BY <1>1, <1>2 DEF Typed
<1>4. ~q.lease /\ (q.route => q.pc \notin {"idle", "text", "named", "operation"})
  BY <1>1 DEF Holds, BeforePcs, Session, Retrying, Answer
<1>5. q.entry # "none" =>
        q.pc \in {"ready", "lent", "requeued"} /\ q.shape.target = "registry" /\ q.shape.path # "options"
  BY <1>1 DEF Holds, BeforePcs, Session, Retrying, Answer
<1>6. q.pc \notin Session \cup Answer \cup {"takeover", "done", "connect"} /\ q.pc \notin Switching
  BY DEF BeforePcs, Session, Retrying, Answer, Switching
<1>7. q.body = "none" /\ q.result = "none" /\ q.attempt = 0 /\ q.generated = 0
  BY <1>1, <1>6 DEF Sourced
<1>8. (q.remote => q.pc \in {"prepare", "remote"}) /\ (q.pc = "remote" => q.remote)
  BY <1>1, <1>6 DEF Sourced
<1> QED
  BY <1>1, <1>2, <1>3, <1>4, <1>5, <1>6, <1>7, <1>8 DEF Before

LEMMA BeforeGood ==
  ASSUME RpInputs, NEW q, Typed(q), Before(q)
  PROVE  Good(q) /\ q.pc \notin Switching
<1>1. q.pc \notin Session \cup Answer \cup {"takeover", "done", "connect"} /\ q.pc \notin Switching
  BY DEF Before, BeforePcs, Session, Retrying, Answer, Switching
<1>2. Holds(q)
  BY <1>1 DEF Before, BeforePcs, Holds, Answer
<1>3. Sourced(q)
  BY <1>1 DEF Before, Sourced, Answer
<1>4. Counted(q)
  BY <1>1 DEF Before, Counted, RpInputs
<1>5. Owed(q) = 0
  BY <1>1 DEF Before, Owed, BeforePcs
<1>6. q.forwards = q.events + Owed(q)
  BY <1>5 DEF Before, Typed
<1> QED
  BY <1>1, <1>2, <1>3, <1>4, <1>6 DEF Good, Before

LEMMA BeforePasses ==
  ASSUME RpInputs, NEW q, q.pc \notin Switching, NEW p, Typed(p), Before(p)
  PROVE  Passes(q, p)
BY BeforeGood DEF Passes, Before

\* A request that has let go of everything and owes no event is done.
LEMMA DoneGood ==
  ASSUME NEW q, Good(q), NEW p, Typed(p), p.pc = "done", ~p.route, p.entry = "none", ~p.lease,
         p.shape = q.shape, p.body = q.body, p.remote = q.remote, p.generated = q.generated,
         p.attempt = q.attempt, p.result = q.result, p.forwards = p.events
  PROVE  Good(p) /\ p.pc \notin Switching
<1>1. Holds(p) /\ Placed(p)
  BY DEF Holds, Placed, Belongs, Good, Session, Retrying, Answer
<1>2. Sourced(p)
  BY DEF Sourced, Good, Session, Retrying, Answer
<1>3. Counted(p)
  BY DEF Counted, Good, Session, Retrying
<1>4. p.forwards = p.events + Owed(p)
  BY DEF Owed, Session, Retrying, Answer, Typed
<1> QED BY <1>1, <1>2, <1>3, <1>4 DEF Good, Switching

\* A request that holds no lease and owes no event may return.
LEMMA ReturnsGood ==
  ASSUME RpInputs, NEW q, Good(q), ~q.lease, Owed(q) = 0, q.pc \notin Switching,
         NEW answer \in {"error", "returned", "served"}
  PROVE  Passes(q, Answered(release(complete(q)), answer))
<1> DEFINE p == Answered(release(complete(q)), answer)
<1>1. Typed(p)
  BY DEF Good, Typed, Fields, Answered, release, complete
<1>2. /\ p.pc = "done" /\ ~p.route /\ p.entry = "none" /\ ~p.lease /\ p.shape = q.shape
      /\ p.body = q.body /\ p.remote = q.remote /\ p.generated = q.generated
      /\ p.attempt = q.attempt /\ p.result = q.result /\ p.forwards = q.forwards /\ p.events = q.events
  BY DEF Good, Typed, Fields, Answered, release, complete
<1> HIDE DEF p
<1>3. p.forwards = p.events
  BY <1>2 DEF Good, Typed
<1>4. Passes(q, p)
  BY <1>1, <1>2, <1>3, DoneGood DEF Passes
<1> QED BY <1>4 DEF p

LEMMA EarlyReturns ==
  ASSUME RpInputs, NEW r, Good(rq[r]), rq[r].pc \in BeforePcs,
         NEW answer \in {"error", "returned", "served"}, Returns(r, answer)
  PROVE  Stepped(r)
<1>1. ~rq[r].lease /\ Owed(rq[r]) = 0 /\ rq[r].pc \notin Switching
  BY GoodBefore DEF Before
<1>2. Passes(rq[r], Answered(release(complete(rq[r])), answer))
  BY <1>1, ReturnsGood
<1> QED BY <1>2 DEF Returns, Stepped

\* Going on to another of these places needs only that the request belongs there.
LEMMA EarlyGoes ==
  ASSUME RpInputs, NEW r, Good(rq[r]), rq[r].pc \in BeforePcs, NEW pc \in BeforePcs, Goes(r, pc),
         rq[r].entry # "none" => pc = "ready",
         rq[r].route => pc \notin {"idle", "text", "named", "operation"},
         rq[r].remote => pc = "remote", pc = "remote" => rq[r].remote,
         Belongs(pc, rq[r].shape, rq[r].redirected, rq[r].remote)
  PROVE  Stepped(r)
<1> DEFINE p == [rq[r] EXCEPT !.pc = pc]
<1>1. Typed(rq[r]) /\ Before(rq[r]) /\ rq[r].pc \notin Switching
  BY GoodBefore
<1>2. /\ Typed(p) /\ p.pc = pc /\ p.shape = rq[r].shape /\ p.redirected = rq[r].redirected
      /\ p.remote = rq[r].remote /\ p.route = rq[r].route /\ p.entry = rq[r].entry
      /\ p.lease = rq[r].lease /\ p.attempt = rq[r].attempt /\ p.result = rq[r].result
      /\ p.generated = rq[r].generated /\ p.body = rq[r].body /\ p.forwards = rq[r].forwards
      /\ p.events = rq[r].events
  BY <1>1 DEF Typed, Fields
<1>3. Alone(r, p)
  BY DEF Goes
<1> HIDE DEF p
<1>4. Placed(p)
  BY <1>2 DEF Placed, Belongs
<1>5. Before(p)
  BY <1>1, <1>2, <1>4 DEF Before
<1>6. Passes(rq[r], p)
  BY <1>1, <1>2, <1>5, BeforePasses
<1> QED BY <1>3, <1>6 DEF Stepped

LEMMA EarlyMoves ==
  ASSUME RpInputs, NEW r, rq[r].pc \notin Switching, NEW p, Typed(p), Before(p), Alone(r, p)
  PROVE  Stepped(r)
BY BeforePasses DEF Stepped

\* What the shapes are.
LEMMA ShapeFacts ==
  ASSUME NEW s \in Shapes
  PROVE  /\ s.lane \in {"text", "image", "audio"}
         /\ s.lane = "text" => s.target \in {"recipe", "registry", "local", "none", "operation"}
         /\ s.lane = "image" => s.target \in {"recipe", "registry", "local", "none", "job"}
         /\ s.lane = "audio" => s.target \in {"recipe", "registry", "local", "unknown", "none", "realtime"}
         /\ s.path = "options" => s.lane = "image" /\ s.target # "job"
         /\ s.borrowed # "no" => s.target = "registry" /\ s.lane # "audio" /\ s.path # "options"
BY DEF Shapes, RpTargets

\* What is forwarded is owed an event, if it is observed.
LEMMA Begins ==
  ASSUME RpInputs, NEW r, Good(rq[r]), rq[r].pc \in {"ready", "recipe"}, BeginForward(r)
  PROVE  Stepped(r)
<1> DEFINE q == rq[r]
           p == [q EXCEPT !.pc = IF q.shape.target \in {"none", "unknown"} THEN "family" ELSE "load",
                          !.forwards = IF observed(q) THEN @ + 1 ELSE @]
<1>1. Typed(q) /\ Before(q) /\ q.pc \notin Switching
  BY GoodBefore DEF BeforePcs
<1>2. /\ Typed(p) /\ p.shape = q.shape /\ p.redirected = q.redirected /\ p.remote = q.remote
      /\ p.route = q.route /\ p.entry = q.entry /\ p.lease = q.lease /\ p.attempt = q.attempt
      /\ p.result = q.result /\ p.generated = q.generated /\ p.body = q.body /\ p.events = q.events
      /\ p.pc = (IF q.shape.target \in {"none", "unknown"} THEN "family" ELSE "load")
      /\ p.forwards = (IF observed(q) THEN q.forwards + 1 ELSE q.forwards)
  BY <1>1 DEF Typed, Fields
<1>3. Alone(r, p)
  BY DEF BeginForward
<1> HIDE DEF p
<1>4. Holds(p)
  BY <1>1, <1>2 DEF Before, Holds, Session, Retrying, Answer
<1>5. Placed(p)
  BY <1>1, <1>2 DEF Before, Placed, Belongs
<1>6. Sourced(p)
  BY <1>1, <1>2 DEF Before, Sourced, Session, Retrying, Answer
<1>7. Counted(p)
  BY <1>1, <1>2 DEF Before, Counted, Session, Retrying, RpInputs
<1>8. q.shape.target # "realtime" /\ q.shape.path # "options"
  BY <1>1 DEF Before, Placed, Belongs
<1>9. Owed(p) = IF observed(q) THEN 1 ELSE 0
  BY <1>1, <1>2, <1>8 DEF Before, Owed, observed
<1>10. p.forwards = p.events + Owed(p)
  BY <1>1, <1>2, <1>9 DEF Before, Typed
<1>11. Passes(q, p)
  BY <1>1, <1>2, <1>4, <1>5, <1>6, <1>7, <1>10 DEF Passes, Good, Before, Switching
<1> QED BY <1>3, <1>11 DEF Stepped

\* A lease is asked for.
LEMMA LoadsGood ==
  ASSUME RpInputs, NEW q, Typed(q), q.pc = "load", ~q.lease, ~q.remote, q.body = "none", q.result = "none",
         q.attempt = 0, q.generated = 0, q.forwards = q.events + Owed(q), Placed(q),
         q.entry # "none" => q.shape.target = "registry" /\ q.shape.path # "options"
  PROVE  Good(q) /\ q.pc \notin Switching
<1>1. Holds(q) /\ Sourced(q)
  BY DEF Holds, Sourced, Session, Retrying, Answer
<1>2. Counted(q)
  BY DEF Counted, Session, Retrying, RpInputs
<1> QED BY <1>1, <1>2 DEF Good, Switching

\* Options and realtime connections ask for one without being observed.
LEMMA LoadsUnobserved ==
  ASSUME RpInputs, NEW r, Good(rq[r]), rq[r].pc \in BeforePcs, rq[r].entry = "none", ~rq[r].remote,
         Goes(r, "load"), rq[r].shape.path = "options"
  PROVE  Stepped(r)
<1> DEFINE q == rq[r]
           p == [q EXCEPT !.pc = "load"]
<1>1. Typed(q) /\ Before(q) /\ q.pc \notin Switching
  BY GoodBefore
<1>2. /\ Typed(p) /\ p.pc = "load" /\ p.shape = q.shape /\ p.redirected = q.redirected
      /\ p.remote = q.remote /\ p.entry = q.entry /\ p.lease = q.lease /\ p.attempt = q.attempt
      /\ p.result = q.result /\ p.generated = q.generated /\ p.body = q.body
      /\ p.forwards = q.forwards /\ p.events = q.events
  BY <1>1 DEF Typed, Fields
<1>3. Alone(r, p)
  BY DEF Goes
<1> HIDE DEF p
<1>4. Placed(p)
  BY <1>1, <1>2 DEF Before, Placed, Belongs, BeforePcs
<1>5. p.forwards = p.events + Owed(p)
  BY <1>1, <1>2 DEF Before, Owed, Typed
<1>6. Good(p) /\ p.pc \notin Switching
  BY <1>1, <1>2, <1>4, <1>5, LoadsGood DEF Before
<1> QED BY <1>1, <1>2, <1>3, <1>6 DEF Stepped, Passes, Before

\* An embedding without a model gets a route ...
LEMMA EmbeddingRouted ==
  ASSUME RpInputs, NEW r, Good(rq[r]), rq[r].pc = "text", rq[r].shape.target = "none", NEW remote,
         Alone(r, [rq[r] EXCEPT !.pc = "prepare", !.route = TRUE, !.remote = remote, !.shape.target = "registry"])
  PROVE  Stepped(r)
<1> DEFINE q == rq[r]
           p == [q EXCEPT !.pc = "prepare", !.route = TRUE, !.remote = remote, !.shape.target = "registry"]
<1>1. Typed(q) /\ Before(q) /\ q.pc \notin Switching
  BY GoodBefore DEF BeforePcs
<1>2. q.shape \in Shapes /\ q.shape.borrowed = "no" /\ q.shape.path # "options"
  BY <1>1, ShapeFacts DEF Typed, Before, Placed, Belongs
<1>3. /\ Typed(p) /\ p.pc = "prepare" /\ p.remote = remote /\ p.shape.target = "registry" /\ p.shape.lane = q.shape.lane
      /\ p.shape.path = q.shape.path /\ p.shape.borrowed = q.shape.borrowed
      /\ p.redirected = q.redirected /\ p.entry = q.entry /\ p.lease = q.lease /\ p.attempt = q.attempt
      /\ p.result = q.result /\ p.generated = q.generated /\ p.body = q.body /\ p.forwards = q.forwards
      /\ p.events = q.events
  BY <1>1, <1>2 DEF Typed, Fields, Shapes, RpTargets
<1> HIDE DEF p
<1>4. Before(p)
  BY <1>1, <1>2, <1>3 DEF Before, Placed, Belongs, BeforePcs
<1> QED BY <1>1, <1>3, <1>4, EarlyMoves DEF p

\* ... or a local model.
LEMMA EmbeddingLocal ==
  ASSUME RpInputs, NEW r, Good(rq[r]), rq[r].pc = "text", rq[r].shape.target = "none",
         Alone(r, [rq[r] EXCEPT !.pc = "local", !.shape.target = "local"])
  PROVE  Stepped(r)
<1> DEFINE q == rq[r]
           p == [q EXCEPT !.pc = "local", !.shape.target = "local"]
<1>1. Typed(q) /\ Before(q) /\ q.pc \notin Switching
  BY GoodBefore DEF BeforePcs
<1>2. q.shape \in Shapes /\ q.shape.borrowed = "no" /\ q.shape.path # "options"
  BY <1>1, ShapeFacts DEF Typed, Before, Placed, Belongs
<1>3. /\ Typed(p) /\ p.pc = "local" /\ p.shape.target = "local" /\ p.shape.lane = q.shape.lane
      /\ p.shape.path = q.shape.path /\ p.shape.borrowed = q.shape.borrowed
      /\ p.redirected = q.redirected /\ p.remote = q.remote /\ p.route = q.route /\ p.entry = q.entry
      /\ p.lease = q.lease /\ p.attempt = q.attempt /\ p.result = q.result /\ p.generated = q.generated
      /\ p.body = q.body /\ p.forwards = q.forwards /\ p.events = q.events
  BY <1>1, <1>2 DEF Typed, Fields, Shapes, RpTargets
<1> HIDE DEF p
<1>4. Before(p)
  BY <1>1, <1>2, <1>3 DEF Before, Placed, Belongs, BeforePcs
<1> QED BY <1>1, <1>3, <1>4, EarlyMoves DEF p

\* The active image model is a local one.
LEMMA ActiveLocal ==
  ASSUME RpInputs, NEW r, Good(rq[r]), rq[r].pc = "active", NEW config,
         Alone(r, [rq[r] EXCEPT !.pc = "local", !.shape.target = "local", !.config = config])
  PROVE  Stepped(r)
<1> DEFINE q == rq[r]
           p == [q EXCEPT !.pc = "local", !.shape.target = "local", !.config = config]
<1>1. Typed(q) /\ Before(q) /\ q.pc \notin Switching
  BY GoodBefore DEF BeforePcs
<1>2. q.shape \in Shapes /\ q.shape.borrowed = "no" /\ q.shape.path # "options"
  BY <1>1, ShapeFacts DEF Typed, Before, Placed, Belongs
<1>3. /\ Typed(p) /\ p.pc = "local" /\ p.shape.target = "local" /\ p.shape.lane = q.shape.lane
      /\ p.shape.path = q.shape.path /\ p.shape.borrowed = q.shape.borrowed
      /\ p.redirected = q.redirected /\ p.remote = q.remote /\ p.route = q.route /\ p.entry = q.entry
      /\ p.lease = q.lease /\ p.attempt = q.attempt /\ p.result = q.result /\ p.generated = q.generated
      /\ p.body = q.body /\ p.forwards = q.forwards /\ p.events = q.events
  BY <1>1, <1>2 DEF Typed, Fields, Shapes, RpTargets
<1> HIDE DEF p
<1>4. Before(p)
  BY <1>1, <1>2, <1>3 DEF Before, Placed, Belongs, BeforePcs
<1> QED BY <1>1, <1>3, <1>4, EarlyMoves DEF p

\* A recipe named by the options is forwarded to.
LEMMA OptionsRecipe ==
  ASSUME RpInputs, NEW r, Good(rq[r]), rq[r].pc = "options", rq[r].shape.target = "recipe",
         Alone(r, [rq[r] EXCEPT !.pc = "recipe", !.shape.path = "other"])
  PROVE  Stepped(r)
<1> DEFINE q == rq[r]
           p == [q EXCEPT !.pc = "recipe", !.shape.path = "other"]
<1>1. Typed(q) /\ Before(q) /\ q.pc \notin Switching
  BY GoodBefore DEF BeforePcs
<1>2. q.shape \in Shapes /\ q.shape.borrowed = "no"
  BY <1>1, ShapeFacts DEF Typed, Before, Placed, Belongs
<1>3. /\ Typed(p) /\ p.pc = "recipe" /\ p.shape.target = "recipe" /\ p.shape.lane = q.shape.lane
      /\ p.shape.path = "other" /\ p.shape.borrowed = q.shape.borrowed
      /\ p.redirected = q.redirected /\ p.remote = q.remote /\ p.route = q.route /\ p.entry = q.entry
      /\ p.lease = q.lease /\ p.attempt = q.attempt /\ p.result = q.result /\ p.generated = q.generated
      /\ p.body = q.body /\ p.forwards = q.forwards /\ p.events = q.events
  BY <1>1, <1>2 DEF Typed, Fields, Shapes, RpTargets
<1> HIDE DEF p
<1>4. Before(p)
  BY <1>1, <1>2, <1>3 DEF Before, Placed, Belongs, BeforePcs
<1> QED BY <1>1, <1>3, <1>4, EarlyMoves DEF p

\* A component of a recipe runs on another node.
LEMMA RemoteRecipe ==
  ASSUME RpInputs, NEW r, Good(rq[r]), rq[r].pc = "recipe", Alone(r, [rq[r] EXCEPT !.pc = "remote", !.remote = TRUE])
  PROVE  Stepped(r)
<1> DEFINE q == rq[r]
           p == [q EXCEPT !.pc = "remote", !.remote = TRUE]
<1>1. Typed(q) /\ Before(q) /\ q.pc \notin Switching
  BY GoodBefore DEF BeforePcs
<1>2. q.shape \in Shapes /\ q.shape.borrowed = "no"
  BY <1>1, ShapeFacts DEF Typed, Before, Placed, Belongs
<1>3. /\ Typed(p) /\ p.pc = "remote" /\ p.remote
      /\ p.shape = q.shape /\ p.redirected = q.redirected /\ p.route = q.route /\ p.entry = q.entry
      /\ p.lease = q.lease /\ p.attempt = q.attempt /\ p.result = q.result /\ p.generated = q.generated
      /\ p.body = q.body /\ p.forwards = q.forwards /\ p.events = q.events
  BY <1>1, <1>2 DEF Typed, Fields
<1> HIDE DEF p
<1>4. Before(p)
  BY <1>1, <1>2, <1>3 DEF Before, Placed, Belongs, BeforePcs
<1> QED BY <1>1, <1>3, <1>4, EarlyMoves DEF p

\* A guardian is asked before anything is sent ...
LEMMA TakeoverBegins ==
  ASSUME RpInputs, NEW r, Good(rq[r]), rq[r].pc = "named", ~rq[r].redirected,
         rq[r].shape.borrowed = "no", Goes(r, "takeover")
  PROVE  Stepped(r)
<1> DEFINE q == rq[r]
           p == [q EXCEPT !.pc = "takeover"]
<1>1. Typed(q) /\ Before(q) /\ q.pc \notin Switching
  BY GoodBefore DEF BeforePcs
<1>2. /\ Typed(p) /\ p.pc = "takeover"
      /\ p.shape = q.shape /\ p.redirected = q.redirected /\ p.remote = q.remote /\ p.route = q.route
      /\ p.entry = q.entry /\ p.lease = q.lease /\ p.attempt = q.attempt /\ p.result = q.result
      /\ p.generated = q.generated /\ p.body = q.body /\ p.forwards = q.forwards /\ p.events = q.events
  BY <1>1 DEF Typed, Fields
<1>3. Alone(r, p)
  BY DEF Goes
<1> HIDE DEF p
<1>4. Holds(p) /\ Sourced(p)
  BY <1>1, <1>2 DEF Before, Holds, Sourced, Session, Retrying, Answer
<1>5. Placed(p)
  BY <1>1, <1>2 DEF Before, Placed, Belongs
<1>6. Counted(p)
  BY <1>1, <1>2 DEF Before, Counted, Session, Retrying, RpInputs
<1>7. p.forwards = p.events + Owed(p)
  BY <1>1, <1>2 DEF Before, Typed, Owed, Session, Retrying, Answer
<1> QED BY <1>1, <1>2, <1>3, <1>4, <1>5, <1>6, <1>7 DEF Stepped, Passes, Good, Switching, Before

\* ... and the request starts over for it.
LEMMA TakeoverRoutes ==
  ASSUME RpInputs, NEW r, Good(rq[r]), handleGuardianTakeover(r)
  PROVE  Stepped(r)
<1> DEFINE q == rq[r]
           p == [q EXCEPT !.pc = "route", !.redirected = TRUE, !.config = RpGuardian,
                          !.shape.target = "registry", !.attempt = 0, !.result = "none",
                          !.skip = FALSE, !.recovered = FALSE, !.generated = 0, !.body = "none"]
<1>1. Typed(q) /\ q.pc = "takeover" /\ q.forwards = q.events + Owed(q)
  BY DEF Good, handleGuardianTakeover, At
<1>2. ~q.lease /\ q.entry = "none" /\ ~q.route /\ ~q.remote
  BY <1>1 DEF Good, Holds, Sourced, Session, Retrying, Answer
<1>3. q.shape \in Shapes /\ q.shape.path # "options" /\ q.shape.borrowed = "no" /\ q.shape.lane \in {"text", "image", "audio"}
  BY <1>1, ShapeFacts DEF Good, Typed, Placed, Belongs
<1>4. q.forwards = q.events
  BY <1>1 DEF Typed, Owed, Session, Retrying, Answer
<1> DEFINE s == [q.shape EXCEPT !.target = "registry"]
<1>s. s \in Shapes /\ s.target = "registry" /\ s.path = q.shape.path /\ s.borrowed = q.shape.borrowed /\ s.lane = q.shape.lane
  BY <1>3 DEF Shapes, RpTargets
<1>t. p.shape = s /\ DOMAIN p = Fields
  BY <1>1 DEF Typed, Fields
<1> HIDE DEF s
<1>5. /\ Typed(p) /\ p.pc = "route" /\ p.body = "none" /\ p.result = "none" /\ p.attempt = 0
      /\ p.generated = 0 /\ p.shape.target = "registry" /\ p.shape.path = q.shape.path
      /\ p.shape.borrowed = q.shape.borrowed /\ p.shape.lane = q.shape.lane
      /\ p.remote = q.remote /\ p.route = q.route /\ p.entry = q.entry /\ p.lease = q.lease
      /\ p.forwards = q.forwards /\ p.events = q.events
  BY <1>1, <1>s, <1>t DEF Typed, Fields
<1>6. Alone(r, p)
  BY DEF handleGuardianTakeover
<1> HIDE DEF p
<1>7. Before(p)
  BY <1>2, <1>3, <1>4, <1>5 DEF Before, Placed, Belongs, BeforePcs
<1>8. q.pc \notin Switching
  BY <1>1 DEF Switching
<1> QED BY <1>5, <1>6, <1>7, <1>8, EarlyMoves

\* Choosing the target keeps a request good.
LEMMA ChoosingSteps ==
  ASSUME RpInputs, NEW r, Good(rq[r]), Choosing(r)
  PROVE  Stepped(r)
<1> DEFINE q == rq[r]
<1>1. CASE serveHTTP(r)
  <2>1. q.pc = "idle" /\ Typed(q) /\ Before(q)
    BY <1>1, GoodBefore DEF serveHTTP, At, BeforePcs
  <2>2. q.shape \in Shapes
    BY <2>1 DEF Typed
  <2> QED
    BY <1>1, <2>1, <2>2, EarlyReturns, EarlyGoes, ShapeFacts
       DEF serveHTTP, BeforePcs, Before, Placed, Belongs
<1>2. CASE selectRequestModel(r)
  <2>1. q.pc = "text" /\ Typed(q) /\ Before(q)
    BY <1>2, GoodBefore DEF selectRequestModel, At, BeforePcs
  <2>2. q.shape \in Shapes
    BY <2>1 DEF Typed
  <2> QED
    BY <1>2, <2>1, <2>2, EarlyReturns, EarlyGoes, ShapeFacts
       DEF selectRequestModel, BeforePcs, Before, Placed, Belongs
<1>3. CASE selectSelectorlessEmbeddingModel(r)
  <2>1. q.pc = "text" /\ Typed(q) /\ Before(q)
    BY <1>3, GoodBefore DEF selectSelectorlessEmbeddingModel, At, BeforePcs
  <2>2. q.shape \in Shapes
    BY <2>1 DEF Typed
  <2> QED
    BY <1>3, <2>1, <2>2, EarlyReturns, EarlyGoes, ShapeFacts, EmbeddingRouted, EmbeddingLocal
       DEF selectSelectorlessEmbeddingModel, BeforePcs, Before, Placed, Belongs
<1>4. CASE routeNamedModelRequest(r)
  <2>1. q.pc = "named" /\ Typed(q) /\ Before(q)
    BY <1>4, GoodBefore DEF routeNamedModelRequest, At, BeforePcs
  <2>2. q.shape \in Shapes
    BY <2>1 DEF Typed
  <2> QED
    BY <1>4, <2>1, <2>2, EarlyReturns, EarlyGoes, ShapeFacts, TakeoverBegins
       DEF routeNamedModelRequest, BeforePcs, Before, Placed, Belongs, guardianBeforeSend, guardiansMayAnswer
<1>5. CASE resolveLocalModelTarget(r)
  <2>1. q.pc = "local" /\ Typed(q) /\ Before(q)
    BY <1>5, GoodBefore DEF resolveLocalModelTarget, At, BeforePcs
  <2>2. q.shape \in Shapes
    BY <2>1 DEF Typed
  <2> QED
    BY <1>5, <2>1, <2>2, EarlyReturns, EarlyGoes, ShapeFacts
       DEF resolveLocalModelTarget, BeforePcs, Before, Placed, Belongs
<1>6. CASE forwardLocalModelRequest(r)
  <2>1. q.pc = "ready" /\ Typed(q) /\ Before(q)
    BY <1>6, GoodBefore DEF forwardLocalModelRequest, At, BeforePcs
  <2>2. q.shape \in Shapes
    BY <2>1 DEF Typed
  <2> QED
    BY <1>6, <2>1, <2>2, EarlyReturns, EarlyGoes, ShapeFacts, Begins
       DEF forwardLocalModelRequest, BeforePcs, Before, Placed, Belongs, In
<1>7. CASE handleImageRequest(r)
  <2>1. q.pc = "image" /\ Typed(q) /\ Before(q)
    BY <1>7, GoodBefore DEF handleImageRequest, At, BeforePcs
  <2>2. q.shape \in Shapes
    BY <2>1 DEF Typed
  <2> QED
    BY <1>7, <2>1, <2>2, EarlyReturns, EarlyGoes, ShapeFacts
       DEF handleImageRequest, BeforePcs, Before, Placed, Belongs
<1>8. CASE forwardImageDiscovery(r)
  <2>1. q.pc = "ready" /\ Typed(q) /\ Before(q)
    BY <1>8, GoodBefore DEF forwardImageDiscovery, At, BeforePcs
  <2>2. q.shape \in Shapes
    BY <2>1 DEF Typed
  <2> QED
    BY <1>8, <2>1, <2>2, EarlyReturns, EarlyGoes, ShapeFacts, Begins
       DEF forwardImageDiscovery, BeforePcs, Before, Placed, Belongs, In
<1>9. CASE resolveActiveImageModel(r)
  <2>1. q.pc = "active" /\ Typed(q) /\ Before(q)
    BY <1>9, GoodBefore DEF resolveActiveImageModel, At, BeforePcs
  <2>2. q.shape \in Shapes
    BY <2>1 DEF Typed
  <2> QED
    BY <1>9, <2>1, <2>2, EarlyReturns, EarlyGoes, ShapeFacts, ActiveLocal
       DEF resolveActiveImageModel, BeforePcs, Before, Placed, Belongs
<1>10. CASE prepareLocalImageModel(r)
  <2>1. q.pc = "local" /\ Typed(q) /\ Before(q)
    BY <1>10, GoodBefore DEF prepareLocalImageModel, At, BeforePcs
  <2>2. q.shape \in Shapes
    BY <2>1 DEF Typed
  <2> QED
    BY <1>10, <2>1, <2>2, EarlyReturns, EarlyGoes, ShapeFacts, LoadsUnobserved
       DEF prepareLocalImageModel, BeforePcs, Before, Placed, Belongs
<1>11. CASE forwardLocalImageRequest(r)
  <2>1. q.pc = "ready" /\ Typed(q) /\ Before(q)
    BY <1>11, GoodBefore DEF forwardLocalImageRequest, At, BeforePcs
  <2>2. q.shape \in Shapes
    BY <2>1 DEF Typed
  <2> QED
    BY <1>11, <2>1, <2>2, EarlyReturns, EarlyGoes, ShapeFacts, Begins
       DEF forwardLocalImageRequest, BeforePcs, Before, Placed, Belongs, In
<1>12. CASE handleAudioRequest(r)
  <2>1. q.pc = "audio" /\ Typed(q) /\ Before(q)
    BY <1>12, GoodBefore DEF handleAudioRequest, At, BeforePcs
  <2>2. q.shape \in Shapes
    BY <2>1 DEF Typed
  <2> QED
    BY <1>12, <2>1, <2>2, EarlyReturns, EarlyGoes, ShapeFacts
       DEF handleAudioRequest, BeforePcs, Before, Placed, Belongs
<1>13. CASE resolveLocalAudioTarget(r)
  <2>1. q.pc = "local" /\ Typed(q) /\ Before(q)
    BY <1>13, GoodBefore DEF resolveLocalAudioTarget, At, BeforePcs
  <2>2. q.shape \in Shapes
    BY <2>1 DEF Typed
  <2> QED
    BY <1>13, <2>1, <2>2, EarlyReturns, EarlyGoes, ShapeFacts
       DEF resolveLocalAudioTarget, BeforePcs, Before, Placed, Belongs
<1>14. CASE forwardLocalAudioRequest(r)
  <2>1. q.pc = "ready" /\ Typed(q) /\ Before(q)
    BY <1>14, GoodBefore DEF forwardLocalAudioRequest, At, BeforePcs
  <2>2. q.shape \in Shapes
    BY <2>1 DEF Typed
  <2> QED
    BY <1>14, <2>1, <2>2, EarlyReturns, EarlyGoes, ShapeFacts, Begins
       DEF forwardLocalAudioRequest, BeforePcs, Before, Placed, Belongs, In
<1>15. CASE handleImageOptions(r)
  <2>1. q.pc = "options" /\ Typed(q) /\ Before(q)
    BY <1>15, GoodBefore DEF handleImageOptions, At, BeforePcs
  <2>2. q.shape \in Shapes
    BY <2>1 DEF Typed
  <2> QED
    BY <1>15, <2>1, <2>2, EarlyReturns, EarlyGoes, ShapeFacts, OptionsRecipe
       DEF handleImageOptions, BeforePcs, Before, Placed, Belongs
<1>16. CASE handleRecipeModelRequest(r)
  <2>1. q.pc = "recipe" /\ Typed(q) /\ Before(q)
    BY <1>16, GoodBefore DEF handleRecipeModelRequest, recipeComponentGoes, At, BeforePcs
  <2>2. q.shape \in Shapes
    BY <2>1 DEF Typed
  <2> QED
    BY <1>16, <2>1, <2>2, EarlyReturns, EarlyGoes, ShapeFacts, RemoteRecipe, Begins
       DEF handleRecipeModelRequest, BeforePcs, Before, Placed, Belongs, recipeComponentGoes
<1>17. CASE handleRecipeImageRequest(r)
  <2>1. q.pc = "recipe" /\ Typed(q) /\ Before(q)
    BY <1>17, GoodBefore DEF handleRecipeImageRequest, recipeComponentGoes, At, BeforePcs
  <2>2. q.shape \in Shapes
    BY <2>1 DEF Typed
  <2> QED
    BY <1>17, <2>1, <2>2, EarlyReturns, EarlyGoes, ShapeFacts, RemoteRecipe, Begins
       DEF handleRecipeImageRequest, BeforePcs, Before, Placed, Belongs, recipeComponentGoes
<1>18. CASE handleRecipeAudioRequest(r)
  <2>1. q.pc = "recipe" /\ Typed(q) /\ Before(q)
    BY <1>18, GoodBefore DEF handleRecipeAudioRequest, recipeComponentGoes, At, BeforePcs
  <2>2. q.shape \in Shapes
    BY <2>1 DEF Typed
  <2> QED
    BY <1>18, <2>1, <2>2, EarlyReturns, EarlyGoes, ShapeFacts, RemoteRecipe, Begins
       DEF handleRecipeAudioRequest, BeforePcs, Before, Placed, Belongs, recipeComponentGoes
<1>19. CASE handleGuardianTakeover(r)
  BY <1>19, TakeoverRoutes
<1> QED
  BY <1>1, <1>2, <1>3, <1>4, <1>5, <1>6, <1>7, <1>8, <1>9, <1>10, <1>11, <1>12, <1>13, <1>14, <1>15, <1>16, <1>17, <1>18, <1>19 DEF Choosing

\* A forwarding that fails is recorded and lets go of everything.
LEMMA FailsGood ==
  ASSUME NEW q, Good(q), q.pc \in {"load", "loading", "family"} \cup Session,
         q.shape.target # "realtime", q.shape.path # "options"
  PROVE  LET p == forwardFailed(releaseModel(q)) IN Good(p) /\ ~p.lease /\ p.pc \notin Switching
<1> DEFINE p == forwardFailed(releaseModel(q))
<1>1. Typed(q) /\ q.forwards = q.events + Owed(q)
  BY DEF Good
<1>2. /\ Typed(p) /\ p.pc = "done" /\ ~p.route /\ p.entry = "none" /\ ~p.lease
      /\ p.shape = q.shape /\ p.body = q.body /\ p.remote = q.remote /\ p.generated = q.generated
      /\ p.attempt = q.attempt /\ p.result = q.result /\ p.forwards = q.forwards
      /\ p.events = (IF observed(q) THEN q.events + 1 ELSE q.events)
  BY <1>1 DEF forwardFailed, releaseModel, recordFailure, Answered, release, complete, observed, Typed, Fields
<1> HIDE DEF p
<1>3. Owed(q) = IF observed(q) THEN 1 ELSE 0
  BY DEF Owed
<1>4. p.forwards = p.events
  BY <1>1, <1>2, <1>3 DEF Typed
<1>5. Good(p) /\ ~p.lease /\ p.pc \notin Switching
  BY <1>2, <1>4, DoneGood
<1> QED BY <1>5 DEF p

\* Without a lease to release.
LEMMA FailsUnleased ==
  ASSUME NEW q, Good(q), q.pc \in {"load", "loading", "family"},
         q.shape.target # "realtime", q.shape.path # "options"
  PROVE  LET p == forwardFailed(q) IN Good(p) /\ ~p.lease /\ p.pc \notin Switching
<1> DEFINE p == forwardFailed(q)
<1>1. Typed(q) /\ q.forwards = q.events + Owed(q) /\ ~q.lease
  BY DEF Good, Holds, Session, Retrying
<1>2. /\ Typed(p) /\ p.pc = "done" /\ ~p.route /\ p.entry = "none" /\ ~p.lease
      /\ p.shape = q.shape /\ p.body = q.body /\ p.remote = q.remote /\ p.generated = q.generated
      /\ p.attempt = q.attempt /\ p.result = q.result /\ p.forwards = q.forwards
      /\ p.events = (IF observed(q) THEN q.events + 1 ELSE q.events)
  BY <1>1 DEF forwardFailed, recordFailure, Answered, release, complete, observed, Typed, Fields
<1> HIDE DEF p
<1>3. Owed(q) = IF observed(q) THEN 1 ELSE 0
  BY DEF Owed
<1>4. p.forwards = p.events
  BY <1>1, <1>2, <1>3 DEF Typed
<1>5. Good(p) /\ ~p.lease /\ p.pc \notin Switching
  BY <1>2, <1>4, DoneGood
<1> QED BY <1>5 DEF p

\* Options and realtime connections let go of the runtime and the route.
LEMMA UnobservedEnds ==
  ASSUME NEW q, Good(q), q.entry = "none", q.forwards = q.events, NEW answer \in {"error", "served"}
  PROVE  LET p == Answered(release(releaseModel(q)), answer) IN Good(p) /\ ~p.lease /\ p.pc \notin Switching
<1> DEFINE p == Answered(release(releaseModel(q)), answer)
<1>1. Typed(q)
  BY DEF Good
<1>2. /\ Typed(p) /\ p.pc = "done" /\ ~p.route /\ p.entry = "none" /\ ~p.lease
      /\ p.shape = q.shape /\ p.body = q.body /\ p.remote = q.remote /\ p.generated = q.generated
      /\ p.attempt = q.attempt /\ p.result = q.result /\ p.forwards = p.events
  BY <1>1 DEF releaseModel, Answered, release, Typed, Fields
<1> HIDE DEF p
<1>5. Good(p) /\ ~p.lease /\ p.pc \notin Switching
  BY <1>2, DoneGood
<1> QED BY <1>5 DEF p

\* The registry gives a route; a borrowed request follows none away.
LEMMA Routed ==
  ASSUME RpInputs, NEW r, Good(rq[r]), rq[r].pc = "route", NEW remote, NEW pc \in {"prepare", "remote", "admit"},
         remote => pc \in {"prepare", "remote"} /\ rq[r].shape.borrowed = "no", pc = "remote" => remote,
         Alone(r, [rq[r] EXCEPT !.pc = pc, !.route = TRUE, !.remote = remote]),
         pc # "prepare" \/ rq[r].shape.path # "options"
  PROVE  Stepped(r)
<1> DEFINE q == rq[r]
           p == [q EXCEPT !.pc = pc, !.route = TRUE, !.remote = remote]
<1>1. Typed(q) /\ Before(q) /\ q.pc \notin Switching
  BY GoodBefore DEF BeforePcs
<1>2. q.shape \in Shapes /\ q.shape.target = "registry"
  BY <1>1, ShapeFacts DEF Typed, Before, Placed, Belongs
<1>3. /\ Typed(p) /\ p.pc = pc /\ p.remote = remote
      /\ p.shape = q.shape /\ p.redirected = q.redirected /\ p.entry = q.entry /\ p.lease = q.lease
      /\ p.attempt = q.attempt /\ p.result = q.result /\ p.generated = q.generated /\ p.body = q.body
      /\ p.forwards = q.forwards /\ p.events = q.events
  BY <1>1, <1>2 DEF Typed, Fields
<1> HIDE DEF p
<1>4. Before(p)
  BY <1>1, <1>2, <1>3 DEF Before, Placed, Belongs, BeforePcs
<1> QED BY <1>1, <1>3, <1>4, EarlyMoves DEF p

\* The queue, the lending and the queue again.
LEMMA Queued ==
  ASSUME RpInputs, NEW r, Good(rq[r]), rq[r].pc \in {"queue", "lent", "requeued"},
         NEW pc \in {"ready", "lent", "requeued"}, NEW entry \in {"lent", "queued", "admitted"},
         Alone(r, [rq[r] EXCEPT !.pc = pc, !.entry = entry]), pc = "lent" => rq[r].shape.borrowed = "no"
  PROVE  Stepped(r)
<1> DEFINE q == rq[r]
           p == [q EXCEPT !.pc = pc, !.entry = entry]
<1>1. Typed(q) /\ Before(q) /\ q.pc \notin Switching
  BY GoodBefore DEF BeforePcs
<1>2. q.shape \in Shapes /\ q.shape.target = "registry" /\ q.shape.path # "options"
  BY <1>1, ShapeFacts DEF Typed, Before, Placed, Belongs
<1>3. /\ Typed(p) /\ p.pc = pc
      /\ p.shape = q.shape /\ p.redirected = q.redirected /\ p.remote = q.remote /\ p.route = q.route
      /\ p.lease = q.lease /\ p.attempt = q.attempt /\ p.result = q.result /\ p.generated = q.generated
      /\ p.body = q.body /\ p.forwards = q.forwards /\ p.events = q.events
  BY <1>1, <1>2 DEF Typed, Fields
<1> HIDE DEF p
<1>4. Before(p)
  BY <1>1, <1>2, <1>3 DEF Before, Placed, Belongs, BeforePcs
<1> QED BY <1>1, <1>3, <1>4, EarlyMoves DEF p

\* Another node answers ...
LEMMA RemoteAnswers ==
  ASSUME RpInputs, NEW r, Good(rq[r]), rq[r].pc = "remote", NEW result,
         Alone(r, [rq[r] EXCEPT !.pc = "answered", !.body = "remote", !.result = result])
  PROVE  Stepped(r)
<1> DEFINE q == rq[r]
           p == [q EXCEPT !.pc = "answered", !.body = "remote", !.result = result]
<1>1. Typed(q) /\ Before(q) /\ q.pc \notin Switching
  BY GoodBefore DEF BeforePcs
<1>2. /\ Typed(p) /\ p.pc = "answered" /\ p.body = "remote"
      /\ p.shape = q.shape /\ p.redirected = q.redirected /\ p.remote = q.remote /\ p.route = q.route
      /\ p.entry = q.entry /\ p.lease = q.lease /\ p.attempt = q.attempt /\ p.generated = q.generated
      /\ p.forwards = q.forwards /\ p.events = q.events
  BY <1>1 DEF Typed, Fields
<1> HIDE DEF p
<1>3. Holds(p) /\ Sourced(p)
  BY <1>1, <1>2 DEF Before, Holds, Sourced, Placed, Belongs, Session, Retrying, Answer
<1>4. Placed(p)
  BY <1>1, <1>2 DEF Before, Placed, Belongs
<1>5. Counted(p)
  BY <1>1, <1>2 DEF Before, Counted, Session, Retrying, RpInputs
<1>6. p.forwards = p.events + Owed(p)
  BY <1>1, <1>2 DEF Before, Typed, Owed, Session, Retrying, Answer
<1>7. Passes(q, p)
  BY <1>1, <1>2, <1>3, <1>4, <1>5, <1>6 DEF Passes, Good, Switching, Before
<1> QED BY <1>7 DEF Stepped, p

\* ... or a helper does.
LEMMA HelperAnswers ==
  ASSUME RpInputs, NEW r, Good(rq[r]), rq[r].pc = "lent", Alone(r, [rq[r] EXCEPT !.pc = "relay", !.body = "lent"])
  PROVE  Stepped(r)
<1> DEFINE q == rq[r]
           p == [q EXCEPT !.pc = "relay", !.body = "lent"]
<1>1. Typed(q) /\ Before(q) /\ q.pc \notin Switching
  BY GoodBefore DEF BeforePcs
<1>2. /\ Typed(p) /\ p.pc = "relay" /\ p.body = "lent"
      /\ p.shape = q.shape /\ p.redirected = q.redirected /\ p.remote = q.remote /\ p.route = q.route
      /\ p.entry = q.entry /\ p.lease = q.lease /\ p.attempt = q.attempt /\ p.result = q.result
      /\ p.generated = q.generated /\ p.forwards = q.forwards /\ p.events = q.events
  BY <1>1 DEF Typed, Fields
<1> HIDE DEF p
<1>3. Holds(p) /\ Sourced(p)
  BY <1>1, <1>2 DEF Before, Holds, Sourced, Placed, Belongs, Session, Retrying, Answer
<1>4. Placed(p)
  BY <1>1, <1>2 DEF Before, Placed, Belongs
<1>5. Counted(p)
  BY <1>1, <1>2 DEF Before, Counted, Session, Retrying, RpInputs
<1>6. p.forwards = p.events + Owed(p)
  BY <1>1, <1>2 DEF Before, Typed, Owed, Session, Retrying, Answer
<1>7. Passes(q, p)
  BY <1>1, <1>2, <1>3, <1>4, <1>5, <1>6 DEF Passes, Good, Switching, Before
<1> QED BY <1>7 DEF Stepped, p

\* So do the route and the lending queue.
LEMMA RoutingSteps ==
  ASSUME RpInputs, NEW r, Good(rq[r]), Routing(r)
  PROVE  Stepped(r)
<1> DEFINE q == rq[r]
<1>1. CASE handleRegistryModelRequest(r)
  <2>1. q.pc = "route" /\ Typed(q) /\ Before(q)
    BY <1>1, GoodBefore DEF handleRegistryModelRequest, At, BeforePcs
  <2>2. q.shape \in Shapes
    BY <2>1 DEF Typed
  <2> QED
    BY <1>1, <2>1, <2>2, EarlyReturns, EarlyGoes, ShapeFacts, Routed
       DEF handleRegistryModelRequest, BeforePcs, Before, Placed, Belongs, borrowedRequestMustStayOnThisNode
<1>2. CASE acquireRegistryImageRoute(r)
  <2>1. q.pc = "route" /\ Typed(q) /\ Before(q)
    BY <1>2, GoodBefore DEF acquireRegistryImageRoute, At, BeforePcs
  <2>2. q.shape \in Shapes
    BY <2>1 DEF Typed
  <2> QED
    BY <1>2, <2>1, <2>2, EarlyReturns, EarlyGoes, ShapeFacts, Routed
       DEF acquireRegistryImageRoute, BeforePcs, Before, Placed, Belongs, borrowedRequestMustStayOnThisNode
<1>3. CASE acquireRegistryAudioRequest(r)
  <2>1. q.pc = "route" /\ Typed(q) /\ Before(q)
    BY <1>3, GoodBefore DEF acquireRegistryAudioRequest, At, BeforePcs
  <2>2. q.shape \in Shapes
    BY <2>1 DEF Typed
  <2> QED
    BY <1>3, <2>1, <2>2, EarlyReturns, EarlyGoes, ShapeFacts, Routed
       DEF acquireRegistryAudioRequest, BeforePcs, Before, Placed, Belongs
<1>4. CASE prepareRegistryTextRequest(r)
  <2>1. q.pc = "prepare" /\ Typed(q) /\ Before(q)
    BY <1>4, GoodBefore DEF prepareRegistryTextRequest, At, BeforePcs
  <2>2. q.shape \in Shapes
    BY <2>1 DEF Typed
  <2> QED
    BY <1>4, <2>1, <2>2, EarlyReturns, EarlyGoes, ShapeFacts
       DEF prepareRegistryTextRequest, BeforePcs, Before, Placed, Belongs
<1>5. CASE forwardRemote(r)
  <2>1. q.pc = "remote" /\ Typed(q) /\ Before(q)
    BY <1>5, GoodBefore DEF forwardRemote, At, BeforePcs
  <2>2. q.shape \in Shapes
    BY <2>1 DEF Typed
  <2> QED
    BY <1>5, <2>1, <2>2, EarlyReturns, EarlyGoes, ShapeFacts, RemoteAnswers
       DEF forwardRemote, BeforePcs, Before, Placed, Belongs
<1>6. CASE admitLocalRegistryTextRequest(r)
  <2>1. q.pc = "admit" /\ Typed(q) /\ Before(q)
    BY <1>6, GoodBefore DEF admitLocalRegistryTextRequest, At, BeforePcs
  <2>2. q.shape \in Shapes
    BY <2>1 DEF Typed
  <2> QED
    BY <1>6, <2>1, <2>2, EarlyReturns, EarlyGoes, ShapeFacts
       DEF admitLocalRegistryTextRequest, BeforePcs, Before, Placed, Belongs, borrowedRequestWouldLoadWithoutPermission
<1>7. CASE admitLocalRegistryImageRequest(r)
  <2>1. q.pc = "admit" /\ Typed(q) /\ Before(q)
    BY <1>7, GoodBefore DEF admitLocalRegistryImageRequest, At, BeforePcs
  <2>2. q.shape \in Shapes
    BY <2>1 DEF Typed
  <2> QED
    BY <1>7, <2>1, <2>2, EarlyReturns, EarlyGoes, ShapeFacts
       DEF admitLocalRegistryImageRequest, BeforePcs, Before, Placed, Belongs, borrowedRequestWouldLoadWithoutPermission
<1>8. CASE admitLocalRegistryAudioRequest(r)
  <2>1. q.pc = "admit" /\ Typed(q) /\ Before(q)
    BY <1>8, GoodBefore DEF admitLocalRegistryAudioRequest, At, BeforePcs
  <2>2. q.shape \in Shapes
    BY <2>1 DEF Typed
  <2> QED
    BY <1>8, <2>1, <2>2, EarlyReturns, EarlyGoes, ShapeFacts
       DEF admitLocalRegistryAudioRequest, BeforePcs, Before, Placed, Belongs
<1>9. CASE forwardLocalRegistryTextRequest(r)
  <2>1. q.pc = "ready" /\ Typed(q) /\ Before(q)
    BY <1>9, GoodBefore DEF forwardLocalRegistryTextRequest, At, BeforePcs
  <2>2. q.shape \in Shapes
    BY <2>1 DEF Typed
  <2> QED
    BY <1>9, <2>1, <2>2, EarlyReturns, EarlyGoes, ShapeFacts, Begins
       DEF forwardLocalRegistryTextRequest, BeforePcs, Before, Placed, Belongs, In
<1>10. CASE forwardRegistryImageRequest(r)
  <2>1. q.pc = "ready" /\ Typed(q) /\ Before(q)
    BY <1>10, GoodBefore DEF forwardRegistryImageRequest, At, BeforePcs
  <2>2. q.shape \in Shapes
    BY <2>1 DEF Typed
  <2> QED
    BY <1>10, <2>1, <2>2, EarlyReturns, EarlyGoes, ShapeFacts, Begins
       DEF forwardRegistryImageRequest, BeforePcs, Before, Placed, Belongs, In
<1>11. CASE forwardLocalRegistryAudioRequest(r)
  <2>1. q.pc = "ready" /\ Typed(q) /\ Before(q)
    BY <1>11, GoodBefore DEF forwardLocalRegistryAudioRequest, At, BeforePcs
  <2>2. q.shape \in Shapes
    BY <2>1 DEF Typed
  <2> QED
    BY <1>11, <2>1, <2>2, EarlyReturns, EarlyGoes, ShapeFacts, Begins
       DEF forwardLocalRegistryAudioRequest, BeforePcs, Before, Placed, Belongs, In
<1>12. CASE loadLocalImageOptions(r)
  <2>1. q.pc = "admit" /\ Typed(q) /\ Before(q)
    BY <1>12, GoodBefore DEF loadLocalImageOptions, At, BeforePcs
  <2>2. q.shape \in Shapes
    BY <2>1 DEF Typed
  <2> QED
    BY <1>12, <2>1, <2>2, EarlyReturns, EarlyGoes, ShapeFacts, LoadsUnobserved
       DEF loadLocalImageOptions, BeforePcs, Before, Placed, Belongs
<1>13. CASE serveTextThroughLendingQueue(r)
  <2>1. q.pc = "queue" /\ Typed(q) /\ Before(q)
    BY <1>13, GoodBefore DEF serveTextThroughLendingQueue, throughLendingQueue, At, BeforePcs
  <2>2. q.shape \in Shapes
    BY <2>1 DEF Typed
  <2> QED
    BY <1>13, <2>1, <2>2, EarlyReturns, EarlyGoes, ShapeFacts, Queued
       DEF serveTextThroughLendingQueue, BeforePcs, Before, Placed, Belongs, throughLendingQueue
<1>14. CASE serveImageThroughLendingQueue(r)
  <2>1. q.pc = "queue" /\ Typed(q) /\ Before(q)
    BY <1>14, GoodBefore DEF serveImageThroughLendingQueue, throughLendingQueue, At, BeforePcs
  <2>2. q.shape \in Shapes
    BY <2>1 DEF Typed
  <2> QED
    BY <1>14, <2>1, <2>2, EarlyReturns, EarlyGoes, ShapeFacts, Queued
       DEF serveImageThroughLendingQueue, BeforePcs, Before, Placed, Belongs, throughLendingQueue
<1>15. CASE forwardOffloadedRequest(r)
  <2>1. q.pc = "lent" /\ Typed(q) /\ Before(q)
    BY <1>15, GoodBefore DEF forwardOffloadedRequest, At, BeforePcs
  <2>2. q.shape \in Shapes
    BY <2>1 DEF Typed
  <2> QED
    BY <1>15, <2>1, <2>2, EarlyReturns, EarlyGoes, ShapeFacts, Queued, HelperAnswers
       DEF forwardOffloadedRequest, BeforePcs, Before, Placed, Belongs
<1>16. CASE serveWithdrawnTextRequest(r)
  <2>1. q.pc = "requeued" /\ Typed(q) /\ Before(q)
    BY <1>16, GoodBefore DEF serveWithdrawnTextRequest, At, BeforePcs
  <2>2. q.shape \in Shapes
    BY <2>1 DEF Typed
  <2> QED
    BY <1>16, <2>1, <2>2, EarlyReturns, EarlyGoes, ShapeFacts, Queued
       DEF serveWithdrawnTextRequest, BeforePcs, Before, Placed, Belongs
<1>17. CASE loadImageOptionsModel(r)
  <2>1. q.pc = "loaded" /\ Typed(q) /\ q.shape.path = "options"
    BY <1>17 DEF loadImageOptionsModel, At, Good, Placed, Belongs
  <2>2. q.entry = "none" /\ q.forwards = q.events /\ q.pc \notin Switching
    BY <2>1 DEF Good, Holds, Owed, Typed, Switching
  <2>3. Passes(q, Answered(release(releaseModel(q)), "served"))
    BY <2>2, UnobservedEnds DEF Passes
  <2> QED BY <1>17, <2>3 DEF loadImageOptionsModel, Stepped
<1> QED
  BY <1>1, <1>2, <1>3, <1>4, <1>5, <1>6, <1>7, <1>8, <1>9, <1>10, <1>11, <1>12, <1>13, <1>14, <1>15, <1>16, <1>17 DEF Routing

-----------------------------------------------------------------------------
(* The lease, the retry session and realtime connections.                  *)

\* What a request brings to the runtime.
LEMMA AtLoad ==
  ASSUME NEW q, Good(q), q.pc \in {"load", "loading"}
  PROVE  /\ Typed(q) /\ ~q.lease /\ ~q.remote /\ q.body = "none" /\ q.result = "none"
         /\ q.attempt = 0 /\ q.generated = 0 /\ Placed(q) /\ q.forwards = q.events + Owed(q)
         /\ q.entry # "none" => q.shape.target = "registry" /\ q.shape.path # "options"
BY DEF Good, Holds, Sourced, Session, Retrying, Answer

LEMMA LeasedGood ==
  ASSUME RpInputs, NEW q, Good(q), q.pc \in {"load", "loading"}
  PROVE  LET p == Leased(q) IN Good(p) /\ p.lease /\ p.config = q.config /\ p.pc \notin Switching
<1> DEFINE p == Leased(q)
<1>1. /\ Typed(q) /\ ~q.lease /\ ~q.remote /\ q.body = "none" /\ q.result = "none"
      /\ q.attempt = 0 /\ q.generated = 0 /\ Placed(q) /\ q.forwards = q.events + Owed(q)
      /\ q.entry # "none" => q.shape.target = "registry" /\ q.shape.path # "options"
  BY AtLoad
<1>2. q.shape.target = "realtime" => q.shape.path # "options"
  BY <1>1, ShapeFacts DEF Typed
<1>3. /\ Typed(p) /\ p.lease
      /\ p.pc = (IF q.shape.target = "realtime" THEN "connect"
                  ELSE IF q.shape.path = "options" THEN "loaded" ELSE "forward")
      /\ p.shape = q.shape /\ p.redirected = q.redirected /\ p.remote = q.remote /\ p.route = q.route
      /\ p.entry = q.entry /\ p.attempt = q.attempt /\ p.result = q.result /\ p.generated = q.generated
      /\ p.body = q.body /\ p.forwards = q.forwards /\ p.events = q.events /\ p.config = q.config
  <2>1. CASE q.shape.target = "realtime"
    <3>1. p = [q EXCEPT !.lease = TRUE, !.pc = "connect"]
      BY <1>2, <2>1 DEF Leased
    <3> QED BY <1>1, <2>1, <3>1 DEF Typed, Fields
  <2>2. CASE q.shape.target # "realtime" /\ q.shape.path = "options"
    <3>1. p = [q EXCEPT !.lease = TRUE, !.pc = "loaded"]
      BY <2>2 DEF Leased
    <3> QED BY <1>1, <2>2, <3>1 DEF Typed, Fields
  <2>3. CASE q.shape.target # "realtime" /\ q.shape.path # "options"
    <3>1. p = [q EXCEPT !.lease = TRUE, !.pc = "forward"]
      BY <2>3 DEF Leased
    <3> QED BY <1>1, <2>3, <3>1 DEF Typed, Fields
  <2> QED BY <2>1, <2>2, <2>3
<1> HIDE DEF p
<1>4. Holds(p)
  BY <1>1, <1>3 DEF Holds, Session, Retrying, Answer, Good
<1>5. Placed(p)
  BY <1>1, <1>2, <1>3 DEF Placed, Belongs
<1>6. Sourced(p)
  BY <1>1, <1>3 DEF Sourced, Session, Retrying, Answer
<1>7. Counted(p)
  BY <1>1, <1>3 DEF Counted, Session, Retrying, RpInputs
<1>8. Owed(p) = Owed(q)
  BY <1>1, <1>3 DEF Owed, observed, Session, Retrying, Answer
<1>9. p.forwards = p.events + Owed(p)
  BY <1>1, <1>3, <1>8
<1>10. Good(p) /\ p.lease /\ p.config = q.config /\ p.pc \notin Switching
  BY <1>3, <1>4, <1>5, <1>6, <1>7, <1>9 DEF Good, Switching
<1> QED BY <1>10 DEF p

LEMMA LeaseFailsGood ==
  ASSUME NEW q, Good(q), q.pc \in {"load", "loading"}
  PROVE  LET p == LeaseFails(q) IN Good(p) /\ ~p.lease /\ p.pc \notin Switching
<1>1. Typed(q) /\ ~q.lease /\ q.forwards = q.events + Owed(q)
  BY AtLoad
<1>2. CASE q.shape.target = "realtime" \/ q.shape.path = "options"
  <2> DEFINE p == Answered(release(q), "error")
  <2>1. q.entry = "none"
    BY <1>2, AtLoad
  <2>2. q.forwards = q.events
    BY <1>1, <1>2 DEF Owed, Typed
  <2>3. /\ Typed(p) /\ p.pc = "done" /\ ~p.route /\ p.entry = "none" /\ ~p.lease
        /\ p.shape = q.shape /\ p.body = q.body /\ p.remote = q.remote /\ p.generated = q.generated
        /\ p.attempt = q.attempt /\ p.result = q.result /\ p.forwards = p.events
    BY <1>1, <2>1, <2>2 DEF Answered, release, Typed, Fields
  <2> HIDE DEF p
  <2>4. Good(p) /\ ~p.lease /\ p.pc \notin Switching
    BY <2>3, DoneGood
  <2> QED BY <1>2, <2>4 DEF LeaseFails, p
<1>3. CASE q.shape.target # "realtime" /\ q.shape.path # "options"
  BY <1>3, FailsUnleased DEF LeaseFails
<1> QED BY <1>2, <1>3

\* What holds throughout a session.
LEMMA InSession ==
  ASSUME NEW q, Good(q), q.pc \in Session
  PROVE  /\ Typed(q) /\ q.lease /\ ~q.remote /\ q.body = "none" /\ Counted(q)
         /\ q.forwards = q.events + Owed(q) /\ Owed(q) = (IF observed(q) THEN 1 ELSE 0)
         /\ q.shape.target # "realtime" /\ q.shape.path # "options"
<1>1. Typed(q) /\ Counted(q) /\ q.forwards = q.events + Owed(q)
  BY DEF Good
<1>2. q.lease /\ ~q.remote /\ q.body = "none"
  BY DEF Good, Holds, Sourced, Session, Retrying, Answer
<1>3. q.shape.target # "realtime" /\ q.shape.path # "options"
  BY DEF Good, Placed, Belongs, Session, Retrying
<1> QED BY <1>1, <1>2, <1>3 DEF Owed

\* A step that stays in it keeps the counts.
LEMMA SessionGood ==
  ASSUME NEW q, Good(q), q.pc \in Session, NEW p, Typed(p), p.pc \in Session, Counted(p),
         p.shape = q.shape, p.redirected = q.redirected, p.remote = q.remote, p.route = q.route,
         p.entry = q.entry, p.lease, p.body = "none", p.forwards = q.forwards, p.events = q.events
  PROVE  Good(p)
<1>1. /\ q.lease /\ ~q.remote /\ q.body = "none" /\ q.forwards = q.events + Owed(q)
      /\ Owed(q) = (IF observed(q) THEN 1 ELSE 0) /\ q.shape.target # "realtime" /\ q.shape.path # "options"
  BY InSession
<1>2. Holds(p)
  BY <1>1 DEF Good, Holds, Session, Retrying, Answer
<1>3. Placed(p)
  BY <1>1 DEF Good, Placed, Belongs, Session, Retrying
<1>4. Sourced(p)
  BY <1>1 DEF Good, Sourced, Session, Retrying, Answer
<1>5. Owed(p) = Owed(q)
  BY <1>1 DEF Owed, observed
<1> QED BY <1>1, <1>2, <1>3, <1>4, <1>5 DEF Good

\* Its end is an answer of the backend, kept open with the lease ...
LEMMA SessionAnswers ==
  ASSUME NEW q, Good(q), q.pc \in Session, NEW p, Typed(p), p.pc = "answered", p.body = "local",
         p.attempt <= RpReadiness, p.generated <= RpInference + 1,
         p.shape = q.shape, p.redirected = q.redirected, p.remote = q.remote, p.route = q.route,
         p.entry = q.entry, p.lease, p.forwards = q.forwards, p.events = q.events
  PROVE  Good(p) /\ p.pc \notin Switching
<1>1. /\ q.lease /\ ~q.remote /\ q.body = "none" /\ q.forwards = q.events + Owed(q)
      /\ Owed(q) = (IF observed(q) THEN 1 ELSE 0) /\ q.shape.target # "realtime" /\ q.shape.path # "options"
  BY InSession
<1>2. Holds(p)
  BY <1>1 DEF Good, Holds, Session, Retrying, Answer
<1>3. Placed(p)
  BY <1>1 DEF Good, Placed, Belongs, Session, Retrying
<1>4. Sourced(p)
  BY <1>1 DEF Good, Sourced, Session, Retrying, Answer
<1>5. Owed(p) = Owed(q)
  BY <1>1 DEF Owed, observed, Answer
<1>6. Counted(p)
  BY DEF Counted, Session, Retrying
<1> QED BY <1>1, <1>2, <1>3, <1>4, <1>5, <1>6 DEF Good, Switching

\* ... or a failure.
LEMMA SessionFails ==
  ASSUME NEW r, Good(rq[r]), rq[r].pc \in Session \ Switching,
         Alone(r, forwardFailed(releaseModel(rq[r])))
  PROVE  Stepped(r)
<1>1. rq[r].shape.target # "realtime" /\ rq[r].shape.path # "options"
  BY InSession
<1>2. Passes(rq[r], forwardFailed(releaseModel(rq[r])))
  BY <1>1, FailsGood DEF Passes
<1> QED BY <1>2 DEF Stepped

\* The steps of forwarding that leave the runtime alone.
Serving(r) ==
  \/ sessionForward(r) \/ recoverIfTransportFailed(r) \/ waitIfInactive(r) \/ retryUntilExhausted(r)
  \/ exhausted(r) \/ forwardToBackendFamily(r) \/ handleVLLMRealtime(r) \/ openRealtimeBackend(r)

LEMMA ServingSteps ==
  ASSUME RpInputs, NEW r, Good(rq[r]), Serving(r)
  PROVE  Stepped(r)
<1> DEFINE q == rq[r]
<1>0. Typed(q)
  BY DEF Good
<1>1. CASE sessionForward(r)
  <2>1. q.pc = "forward" /\ q.pc \in Session
    BY <1>1 DEF sessionForward, At, Session
  <2>2. q.lease /\ Counted(q)
    BY <2>1, InSession
  <2>3. PICK result \in backendRetryResult(q) :
          Alone(r, [q EXCEPT !.result = result,
                             !.generated = IF result \in {"ok", "blank", "empty"} THEN @ + 1 ELSE @,
                             !.body = IF result \in Passing THEN "local" ELSE "none",
                             !.pc = IF result \in Passing THEN "answered" ELSE "recover"])
    BY <1>1 DEF sessionForward
  <2> DEFINE p == [q EXCEPT !.result = result,
                            !.generated = IF result \in {"ok", "blank", "empty"} THEN @ + 1 ELSE @,
                            !.body = IF result \in Passing THEN "local" ELSE "none",
                            !.pc = IF result \in Passing THEN "answered" ELSE "recover"]
  <2>4. /\ Typed(p) /\ p.result = result
        /\ p.generated = (IF result \in {"ok", "blank", "empty"} THEN q.generated + 1 ELSE q.generated)
        /\ p.body = (IF result \in Passing THEN "local" ELSE "none")
        /\ p.pc = (IF result \in Passing THEN "answered" ELSE "recover")
        /\ p.shape = q.shape /\ p.redirected = q.redirected /\ p.remote = q.remote /\ p.route = q.route
        /\ p.entry = q.entry /\ p.lease = q.lease /\ p.attempt = q.attempt /\ p.forwards = q.forwards
        /\ p.events = q.events /\ p.config = q.config
    BY <1>0 DEF Typed, Fields
  <2>5. Alone(r, p)
    BY <2>3
  <2> HIDE DEF p
  <2>6. p.attempt <= RpReadiness /\ p.generated <= RpInference + 1
    BY <1>0, <2>1, <2>2, <2>4 DEF Counted, Typed, RpInputs
  <2>7. CASE result \in Passing
    <3>1. Good(p) /\ p.pc \notin Switching
      BY <2>1, <2>2, <2>4, <2>6, <2>7, SessionAnswers
    <3> QED BY <2>1, <2>2, <2>4, <2>5, <3>1 DEF Passes, Stepped, Switching
  <2>8. CASE result \notin Passing
    <3>1. Counted(p)
      BY <1>0, <2>1, <2>2, <2>4, <2>6, <2>8 DEF Counted, Typed, RpInputs, Session, Retrying
    <3>2. p.pc = "recover" /\ p.pc \in Session
      BY <2>4, <2>8 DEF Session, Retrying
    <3>3. Good(p)
      BY <2>1, <2>2, <2>4, <2>8, <3>1, <3>2, SessionGood
    <3> QED BY <2>1, <2>2, <2>4, <2>5, <3>2, <3>3 DEF Passes, Stepped, Switching
  <2> QED BY <2>7, <2>8
<1>2. CASE recoverIfTransportFailed(r)
  <2>1. q.pc = "recover" /\ q.pc \in Session
    BY <1>2 DEF recoverIfTransportFailed, At, Session, Retrying
  <2>2. q.lease /\ Counted(q) /\ q.body = "none"
    BY <2>1, InSession
  <2>3. PICK pc \in {"reload", "wait"} : Goes(r, pc)
    BY <1>2 DEF recoverIfTransportFailed
  <2> DEFINE p == [q EXCEPT !.pc = pc]
  <2>4. /\ Typed(p) /\ p.pc = pc
        /\ p.shape = q.shape /\ p.redirected = q.redirected /\ p.remote = q.remote /\ p.route = q.route
        /\ p.entry = q.entry /\ p.lease = q.lease /\ p.attempt = q.attempt /\ p.result = q.result
        /\ p.generated = q.generated /\ p.body = q.body /\ p.forwards = q.forwards /\ p.events = q.events
        /\ p.config = q.config
    BY <1>0 DEF Typed, Fields
  <2>5. Alone(r, p)
    BY <2>3 DEF Goes
  <2> HIDE DEF p
  <2>6. Counted(p) /\ p.pc \in Session
    BY <2>1, <2>2, <2>4 DEF Counted, Session, Retrying
  <2>7. Good(p)
    BY <2>1, <2>2, <2>4, <2>6, SessionGood
  <2> QED BY <2>1, <2>2, <2>4, <2>5, <2>7 DEF Passes, Stepped, Switching
<1>3. CASE waitIfInactive(r)
  <2>1. q.pc = "wait" /\ q.pc \in Session \ Switching
    BY <1>3 DEF waitIfInactive, At, Session, Retrying, Switching
  <2>2. q.lease /\ Counted(q) /\ q.body = "none"
    BY <2>1, InSession
  <2>3. CASE Alone(r, forwardFailed(releaseModel(q)))
    BY <2>1, <2>3, SessionFails
  <2> DEFINE p == [q EXCEPT !.pc = "again", !.skip = (q.result = "inactive")]
  <2>4. /\ Typed(p) /\ p.pc = "again"
        /\ p.shape = q.shape /\ p.redirected = q.redirected /\ p.remote = q.remote /\ p.route = q.route
        /\ p.entry = q.entry /\ p.lease = q.lease /\ p.attempt = q.attempt /\ p.result = q.result
        /\ p.generated = q.generated /\ p.body = q.body /\ p.forwards = q.forwards /\ p.events = q.events
        /\ p.config = q.config
    BY <1>0 DEF Typed, Fields
  <2> HIDE DEF p
  <2>5. Counted(p) /\ p.pc \in Session
    BY <2>1, <2>2, <2>4 DEF Counted, Session, Retrying
  <2>6. Good(p)
    BY <2>1, <2>2, <2>4, <2>5, SessionGood
  <2>7. CASE Alone(r, p)
    BY <2>1, <2>2, <2>4, <2>6, <2>7 DEF Passes, Stepped, Switching
  <2> QED BY <1>3, <2>3, <2>7 DEF waitIfInactive, p
<1>4. CASE retryUntilExhausted(r)
  <2>1. /\ q.pc = "again" /\ q.pc \in Session \ Switching
        /\ q.attempt + 1 <= inferenceRetryAttempts(q.result)
    BY <1>4 DEF retryUntilExhausted, At, Session, Retrying, Switching
  <2>2. q.lease /\ Counted(q) /\ q.body = "none"
    BY <2>1, InSession
  <2>3. CASE Alone(r, forwardFailed(releaseModel(q)))
    BY <2>1, <2>3, SessionFails
  <2> DEFINE p == [q EXCEPT !.pc = "forward", !.attempt = @ + 1]
  <2>4. /\ Typed(p) /\ p.pc = "forward" /\ p.attempt = q.attempt + 1
        /\ p.shape = q.shape /\ p.redirected = q.redirected /\ p.remote = q.remote /\ p.route = q.route
        /\ p.entry = q.entry /\ p.lease = q.lease /\ p.result = q.result /\ p.generated = q.generated
        /\ p.body = q.body /\ p.forwards = q.forwards /\ p.events = q.events /\ p.config = q.config
    BY <1>0 DEF Typed, Fields
  <2> HIDE DEF p
  <2>5. Counted(p) /\ p.pc \in Session
    BY <1>0, <2>1, <2>2, <2>4 DEF Counted, Session, Retrying, inferenceRetryAttempts, RpInputs, Typed
  <2>6. Good(p)
    BY <2>1, <2>2, <2>4, <2>5, SessionGood
  <2>7. CASE Alone(r, p)
    BY <2>1, <2>2, <2>4, <2>6, <2>7 DEF Passes, Stepped, Switching
  <2> QED BY <1>4, <2>3, <2>7 DEF retryUntilExhausted, p
<1>5. CASE exhausted(r)
  <2>1. q.pc = "again" /\ q.pc \in Session \ Switching
    BY <1>5 DEF exhausted, At, Session, Retrying, Switching
  <2>2. q.lease /\ Counted(q) /\ q.body = "none"
    BY <2>1, InSession
  <2>3. CASE Alone(r, forwardFailed(releaseModel(q)))
    BY <2>1, <2>3, SessionFails
  <2> DEFINE p == [q EXCEPT !.pc = "answered", !.body = "local"]
  <2>4. /\ Typed(p) /\ p.pc = "answered" /\ p.body = "local"
        /\ p.shape = q.shape /\ p.redirected = q.redirected /\ p.remote = q.remote /\ p.route = q.route
        /\ p.entry = q.entry /\ p.lease = q.lease /\ p.attempt = q.attempt /\ p.result = q.result
        /\ p.generated = q.generated /\ p.forwards = q.forwards /\ p.events = q.events /\ p.config = q.config
    BY <1>0 DEF Typed, Fields
  <2> HIDE DEF p
  <2>5. p.attempt <= RpReadiness /\ p.generated <= RpInference + 1
    BY <2>2, <2>4 DEF Counted
  <2>6. Good(p) /\ p.pc \notin Switching
    BY <2>1, <2>2, <2>4, <2>5, SessionAnswers
  <2>7. CASE Alone(r, p)
    BY <2>1, <2>2, <2>4, <2>6, <2>7 DEF Passes, Stepped, Switching
  <2> QED BY <1>5, <2>3, <2>7 DEF exhausted, p
<1>6. CASE forwardToBackendFamily(r)
  <2>1. q.pc = "family" /\ q.pc \notin Switching
    BY <1>6 DEF forwardToBackendFamily, At, Switching
  <2>2. /\ ~q.lease /\ ~q.remote /\ q.body = "none" /\ q.result = "none" /\ Placed(q) /\ q.entry = "none"
        /\ q.attempt = 0 /\ q.generated = 0 /\ q.forwards = q.events + Owed(q)
    BY <2>1 DEF Good, Holds, Sourced, Session, Retrying, Answer
  <2>3. q.shape.target # "realtime" /\ q.shape.path # "options"
    BY <2>1, <2>2 DEF Placed, Belongs
  <2>4. CASE Alone(r, forwardFailed(q))
    <3>1. Passes(q, forwardFailed(q))
      BY <2>1, <2>3, FailsUnleased DEF Passes
    <3> QED BY <2>4, <3>1 DEF Stepped
  <2> DEFINE p == [q EXCEPT !.pc = "relay", !.body = "family"]
  <2>5. /\ Typed(p) /\ p.pc = "relay" /\ p.body = "family"
        /\ p.shape = q.shape /\ p.redirected = q.redirected /\ p.remote = q.remote /\ p.route = q.route
        /\ p.entry = q.entry /\ p.lease = q.lease /\ p.attempt = q.attempt /\ p.result = q.result
        /\ p.generated = q.generated /\ p.forwards = q.forwards /\ p.events = q.events /\ p.config = q.config
    BY <1>0 DEF Typed, Fields
  <2> HIDE DEF p
  <2>6. Holds(p) /\ Sourced(p)
    BY <1>0, <2>1, <2>2, <2>3, <2>5 DEF Holds, Sourced, Session, Retrying, Answer, Placed, Belongs, Good
  <2>7. Placed(p)
    BY <2>1, <2>2, <2>5 DEF Placed, Belongs
  <2>8. Counted(p)
    BY <2>2, <2>5 DEF Counted, Session, Retrying, RpInputs
  <2>9. Owed(p) = Owed(q)
    BY <2>1, <2>3, <2>5 DEF Owed, observed, Answer
  <2>10. Good(p)
    BY <2>2, <2>5, <2>6, <2>7, <2>8, <2>9 DEF Good
  <2>11. CASE Alone(r, p)
    BY <2>1, <2>2, <2>5, <2>10, <2>11 DEF Passes, Stepped, Switching
  <2> QED BY <1>6, <2>4, <2>11 DEF forwardToBackendFamily, p
<1>7. CASE handleVLLMRealtime(r)
  <2>1. q.pc = "realtime" /\ q.pc \in BeforePcs
    BY <1>7 DEF handleVLLMRealtime, At, BeforePcs
  <2>2. Before(q) /\ q.pc \notin Switching
    BY <2>1, GoodBefore
  <2>3. q.shape.target = "realtime" /\ q.shape.borrowed = "no" /\ q.entry = "none" /\ q.shape.path # "options"
    BY <1>0, <2>1, <2>2, ShapeFacts DEF Before, Placed, Belongs, Typed
  <2>4. ASSUME NEW remote \in BOOLEAN,
               Alone(r, [q EXCEPT !.pc = IF remote THEN "connect" ELSE "load", !.route = TRUE, !.remote = remote])
        PROVE  Stepped(r)
    <3> DEFINE p == [q EXCEPT !.pc = IF remote THEN "connect" ELSE "load", !.route = TRUE, !.remote = remote]
    <3>1. /\ Typed(p) /\ p.pc = (IF remote THEN "connect" ELSE "load") /\ p.remote = remote
          /\ p.shape = q.shape /\ p.redirected = q.redirected /\ p.entry = q.entry /\ p.lease = q.lease
          /\ p.attempt = q.attempt /\ p.result = q.result /\ p.generated = q.generated /\ p.body = q.body
          /\ p.forwards = q.forwards /\ p.events = q.events /\ p.config = q.config
      BY <1>0 DEF Typed, Fields
    <3> HIDE DEF p
    <3>2. Holds(p) /\ Sourced(p)
      BY <2>2, <2>3, <3>1 DEF Before, Holds, Sourced, Session, Retrying, Answer
    <3>3. Placed(p)
      BY <2>2, <2>3, <3>1 DEF Before, Placed, Belongs
    <3>4. Counted(p)
      BY <2>2, <3>1 DEF Before, Counted, Session, Retrying, RpInputs
    <3>5. p.forwards = p.events + Owed(p)
      BY <1>0, <2>2, <2>3, <3>1 DEF Before, Owed, Typed
    <3>6. Passes(q, p)
      BY <2>2, <3>1, <3>2, <3>3, <3>4, <3>5 DEF Passes, Good, Before, Switching
    <3> QED BY <2>4, <3>6 DEF Stepped, p
  <2>5. CASE Returns(r, "error")
    BY <2>1, <2>5, EarlyReturns
  <2> QED BY <1>7, <2>4, <2>5 DEF handleVLLMRealtime
<1>8. CASE openRealtimeBackend(r)
  <2>1. q.pc = "connect" /\ q.pc \notin Switching
    BY <1>8 DEF openRealtimeBackend, At, Switching
  <2>2. /\ q.shape.target = "realtime" /\ q.entry = "none" /\ q.forwards = q.events + Owed(q) /\ Placed(q)
        /\ (q.remote \/ q.lease) /\ q.attempt = 0 /\ q.generated = 0 /\ q.result = "none"
    BY <2>1 DEF Good, Holds, Sourced, Placed, Belongs, Session, Retrying, Answer
  <2>3. q.forwards = q.events
    BY <1>0, <2>2 DEF Owed, Typed
  <2>4. CASE Alone(r, Answered(release(releaseModel(q)), "error"))
    <3>1. Passes(q, Answered(release(releaseModel(q)), "error"))
      BY <2>1, <2>2, <2>3, UnobservedEnds DEF Passes
    <3> QED BY <2>4, <3>1 DEF Stepped
  <2> DEFINE p == [q EXCEPT !.pc = "relay", !.body = IF q.remote THEN "remote" ELSE "local"]
  <2>5. /\ Typed(p) /\ p.pc = "relay" /\ p.body = (IF q.remote THEN "remote" ELSE "local")
        /\ p.shape = q.shape /\ p.redirected = q.redirected /\ p.remote = q.remote /\ p.route = q.route
        /\ p.entry = q.entry /\ p.lease = q.lease /\ p.attempt = q.attempt /\ p.result = q.result
        /\ p.generated = q.generated /\ p.forwards = q.forwards /\ p.events = q.events /\ p.config = q.config
    BY <1>0 DEF Typed, Fields
  <2> HIDE DEF p
  <2>6. q.shape.borrowed = "no" /\ q.shape.path # "options"
    BY <1>0, <2>2, ShapeFacts DEF Typed
  <2>7. Holds(p) /\ Sourced(p)
    BY <2>1, <2>2, <2>5, <2>6 DEF Holds, Sourced, Session, Retrying, Answer, Good
  <2>8. Placed(p)
    BY <2>1, <2>2, <2>5 DEF Placed, Belongs
  <2>9. Counted(p)
    BY <2>2, <2>5 DEF Counted, Session, Retrying, RpInputs
  <2>10. p.forwards = p.events + Owed(p)
    BY <1>0, <2>2, <2>3, <2>5 DEF Owed, Typed
  <2>11. Good(p)
    BY <2>5, <2>7, <2>8, <2>9, <2>10 DEF Good
  <2>12. CASE Alone(r, p)
    BY <2>1, <2>5, <2>11, <2>12 DEF Passes, Stepped, Switching
  <2> QED BY <1>8, <2>4, <2>12 DEF openRealtimeBackend, p
<1> QED
  BY <1>1, <1>2, <1>3, <1>4, <1>5, <1>6, <1>7, <1>8 DEF Serving

-----------------------------------------------------------------------------
(* The answer.                                                             *)

\* Only whether the client is there, what is remembered and what a request is
\* about may change at any time.
LEMMA SameGood ==
  ASSUME NEW q, Good(q), NEW p, Typed(p), p.pc = q.pc,
         p.shape = q.shape, p.config = q.config, p.redirected = q.redirected, p.remote = q.remote,
         p.route = q.route, p.entry = q.entry, p.lease = q.lease, p.attempt = q.attempt, p.result =
         q.result, p.generated = q.generated, p.body = q.body, p.forwards = q.forwards, p.events =
         q.events
  PROVE  Passes(q, p)
<1>1. Holds(p) /\ Placed(p) /\ Sourced(p)
  BY DEF Good, Holds, Placed, Sourced
<1>2. Counted(p)
  BY DEF Good, Counted
<1>3. Owed(p) = Owed(q)
  BY DEF Owed, observed
<1> QED BY <1>1, <1>2, <1>3 DEF Good, Passes

\* What holds of an answer until it is closed.
LEMMA InAnswer ==
  ASSUME NEW q, Good(q), q.pc \in Answer
  PROVE  /\ Typed(q) /\ q.body # "none" /\ q.pc \notin Switching /\ Placed(q)
         /\ q.forwards = q.events + Owed(q) /\ q.attempt <= RpReadiness /\ q.generated <= RpInference + 1
         /\ q.shape.path = "options" => q.body = "remote"
         /\ Owed(q) = (IF /\ observed(q) /\ q.shape.target # "realtime"
                          /\ q.body \in {"local", "closed", "family"} THEN 1 ELSE 0)
<1>1. /\ Typed(q) /\ q.body # "none" /\ Placed(q) /\ q.forwards = q.events + Owed(q)
      /\ q.attempt <= RpReadiness /\ q.generated <= RpInference + 1
      /\ q.shape.path = "options" => q.body = "remote"
  BY DEF Good, Sourced, Counted
<1>2. q.pc \notin Switching /\ q.pc \notin {"load", "loading", "family"} \cup Session
  BY DEF Answer, Switching, Session, Retrying
<1> QED BY <1>1, <1>2 DEF Owed

\* A step that leaves it open.
LEMMA AnswerGood ==
  ASSUME NEW q, Good(q), q.pc \in Answer,
         NEW p, Typed(p), p.pc \in Answer, Sourced(p), p.lease => q.lease /\ p.config = q.config,
         p.pc \in {"answered", "track", "relay"} /\ p.body = "local" => p.lease,
         p.lease => p.pc # "remember",
         p.body = q.body \/ (q.body = "local" /\ p.body = "closed"),
         q.shape.path = "options" => p.pc = "relay",
         q.shape.target = "realtime" => p.pc = "relay",
         p.shape = q.shape, p.redirected = q.redirected, p.remote = q.remote, p.route = q.route,
         p.entry = q.entry, p.attempt = q.attempt, p.generated = q.generated,
         p.forwards = q.forwards, p.events = q.events
  PROVE  Passes(q, p)
<1>1. /\ Typed(q) /\ q.body # "none" /\ q.pc \notin Switching /\ Placed(q)
      /\ q.forwards = q.events + Owed(q) /\ q.attempt <= RpReadiness /\ q.generated <= RpInference + 1
      /\ q.shape.path = "options" => q.body = "remote"
      /\ Owed(q) = (IF /\ observed(q) /\ q.shape.target # "realtime"
                       /\ q.body \in {"local", "closed", "family"} THEN 1 ELSE 0)
  BY InAnswer
<1>2. Holds(p)
  BY DEF Good, Holds, Session, Retrying, Answer
<1>3. Placed(p)
  BY <1>1 DEF Placed, Belongs, Answer
<1>4. Counted(p)
  BY <1>1 DEF Counted, Answer, Session, Retrying
<1>5. p.pc \notin Switching /\ p.pc \notin {"load", "loading", "family"} \cup Session
  BY DEF Answer, Switching, Session, Retrying
<1>6. Owed(p) = Owed(q)
  BY <1>1, <1>5 DEF Owed, observed
<1> QED BY <1>1, <1>2, <1>3, <1>4, <1>5, <1>6 DEF Good, Passes

\* The answer of another node, of a helper or of the backend may be written.
LEMMA WrittenPasses ==
  ASSUME NEW q, Good(q), q.pc = "answered", q.shape.target # "realtime"
  PROVE  Passes(q, Written(q))
<1> DEFINE p == Written(q)
<1>1. /\ Typed(p) /\ p.pc = (IF q.shape.path \in {"responses", "jobs"} THEN "track" ELSE "relay")
      /\ /\ p.shape = q.shape /\ p.config = q.config /\ p.redirected = q.redirected
         /\ p.remote = q.remote /\ p.route = q.route /\ p.entry = q.entry /\ p.lease = q.lease
         /\ p.attempt = q.attempt /\ p.result = q.result /\ p.generated = q.generated
         /\ p.body = q.body /\ p.forwards = q.forwards /\ p.events = q.events
  BY DEF Good, Typed, Fields, Written
<1> HIDE DEF p
<1>2. q.pc \in Answer /\ p.pc \in Answer
  BY <1>1 DEF Answer
<1>3. Sourced(p)
  BY <1>1 DEF Good, Sourced, Session, Retrying, Answer
<1>4. q.body = "local" => q.lease
  BY DEF Good, Holds
<1>5. q.shape.path = "options" => p.pc = "relay"
  BY <1>1
<1>6. Passes(q, p)
  BY <1>1, <1>2, <1>3, <1>4, <1>5, AnswerGood
<1> QED BY <1>6 DEF p

\* Watched while it is written, or read to its end before.
LEMMA TrackPasses ==
  ASSUME NEW r, Good(rq[r]), NEW path, trackAnswer(r, path)
  PROVE  Stepped(r)
<1> DEFINE q == rq[r]
           closed == [releaseModel(q) EXCEPT !.body = IF @ = "local" THEN "closed" ELSE @]
<1>1. q.pc = "track" /\ Typed(q) /\ q.pc \in Answer
  BY DEF trackAnswer, At, Good, Answer
<1>2. q.shape.path # "options" /\ q.shape.target # "realtime"
  BY <1>1 DEF Good, Placed, Belongs
<1>3. CASE Goes(r, "relay")
  <2> DEFINE p == [q EXCEPT !.pc = "relay"]
  <2>1. /\ Typed(p) /\ p.pc = "relay"
        /\ /\ p.shape = q.shape /\ p.config = q.config /\ p.redirected = q.redirected
           /\ p.remote = q.remote /\ p.route = q.route /\ p.entry = q.entry /\ p.lease = q.lease
           /\ p.attempt = q.attempt /\ p.result = q.result /\ p.generated = q.generated
           /\ p.body = q.body /\ p.forwards = q.forwards /\ p.events = q.events
    BY <1>1 DEF Typed, Fields
  <2> HIDE DEF p
  <2>2. p.pc \in Answer /\ Sourced(p)
    BY <1>1, <2>1 DEF Good, Sourced, Session, Retrying, Answer
  <2>3. q.body = "local" => q.lease
    BY <1>1 DEF Good, Holds
  <2>4. Passes(q, p)
    BY <1>1, <1>2, <2>1, <2>2, <2>3, AnswerGood
  <2> QED BY <1>3, <2>4 DEF Goes, Stepped, p
<1>4. ASSUME NEW pc \in {"relay", "remember"}, Alone(r, [closed EXCEPT !.pc = pc]), ~q.shape.stream
      PROVE  Stepped(r)
  <2> DEFINE p == [closed EXCEPT !.pc = pc]
  <2>1. /\ Typed(p) /\ p.pc = pc /\ ~p.lease /\ p.body = (IF q.body = "local" THEN "closed" ELSE q.body)
        /\ /\ p.shape = q.shape /\ p.config = q.config /\ p.redirected = q.redirected
           /\ p.remote = q.remote /\ p.route = q.route /\ p.entry = q.entry /\ p.attempt = q.attempt
           /\ p.result = q.result /\ p.generated = q.generated /\ p.forwards = q.forwards
           /\ p.events = q.events
    BY <1>1 DEF Typed, Fields, releaseModel
  <2>2. Alone(r, p)
    BY <1>4
  <2> HIDE DEF p
  <2>3. q.body \in {"local", "remote"} /\ q.body # "none"
    BY <1>1 DEF Good, Sourced
  <2>4. p.pc \in Answer /\ Sourced(p)
    BY <1>1, <1>2, <1>4, <2>1, <2>3 DEF Good, Sourced, Session, Retrying, Answer
  <2>5. Passes(q, p)
    BY <1>1, <1>2, <2>1, <2>3, <2>4, AnswerGood
  <2> QED BY <2>2, <2>5 DEF Stepped
<1> QED BY <1>3, <1>4 DEF trackAnswer

\* The guardian is asked with nothing held and the refused forwarding recorded.
LEMMA RefusalPasses ==
  ASSUME NEW r, Good(rq[r]), guardianAfterRefusal(r)
  PROVE  Stepped(r)
<1> DEFINE q == rq[r]
           p == [release(complete(recordFailure(releaseModel(q)))) EXCEPT !.pc = "takeover"]
<1>1. /\ q.pc = "answered" /\ q.pc \in Answer /\ q.shape.target = "registry" /\ ~q.remote
      /\ q.shape.borrowed = "no" /\ ~q.redirected /\ Alone(r, p)
  BY DEF guardianAfterRefusal, At, In, guardiansMayAnswer, Answer
<1>2. /\ Typed(q) /\ q.pc \notin Switching /\ Placed(q)
      /\ q.forwards = q.events + Owed(q) /\ q.attempt <= RpReadiness /\ q.generated <= RpInference + 1
      /\ q.shape.path = "options" => q.body = "remote"
      /\ Owed(q) = (IF /\ observed(q) /\ q.shape.target # "realtime"
                       /\ q.body \in {"local", "closed", "family"} THEN 1 ELSE 0)
  BY <1>1, InAnswer
<1>3. q.body = "local" /\ observed(q)
  BY <1>1 DEF Good, Sourced, observed
<1>4. /\ Typed(p) /\ p.pc = "takeover" /\ ~p.route /\ p.entry = "none" /\ ~p.lease
      /\ p.shape = q.shape /\ p.body = q.body /\ p.remote = q.remote /\ p.generated = q.generated
      /\ p.attempt = q.attempt /\ p.result = q.result /\ p.forwards = q.forwards
      /\ p.redirected = q.redirected /\ p.events = q.events + 1
  <2>1. observed(releaseModel(q))
    BY <1>2, <1>3 DEF observed, releaseModel, Typed, Fields
  <2> QED BY <1>2, <2>1 DEF releaseModel, recordFailure, release, complete, Typed, Fields
<1> HIDE DEF p
<1>5. q.shape.path # "options"
  BY <1>2, <1>3
<1>6. Holds(p)
  BY <1>4 DEF Holds, Session, Retrying, Answer
<1>7. Placed(p)
  BY <1>1, <1>4, <1>5 DEF Placed, Belongs
<1>8. Sourced(p)
  BY <1>1, <1>3, <1>4 DEF Sourced, Answer
<1>9. Counted(p)
  BY <1>2, <1>4 DEF Counted, Session, Retrying
<1>10. Owed(p) = 0
  BY <1>4 DEF Owed, Session, Retrying, Answer
<1>11. p.forwards = p.events + Owed(p)
  BY <1>1, <1>2, <1>3, <1>4, <1>10 DEF Typed
<1>12. Passes(q, p)
  BY <1>2, <1>4, <1>6, <1>7, <1>8, <1>9, <1>11 DEF Passes, Good, Switching
<1> QED BY <1>1, <1>12 DEF Stepped, p

\* Closing the answer lets go of everything and records what is owed.
LEMMA ClosePasses ==
  ASSUME NEW r, Good(rq[r]), rq[r].shape.target # "realtime", responseClosed(r)
  PROVE  Stepped(r)
<1> DEFINE q == rq[r]
           ended == complete(release(releaseModel(q)))
<1>1. PICK answer \in {"served", "error"} :
        Alone(r, Answered(IF q.body \in {"local", "closed", "family"} THEN recordFailure(ended) ELSE ended,
                          answer))
  BY DEF responseClosed
<1> DEFINE p == Answered(IF q.body \in {"local", "closed", "family"} THEN recordFailure(ended) ELSE ended,
                         answer)
<1>2. q.pc \in Answer
  BY DEF responseClosed, At, Answer
<1>3. /\ Typed(q) /\ q.pc \notin Switching /\ q.forwards = q.events + Owed(q)
      /\ Owed(q) = (IF /\ observed(q) /\ q.shape.target # "realtime"
                       /\ q.body \in {"local", "closed", "family"} THEN 1 ELSE 0)
  BY <1>2, InAnswer
<1>4. /\ Typed(ended) /\ ~ended.route /\ ended.entry = "none" /\ ~ended.lease
      /\ ended.shape = q.shape /\ ended.body = q.body /\ ended.remote = q.remote
      /\ ended.generated = q.generated /\ ended.attempt = q.attempt /\ ended.result = q.result
      /\ ended.forwards = q.forwards /\ ended.events = q.events
  BY <1>3 DEF releaseModel, release, complete, Typed, Fields
<1>5. observed(ended) <=> observed(q)
  BY <1>4 DEF observed
<1>6. Alone(r, p)
  BY <1>1
<1> HIDE DEF ended
<1>7. /\ Typed(p) /\ p.pc = "done" /\ ~p.route /\ p.entry = "none" /\ ~p.lease
      /\ p.shape = q.shape /\ p.body = q.body /\ p.remote = q.remote /\ p.generated = q.generated
      /\ p.attempt = q.attempt /\ p.result = q.result /\ p.forwards = q.forwards
      /\ p.events = (IF q.body \in {"local", "closed", "family"} /\ observed(q)
                     THEN q.events + 1 ELSE q.events)
  <2>1. CASE q.body \in {"local", "closed", "family"} /\ observed(q)
    <3>1. p = [[ended EXCEPT !.events = @ + 1] EXCEPT !.pc = "done", !.answer = answer]
      BY <1>5, <2>1 DEF recordFailure, Answered
    <3> HIDE DEF p
    <3>2. Typed(p)
      BY <1>4, <3>1 DEF Typed, Fields
    <3> QED BY <1>4, <2>1, <3>1, <3>2 DEF Typed, Fields
  <2>2. CASE ~(q.body \in {"local", "closed", "family"} /\ observed(q))
    <3>1. p = [ended EXCEPT !.pc = "done", !.answer = answer]
      BY <1>5, <2>2 DEF recordFailure, Answered
    <3> HIDE DEF p
    <3>2. Typed(p)
      BY <1>4, <3>1 DEF Typed, Fields
    <3> QED BY <1>4, <2>2, <3>1, <3>2 DEF Typed, Fields
  <2> QED BY <2>1, <2>2
<1> HIDE DEF p
<1>8. p.forwards = p.events
  BY <1>3, <1>7 DEF Typed
<1>9. Good(p) /\ p.pc \notin Switching
  BY <1>7, <1>8, DoneGood
<1>10. Passes(q, p)
  BY <1>3, <1>7, <1>9 DEF Passes
<1> QED BY <1>6, <1>10 DEF Stepped

\* The steps after an answer that change the request only.
Writing(r) ==
  \/ guardianAfterRefusal(r) \/ writeRegistryTextResponse(r)
  \/ writeRegistryImageResponse(r) \/ handleRegistryAudioRequest(r)
  \/ writeForwardedResponse(r) \/ responseWithVLLMTracking(r)
  \/ responseWithSdcppJobTracking(r)
  \/ writeModelProxyResponse(r) \/ writeProxyResponse(r) \/ proxyBidirectionalStream(r)

LEMMA WritingSteps ==
  ASSUME RpInputs, NEW r, Good(rq[r]), ClientLeaves(r) \/ Writing(r)
  PROVE  Stepped(r)
<1> DEFINE q == rq[r]
<1>0. Typed(q)
  BY DEF Good
<1>1. CASE ClientLeaves(r)
  <2> DEFINE p == [q EXCEPT !.gone = TRUE]
  <2>1. /\ Typed(p) /\ p.pc = q.pc
        /\ /\ p.shape = q.shape /\ p.config = q.config /\ p.redirected = q.redirected
           /\ p.remote = q.remote /\ p.route = q.route /\ p.entry = q.entry /\ p.lease = q.lease
           /\ p.attempt = q.attempt /\ p.result = q.result /\ p.generated = q.generated
           /\ p.body = q.body /\ p.forwards = q.forwards /\ p.events = q.events
    BY <1>0 DEF Typed, Fields
  <2> HIDE DEF p
  <2>2. Passes(q, p)
    BY <2>1, SameGood
  <2> QED BY <1>1, <2>2 DEF ClientLeaves, Stepped, p
<1>2. CASE guardianAfterRefusal(r)
  BY <1>2, RefusalPasses
<1>3. CASE \/ writeRegistryTextResponse(r) \/ writeRegistryImageResponse(r)
           \/ handleRegistryAudioRequest(r) \/ writeForwardedResponse(r)
  <2>1. q.pc = "answered" /\ q.shape.target # "realtime" /\ Alone(r, Written(q))
    BY <1>3 DEF writeRegistryTextResponse, writeRegistryImageResponse, handleRegistryAudioRequest,
                writeForwardedResponse, At, In
  <2>2. Passes(q, Written(q))
    BY <2>1, WrittenPasses
  <2> QED BY <2>1, <2>2 DEF Stepped
<1>4. CASE responseWithVLLMTracking(r) \/ responseWithSdcppJobTracking(r)
  BY <1>4, TrackPasses DEF responseWithVLLMTracking, responseWithSdcppJobTracking
<1>5. CASE writeModelProxyResponse(r) \/ writeProxyResponse(r)
  <2>1. q.shape.target # "realtime" /\ responseClosed(r)
    BY <1>0, <1>5, ShapeFacts DEF writeModelProxyResponse, writeProxyResponse, Typed
  <2> QED BY <2>1, ClosePasses
<1>6. CASE proxyBidirectionalStream(r)
  <2>1. /\ q.pc = "relay" /\ q.pc \in Answer /\ q.shape.target = "realtime"
        /\ Alone(r, Answered(release(releaseModel(q)), "served"))
    BY <1>6 DEF proxyBidirectionalStream, At, Answer
  <2>2. q.entry = "none" /\ q.forwards = q.events /\ q.pc \notin Switching
    BY <1>0, <2>1 DEF Good, Holds, Owed, Typed, Switching
  <2>3. Passes(q, Answered(release(releaseModel(q)), "served"))
    BY <2>2, UnobservedEnds DEF Passes
  <2> QED BY <2>1, <2>3 DEF Stepped
<1> QED BY <1>1, <1>2, <1>3, <1>4, <1>5, <1>6 DEF Writing

-----------------------------------------------------------------------------
(* The runtime and the store when a step is taken.                         *)

\* A request that only keeps, gives up or gets a lease on what the runtime holds
\* leaves the runtime sound, whatever is remembered with a lease meanwhile.
LEMMA SharedKept ==
  ASSUME RpInv, NEW r \in RpRequests, NEW p, Becomes(r, p), Passes(rq[r], p), rpserver' = rpserver,
         \A k \in rpkept' : k.lease => k \in rpkept \/ ~rpserver.switching
  PROVE  Shared' /\ (rq = [s \in RpRequests |-> rq[s]])' /\ (\A s \in RpRequests : Good(rq[s]))'
<1>1. rq' = [rq EXCEPT ![r] = p] /\ DOMAIN rq = RpRequests
  BY DEF Becomes, RpInv
<1>2. rq' = [s \in RpRequests |-> rq'[s]]
  BY <1>1
<1>3. rq'[r] = p /\ \A s \in RpRequests \ {r} : rq'[s] = rq[s]
  BY <1>1
<1>4. \A s \in RpRequests : Good(rq'[s])
  BY <1>3 DEF RpInv, Passes
<1>5. \A s \in RpRequests : rq'[s].pc \in Switching <=> rq[s].pc \in Switching
  BY <1>3 DEF Passes
<1>6. \A s \in RpRequests : rq'[s].lease =>
        \/ rq[s].lease /\ rq'[s].config = rq[s].config
        \/ ~rpserver.switching /\ rpserver.config = rq'[s].config
  BY <1>3 DEF Passes
<1>7. \A s \in RpRequests : rq'[s].lease => rpserver'.config = rq'[s].config
  BY <1>6 DEF RpInv, Shared
<1>8. ASSUME NEW s \in RpRequests, rq'[s].pc \in Switching
      PROVE  /\ rpserver'.switching /\ \A k \in rpkept' : ~k.lease
             /\ \A t \in RpRequests \ {s} : ~rq'[t].lease /\ rq'[t].pc \notin Switching
  <2>1. /\ rpserver.switching /\ \A k \in rpkept : ~k.lease
        /\ \A t \in RpRequests \ {s} : ~rq[t].lease /\ rq[t].pc \notin Switching
    BY <1>5, <1>8 DEF RpInv, Shared
  <2> QED BY <1>5, <1>6, <2>1
<1>9. rpserver'.switching => \E s \in RpRequests : rq'[s].pc \in Switching
  BY <1>5 DEF RpInv, Shared
<1>10. Shared'
  BY <1>7, <1>8, <1>9 DEF RpInv, Shared
<1> QED BY <1>2, <1>4, <1>10

\* What is remembered stays sound when nothing is added and the runtime is the
\* same.
LEMMA KeptShrinks ==
  ASSUME RpInputs, Kept, rpkept' \subseteq rpkept,
         rpserver'.config = rpserver.config, rpserver'.epoch = rpserver.epoch
  PROVE  Kept'
<1>1. IsFiniteSet(rpkept')
  BY FS_Subset DEF Kept
<1>2. ASSUME NEW path \in {"responses", "jobs"}
      PROVE  Cardinality({k \in rpkept' : k.path = path}) <= RpKeepLimit
  <2> DEFINE new == {k \in rpkept' : k.path = path}
             old == {k \in rpkept : k.path = path}
  <2>1. new \subseteq old /\ old \subseteq rpkept
    OBVIOUS
  <2>2. IsFiniteSet(old)
    BY <2>1, FS_Subset DEF Kept
  <2>3. Cardinality(new) <= Cardinality(old) /\ IsFiniteSet(new)
    BY <2>1, <2>2, FS_Subset
  <2>4. Cardinality(new) \in Nat /\ Cardinality(old) \in Nat
    BY <2>2, <2>3, FS_CardinalityType
  <2>5. Cardinality(old) <= RpKeepLimit
    BY DEF Kept
  <2> QED BY <2>3, <2>4, <2>5 DEF RpInputs
<1>3. \A k \in rpkept' : k.stream /\ k.lease => rpserver'.config = k.config /\ rpserver'.epoch = k.epoch
  BY DEF Kept
<1> QED BY <1>1, <1>2, <1>3 DEF Kept

LEMMA SteppedKeeps ==
  ASSUME RpInputs, RpInv, NEW r \in RpRequests, Stepped(r)
  PROVE  RpInv'
<1>1. PICK p : Alone(r, p) /\ Passes(rq[r], p)
  BY DEF Stepped
<1>2. Becomes(r, p) /\ rpserver' = rpserver /\ rpkept' = rpkept
  BY <1>1 DEF Alone
<1>3. Shared' /\ (rq = [s \in RpRequests |-> rq[s]])' /\ (\A s \in RpRequests : Good(rq[s]))'
  BY <1>1, <1>2, SharedKept
<1>4. Kept'
  BY <1>2, KeptShrinks DEF RpInv
<1> QED BY <1>3, <1>4 DEF RpInv

\* Counting the users of the runtime finds every lease.
LEMMA UsersCount ==
  ASSUME RpInputs, RpInv
  PROVE  LET A == {r \in RpRequests : rq[r].lease}
             B == {k \in rpkept : k.lease}
         IN /\ IsFiniteSet(A) /\ IsFiniteSet(B) /\ Cardinality(A) \in Nat /\ Cardinality(B) \in Nat
            /\ users = Cardinality(A) + Cardinality(B)
<1> DEFINE A == {r \in RpRequests : rq[r].lease}
           B == {k \in rpkept : k.lease}
<1>1. A \subseteq RpRequests /\ B \subseteq rpkept
  OBVIOUS
<1>2. IsFiniteSet(A) /\ IsFiniteSet(B)
  BY <1>1, FS_Subset DEF RpInputs, RpInv, Kept
<1>3. Cardinality(A) \in Nat /\ Cardinality(B) \in Nat
  BY <1>2, FS_CardinalityType
<1> QED BY <1>2, <1>3 DEF users

LEMMA NoUsers ==
  ASSUME RpInputs, RpInv, users = 0
  PROVE  (\A r \in RpRequests : ~rq[r].lease) /\ (\A k \in rpkept : ~k.lease)
<1> DEFINE A == {r \in RpRequests : rq[r].lease}
           B == {k \in rpkept : k.lease}
<1>1. /\ IsFiniteSet(A) /\ IsFiniteSet(B) /\ Cardinality(A) \in Nat /\ Cardinality(B) \in Nat
      /\ Cardinality(A) + Cardinality(B) = 0
  BY UsersCount
<1> HIDE DEF A, B
<1>2. Cardinality(A) = 0 /\ Cardinality(B) = 0
  BY <1>1
<1>3. A = {} /\ B = {}
  BY <1>1, <1>2, FS_EmptySet
<1> QED BY <1>3 DEF A, B

LEMMA OneUser ==
  ASSUME RpInputs, RpInv, users <= 1, NEW r \in RpRequests, rq[r].lease
  PROVE  (\A s \in RpRequests \ {r} : ~rq[s].lease) /\ (\A k \in rpkept : ~k.lease)
<1> DEFINE A == {s \in RpRequests : rq[s].lease}
           B == {k \in rpkept : k.lease}
<1>1. /\ IsFiniteSet(A) /\ IsFiniteSet(B) /\ Cardinality(A) \in Nat /\ Cardinality(B) \in Nat
      /\ Cardinality(A) + Cardinality(B) <= 1
  BY UsersCount
<1>2. r \in A
  OBVIOUS
<1> HIDE DEF A, B
<1>3. IsFiniteSet(A \ {r}) /\ Cardinality(A \ {r}) = Cardinality(A) - 1 /\ Cardinality(A \ {r}) \in Nat
  BY <1>1, <1>2, FS_RemoveElement, FS_CardinalityType
<1>4. Cardinality(A \ {r}) = 0 /\ Cardinality(B) = 0
  BY <1>1, <1>3
<1>5. A \ {r} = {} /\ B = {}
  BY <1>1, <1>3, <1>4, FS_EmptySet
<1> QED BY <1>5 DEF A, B

\* A switch begins when nobody else has a lease ...
LEMMA SwitchBegins ==
  ASSUME RpInputs, RpInv, NEW r \in RpRequests, NEW p, Becomes(r, p), Good(p), p.pc \in Switching,
         rq[r].pc \notin Switching, p.lease => rq[r].lease /\ p.config = rq[r].config,
         ~rpserver.switching, rpserver' = [rpserver EXCEPT !.switching = TRUE], rpkept' = rpkept,
         \A s \in RpRequests \ {r} : ~rq[s].lease, \A k \in rpkept : ~k.lease
  PROVE  RpInv'
<1>1. rq' = [rq EXCEPT ![r] = p] /\ DOMAIN rq = RpRequests
  BY DEF Becomes, RpInv
<1>2. rq' = [s \in RpRequests |-> rq'[s]]
  BY <1>1
<1>3. rq'[r] = p /\ \A s \in RpRequests \ {r} : rq'[s] = rq[s]
  BY <1>1
<1>4. \A s \in RpRequests : Good(rq'[s])
  BY <1>3 DEF RpInv
<1>5. /\ DOMAIN rpserver' = {"config", "switching", "epoch", "alive"} /\ rpserver'.epoch = rpserver.epoch
      /\ rpserver'.switching = TRUE /\ rpserver'.alive = rpserver.alive /\ rpserver'.config = rpserver.config
  BY DEF RpInv, Shared
<1>6. \A s \in RpRequests : rq[s].pc \notin Switching
  BY DEF RpInv, Shared
<1>7. \A s \in RpRequests : rq'[s].lease => rpserver'.config = rq'[s].config
  BY <1>3, <1>5 DEF RpInv, Shared
<1>8. ASSUME NEW s \in RpRequests, rq'[s].pc \in Switching
      PROVE  /\ rpserver'.switching /\ \A k \in rpkept' : ~k.lease
             /\ \A t \in RpRequests \ {s} : ~rq'[t].lease /\ rq'[t].pc \notin Switching
  <2>1. s = r
    BY <1>3, <1>6, <1>8
  <2> QED BY <1>3, <1>5, <1>6, <2>1
<1>9. Shared'
  BY <1>3, <1>5, <1>7, <1>8 DEF RpInv, Shared
<1>10. Kept'
  BY <1>5, KeptShrinks DEF RpInv
<1> QED BY <1>2, <1>4, <1>9, <1>10 DEF RpInv

\* ... and at its end only the request it was for may have one.
LEMMA SwitchEnds ==
  ASSUME RpInputs, RpInv, NEW r \in RpRequests, rq[r].pc \in Switching,
         NEW p, Becomes(r, p), Good(p), p.pc \notin Switching,
         NEW config, NEW epoch \in Nat, rpserver' = Loaded(config, epoch), rpkept' = rpkept,
         p.lease => p.config = config
  PROVE  RpInv'
<1>1. rq' = [rq EXCEPT ![r] = p] /\ DOMAIN rq = RpRequests
  BY DEF Becomes, RpInv
<1>2. rq' = [s \in RpRequests |-> rq'[s]]
  BY <1>1
<1>3. rq'[r] = p /\ \A s \in RpRequests \ {r} : rq'[s] = rq[s]
  BY <1>1
<1>4. \A s \in RpRequests : Good(rq'[s])
  BY <1>3 DEF RpInv
<1>5. /\ DOMAIN rpserver' = {"config", "switching", "epoch", "alive"} /\ rpserver'.epoch = epoch
      /\ rpserver'.switching = FALSE /\ rpserver'.alive = TRUE /\ rpserver'.config = config
  BY DEF Loaded
<1>6. /\ \A k \in rpkept : ~k.lease
      /\ \A s \in RpRequests \ {r} : ~rq[s].lease /\ rq[s].pc \notin Switching
  BY DEF RpInv, Shared
<1>7. \A s \in RpRequests : rq'[s].pc \notin Switching /\ (rq'[s].lease => rpserver'.config = rq'[s].config)
  BY <1>3, <1>5, <1>6
<1>8. Shared'
  BY <1>5, <1>7 DEF Shared
<1>9. Kept'
  BY <1>6 DEF RpInv, Kept
<1> QED BY <1>2, <1>4, <1>8, <1>9 DEF RpInv

\* The steps that get the runtime, load it or reload it.
LEMMA AcquireKeeps ==
  ASSUME RpInputs, RpInv, NEW r \in RpRequests, acquireModelConfig(r)
  PROVE  RpInv'
<1> DEFINE q == rq[r]
<1>1. q.pc = "load" /\ Good(q) /\ q.pc \notin Switching
  BY DEF acquireModelConfig, At, RpInv, Switching
<1>2. CASE Alone(r, LeaseFails(q))
  <2>1. Passes(q, LeaseFails(q))
    BY <1>1, LeaseFailsGood DEF Passes
  <2> QED BY <1>2, <2>1, SteppedKeeps DEF Stepped
<1>3. CASE ~rpserver.switching /\ rpserver.config = q.config /\ Alone(r, Leased(q))
  <2>1. Passes(q, Leased(q))
    BY <1>1, <1>3, LeasedGood DEF Passes
  <2> QED BY <1>3, <2>1, SteppedKeeps DEF Stepped
<1>4. CASE /\ ~rpserver.switching /\ users = 0 /\ rpserver' = [rpserver EXCEPT !.switching = TRUE]
           /\ Becomes(r, [q EXCEPT !.pc = "loading"]) /\ rpkept' = rpkept
  <2> DEFINE p == [q EXCEPT !.pc = "loading"]
  <2>1. Typed(q) /\ ~q.lease /\ Placed(q) /\ q.forwards = q.events + Owed(q)
    BY <1>1, AtLoad
  <2>2. /\ Typed(p) /\ p.pc = "loading"
        /\ /\ p.shape = q.shape /\ p.config = q.config /\ p.redirected = q.redirected
           /\ p.remote = q.remote /\ p.route = q.route /\ p.entry = q.entry /\ p.lease = q.lease
           /\ p.attempt = q.attempt /\ p.result = q.result /\ p.generated = q.generated
           /\ p.body = q.body /\ p.forwards = q.forwards /\ p.events = q.events
    BY <2>1 DEF Typed, Fields
  <2> HIDE DEF p
  <2>3. Holds(p) /\ Sourced(p)
    BY <1>1, <2>2 DEF Good, Holds, Sourced, Session, Retrying, Answer
  <2>4. Placed(p)
    BY <1>1, <2>1, <2>2 DEF Placed, Belongs
  <2>5. Counted(p)
    BY <1>1, <2>2 DEF Good, Counted, Session, Retrying
  <2>6. Owed(p) = Owed(q)
    BY <1>1, <2>2 DEF Owed, observed
  <2>7. Good(p) /\ p.pc \in Switching
    BY <2>1, <2>2, <2>3, <2>4, <2>5, <2>6 DEF Good, Switching
  <2>8. (\A s \in RpRequests : ~rq[s].lease) /\ (\A k \in rpkept : ~k.lease)
    BY <1>4, NoUsers
  <2>9. Becomes(r, p)
    BY <1>4 DEF p
  <2> QED BY <1>1, <1>4, <2>1, <2>2, <2>7, <2>8, <2>9, SwitchBegins
<1> QED BY <1>2, <1>3, <1>4 DEF acquireModelConfig

LEMMA LoadKeeps ==
  ASSUME RpInputs, RpInv, NEW r \in RpRequests, loadModelConfig(r)
  PROVE  RpInv'
<1> DEFINE q == rq[r]
<1>1. q.pc = "loading" /\ Good(q) /\ q.pc \in Switching
  BY DEF loadModelConfig, At, RpInv, Switching
<1>2. rpserver.epoch \in Nat /\ rpserver.epoch + 1 \in Nat /\ rpkept' = rpkept
  BY DEF RpInv, Shared, loadModelConfig
<1>3. CASE rpserver' = Loaded(q.config, rpserver.epoch + 1) /\ Becomes(r, Leased(q))
  <2>1. Good(Leased(q)) /\ Leased(q).config = q.config /\ Leased(q).pc \notin Switching
    BY <1>1, LeasedGood
  <2> QED BY <1>1, <1>2, <1>3, <2>1, SwitchEnds
<1>4. CASE rpserver' = Loaded(NoConfig, rpserver.epoch) /\ Becomes(r, LeaseFails(q))
  <2>1. Good(LeaseFails(q)) /\ ~LeaseFails(q).lease /\ LeaseFails(q).pc \notin Switching
    BY <1>1, LeaseFailsGood
  <2> QED BY <1>1, <1>2, <1>4, <2>1, SwitchEnds
<1> QED BY <1>3, <1>4 DEF loadModelConfig

LEMMA ReloadKeeps ==
  ASSUME RpInputs, RpInv, NEW r \in RpRequests, reloadHeldModelConfig(r) \/ finishReload(r)
  PROVE  RpInv'
<1> DEFINE q == rq[r]
<1>0. Good(q)
  BY DEF RpInv
<1>1. q.pc \in {"reload", "reloading"} /\ q.pc \in Session
  BY DEF reloadHeldModelConfig, finishReload, At, Session, Retrying
<1>2. Typed(q) /\ q.lease /\ Counted(q) /\ q.body = "none"
  BY <1>0, <1>1, InSession
<1>3. CASE q.pc = "reload" /\ Alone(r, forwardFailed(releaseModel(q)))
  <2>1. Stepped(r)
    BY <1>0, <1>1, <1>3, SessionFails DEF Switching
  <2> QED BY <2>1, SteppedKeeps
<1>4. CASE /\ q.pc = "reload" /\ ~rpserver.switching /\ users <= 1
           /\ rpserver' = [rpserver EXCEPT !.switching = TRUE]
           /\ Becomes(r, [q EXCEPT !.pc = "reloading"]) /\ rpkept' = rpkept
  <2> DEFINE p == [q EXCEPT !.pc = "reloading"]
  <2>1. /\ Typed(p) /\ p.pc = "reloading"
        /\ /\ p.shape = q.shape /\ p.config = q.config /\ p.redirected = q.redirected
           /\ p.remote = q.remote /\ p.route = q.route /\ p.entry = q.entry /\ p.lease = q.lease
           /\ p.attempt = q.attempt /\ p.result = q.result /\ p.generated = q.generated
           /\ p.body = q.body /\ p.forwards = q.forwards /\ p.events = q.events
    BY <1>2 DEF Typed, Fields
  <2> HIDE DEF p
  <2>2. p.pc \in Session /\ p.pc \in Switching /\ q.pc \notin Switching
    BY <1>4, <2>1 DEF Session, Retrying, Switching
  <2>3. Counted(p)
    BY <1>2, <1>4, <2>1 DEF Counted, Session, Retrying
  <2>4. Good(p)
    BY <1>0, <1>1, <1>2, <2>1, <2>2, <2>3, SessionGood
  <2>5. (\A s \in RpRequests \ {r} : ~rq[s].lease) /\ (\A k \in rpkept : ~k.lease)
    BY <1>2, <1>4, OneUser
  <2>6. Becomes(r, p)
    BY <1>4 DEF p
  <2> QED BY <1>2, <1>4, <2>1, <2>2, <2>4, <2>5, <2>6, SwitchBegins
<1>5. CASE q.pc = "reloading" /\ finishReload(r)
  <2>1. q.pc \in Switching /\ rpserver.epoch \in Nat /\ rpserver.epoch + 1 \in Nat /\ rpkept' = rpkept
    BY <1>5 DEF RpInv, Shared, finishReload, Switching
  <2>2. CASE /\ rpserver' = Loaded(q.config, rpserver.epoch + 1)
             /\ Becomes(r, [q EXCEPT !.pc = "wait", !.recovered = TRUE])
    <3> DEFINE p == [q EXCEPT !.pc = "wait", !.recovered = TRUE]
    <3>1. /\ Typed(p) /\ p.pc = "wait"
          /\ /\ p.shape = q.shape /\ p.config = q.config /\ p.redirected = q.redirected
             /\ p.remote = q.remote /\ p.route = q.route /\ p.entry = q.entry /\ p.lease = q.lease
             /\ p.attempt = q.attempt /\ p.result = q.result /\ p.generated = q.generated
             /\ p.body = q.body /\ p.forwards = q.forwards /\ p.events = q.events
      BY <1>2 DEF Typed, Fields
    <3> HIDE DEF p
    <3>2. p.pc \in Session /\ p.pc \notin Switching
      BY <3>1 DEF Session, Retrying, Switching
    <3>3. Counted(p)
      BY <1>2, <1>5, <3>1 DEF Counted, Session, Retrying
    <3>4. Good(p)
      BY <1>0, <1>1, <1>2, <3>1, <3>2, <3>3, SessionGood
    <3>5. Becomes(r, p)
      BY <2>2 DEF p
    <3> QED BY <2>1, <2>2, <3>1, <3>2, <3>4, <3>5, SwitchEnds
  <2>3. CASE rpserver' = Loaded(NoConfig, rpserver.epoch) /\ Becomes(r, forwardFailed(releaseModel(q)))
    <3>1. q.shape.target # "realtime" /\ q.shape.path # "options"
      BY <1>0, <1>1, InSession
    <3> DEFINE p == forwardFailed(releaseModel(q))
    <3>2. Good(p) /\ ~p.lease /\ p.pc \notin Switching
      BY <1>0, <1>1, <3>1, FailsGood
    <3> QED BY <2>1, <2>3, <3>2, SwitchEnds
  <2> QED BY <1>5, <2>2, <2>3 DEF finishReload
<1> QED BY <1>1, <1>3, <1>4, <1>5 DEF reloadHeldModelConfig, finishReload, At

-----------------------------------------------------------------------------
(* What is remembered.                                                     *)

\* Making room leaves room for one.
LEMMA RoomForOne ==
  ASSUME RpInputs, NEW mine, IsFiniteSet(mine), Cardinality(mine) <= RpKeepLimit,
         NEW others \in removeOldest(mine)
  PROVE  /\ others \subseteq mine /\ IsFiniteSet(others) /\ Cardinality(others) \in Nat
         /\ Cardinality(others) + 1 <= RpKeepLimit
<1>1. Cardinality(mine) \in Nat
  BY FS_CardinalityType
<1>2. CASE Cardinality(mine) < RpKeepLimit
  <2>1. others = mine
    BY <1>2 DEF removeOldest
  <2> QED BY <1>1, <1>2, <2>1 DEF RpInputs
<1>3. CASE ~(Cardinality(mine) < RpKeepLimit)
  <2>1. PICK k \in mine : others = mine \ {k}
    BY <1>3 DEF removeOldest
  <2>2. IsFiniteSet(others) /\ Cardinality(others) = Cardinality(mine) - 1
    BY <2>1, FS_RemoveElement
  <2>3. Cardinality(others) \in Nat
    BY <2>2, FS_CardinalityType
  <2> QED BY <1>1, <2>1, <2>2, <2>3 DEF RpInputs
<1> QED BY <1>2, <1>3

\* Remembering keeps the limit; the new entry is of its path, its lease is on
\* the runtime as it is, and its stream was read under a lease.
LEMMA RememberKeeps ==
  ASSUME RpInputs, RpInv, NEW r \in RpRequests, NEW path \in {"responses", "jobs"}, NEW leases,
         remember(r, path, leases), rpserver' = rpserver,
         rq[r].shape.stream /\ leases => rpserver.config = rq[r].config
  PROVE  Kept' /\ \A k \in rpkept' : k.lease => k \in rpkept \/ ~rpserver.switching
<1> DEFINE mine == {k \in rpkept : k.path = path} \ expired(path)
           entry == [id |-> r, path |-> path, config |-> rq[r].config, remote |-> rq[r].remote,
                     stream |-> rq[r].shape.stream, lease |-> leases /\ acquireLoadedRuntimeLease,
                     leased |-> rpserver.config, epoch |-> rpserver.epoch,
                     expires |-> rptime.now + RpLifetime]
           before == {k \in rpkept : k.path = path}
<1>1. PICK others \in removeOldest(mine) : rpkept' = {k \in rpkept : k.path # path} \cup others \cup {entry}
  BY DEF remember
<1>2. /\ entry.path = path /\ entry.stream = rq[r].shape.stream /\ entry.config = rq[r].config
      /\ entry.epoch = rpserver.epoch
      /\ entry.lease => leases /\ ~rpserver.switching
  BY DEF acquireLoadedRuntimeLease
<1>3. mine \subseteq before /\ before \subseteq rpkept
  OBVIOUS
<1>4. IsFiniteSet(before) /\ Cardinality(before) <= RpKeepLimit /\ Cardinality(before) \in Nat
  BY <1>3, FS_Subset, FS_CardinalityType DEF RpInv, Kept
<1>5. IsFiniteSet(mine) /\ Cardinality(mine) <= RpKeepLimit
  <2>1. IsFiniteSet(mine) /\ Cardinality(mine) <= Cardinality(before)
    BY <1>3, <1>4, FS_Subset
  <2>2. Cardinality(mine) \in Nat
    BY <2>1, FS_CardinalityType
  <2> QED BY <1>4, <2>1, <2>2 DEF RpInputs
<1>6. /\ others \subseteq mine /\ IsFiniteSet(others) /\ Cardinality(others) \in Nat
      /\ Cardinality(others) + 1 <= RpKeepLimit
  BY <1>1, <1>5, RoomForOne
<1> HIDE DEF entry
<1>7. \A k \in rpkept' : k \in rpkept \/ k = entry
  BY <1>1, <1>3, <1>6
<1>8. IsFiniteSet(rpkept')
  <2>1. rpkept' \subseteq rpkept \cup {entry}
    BY <1>7
  <2>2. IsFiniteSet(rpkept \cup {entry})
    BY FS_AddElement DEF RpInv, Kept
  <2> QED BY <2>1, <2>2, FS_Subset
<1>9. ASSUME NEW other \in {"responses", "jobs"}
      PROVE  Cardinality({k \in rpkept' : k.path = other}) <= RpKeepLimit
  <2>1. CASE other = path
    <3>1. {k \in rpkept' : k.path = other} = others \cup {entry}
      BY <1>1, <1>2, <1>3, <1>6, <2>1
    <3>2. Cardinality(others \cup {entry}) = Cardinality(others)
            \/ Cardinality(others \cup {entry}) = Cardinality(others) + 1
      BY <1>6, FS_AddElement
    <3> DEFINE size == Cardinality(others \cup {entry})
    <3> HIDE DEF size
    <3>3. size <= RpKeepLimit
      BY <1>6, <3>2 DEF RpInputs, size
    <3> QED BY <3>1, <3>3 DEF size
  <2>2. CASE other # path
    <3>1. {k \in rpkept' : k.path = other} = {k \in rpkept : k.path = other}
      BY <1>1, <1>2, <1>3, <1>6, <2>2
    <3> QED BY <3>1 DEF RpInv, Kept
  <2> QED BY <2>1, <2>2
<1>10. \A k \in rpkept' : k.stream /\ k.lease => rpserver'.config = k.config /\ rpserver'.epoch = k.epoch
  BY <1>2, <1>7 DEF RpInv, Kept
<1> QED BY <1>2, <1>7, <1>8, <1>9, <1>10 DEF Kept

\* Having remembered, the answer is written.
LEMMA RememberPasses ==
  ASSUME NEW q, Good(q), q.pc \in {"remember", "relay"}, q.shape.path \in {"responses", "jobs"}
  PROVE  Passes(q, [q EXCEPT !.pc = "relay", !.kept = TRUE])
<1> DEFINE p == [q EXCEPT !.pc = "relay", !.kept = TRUE]
<1>1. /\ Typed(p) /\ p.pc = "relay"
      /\ /\ p.shape = q.shape /\ p.config = q.config /\ p.redirected = q.redirected
         /\ p.remote = q.remote /\ p.route = q.route /\ p.entry = q.entry /\ p.lease = q.lease
         /\ p.attempt = q.attempt /\ p.result = q.result /\ p.generated = q.generated
         /\ p.body = q.body /\ p.forwards = q.forwards /\ p.events = q.events
  BY DEF Good, Typed, Fields
<1> HIDE DEF p
<1>2. q.pc \in Answer /\ p.pc \in Answer
  BY <1>1 DEF Answer
<1>3. Sourced(p)
  BY <1>1 DEF Good, Sourced, Session, Retrying, Answer
<1>4. q.body = "local" => q.lease
  BY DEF Good, Holds, Sourced
<1>5. Passes(q, p)
  BY <1>1, <1>2, <1>3, <1>4, AnswerGood
<1> QED BY <1>5 DEF p

LEMMA RememberResponseKeeps ==
  ASSUME RpInputs, RpInv, NEW r \in RpRequests, rememberResponse(r)
  PROVE  RpInv'
<1> DEFINE q == rq[r]
           p == [q EXCEPT !.pc = "relay", !.kept = TRUE]
<1>1. Good(q) /\ q.pc \in {"remember", "relay"} /\ q.shape.path = "responses" /\ rpserver' = rpserver
  BY DEF rememberResponse, At, RpInv
<1>2. Passes(q, p) /\ Becomes(r, p)
  BY <1>1, RememberPasses DEF rememberResponse
<1>3. q.shape.stream /\ ~q.remote => rpserver.config = q.config
  <2>1. SUFFICES ASSUME q.shape.stream, ~q.remote PROVE q.lease
    BY DEF RpInv, Shared
  <2>2. q.pc = "relay" /\ q.result = "ok" /\ q.body # "lent"
    BY <1>1, <2>1 DEF rememberResponse, At, Good, Sourced
  <2>3. q.body \notin {"none", "remote", "closed", "family"}
    BY <1>1, <2>1, <2>2 DEF Good, Sourced, Answer
  <2>4. q.body = "local"
    BY <1>1, <2>2, <2>3 DEF Good, Typed
  <2> QED BY <1>1, <2>2, <2>4 DEF Good, Holds
<1>4. Kept' /\ \A k \in rpkept' : k.lease => k \in rpkept \/ ~rpserver.switching
  <2>1. CASE rpkept' = rpkept
    BY <1>1, <2>1, KeptShrinks DEF RpInv
  <2>2. CASE remember(r, "responses", ~q.remote)
    BY <1>1, <1>3, <2>2, RememberKeeps
  <2> QED BY <2>1, <2>2 DEF rememberResponse
<1> QED BY <1>1, <1>2, <1>4, SharedKept DEF RpInv

LEMMA RememberJobKeeps ==
  ASSUME RpInputs, RpInv, NEW r \in RpRequests, rememberJob(r)
  PROVE  RpInv'
<1> DEFINE q == rq[r]
           p == [q EXCEPT !.pc = "relay", !.kept = TRUE]
<1>1. Good(q) /\ q.pc = "remember" /\ q.shape.path = "jobs" /\ rpserver' = rpserver
  BY DEF rememberJob, At, RpInv
<1>2. Passes(q, p) /\ Becomes(r, p)
  BY <1>1, RememberPasses DEF rememberJob
<1>3. Kept' /\ \A k \in rpkept' : k.lease => k \in rpkept \/ ~rpserver.switching
  BY <1>1, RememberKeeps DEF rememberJob
<1> QED BY <1>1, <1>2, <1>3, SharedKept DEF RpInv

LEMMA ForgetKeeps ==
  ASSUME RpInputs, RpInv, NEW r \in RpRequests, forgetResponse(r)
  PROVE  RpInv'
<1> DEFINE q == rq[r]
           p == [q EXCEPT !.pc = "relay"]
<1>1. /\ Good(q) /\ q.pc = "answered" /\ q.shape.target = "operation" /\ rpserver' = rpserver
      /\ rpkept' \subseteq rpkept /\ Becomes(r, p)
  BY DEF forgetResponse, At, RpInv
<1>2. /\ Typed(p) /\ p.pc = "relay"
      /\ /\ p.shape = q.shape /\ p.config = q.config /\ p.redirected = q.redirected
         /\ p.remote = q.remote /\ p.route = q.route /\ p.entry = q.entry /\ p.lease = q.lease
         /\ p.attempt = q.attempt /\ p.result = q.result /\ p.generated = q.generated
         /\ p.body = q.body /\ p.forwards = q.forwards /\ p.events = q.events
  BY <1>1 DEF Good, Typed, Fields
<1> HIDE DEF p
<1>3. q.pc \in Answer /\ p.pc \in Answer
  BY <1>1, <1>2 DEF Answer
<1>4. Sourced(p)
  BY <1>1, <1>2 DEF Good, Sourced, Session, Retrying, Answer
<1>5. q.body = "local" => q.lease
  BY <1>1 DEF Good, Holds
<1>6. Passes(q, p)
  BY <1>1, <1>2, <1>3, <1>4, <1>5, AnswerGood
<1>7. Kept' /\ \A k \in rpkept' : k.lease => k \in rpkept \/ ~rpserver.switching
  BY <1>1, KeptShrinks DEF RpInv
<1> QED BY <1>1, <1>6, <1>7, SharedKept DEF RpInv

\* A call about what is remembered goes where that was made, and holds nothing
\* yet.
LEMMA FollowsPasses ==
  ASSUME RpInputs, NEW q, Good(q), q.pc \in {"operation", "job"}, NEW k,
         NEW p, p = [Follows(q, k) EXCEPT !.pc = IF k.remote THEN "remote" ELSE "load",
                                          !.forwards = IF k.remote \/ q.pc = "operation" THEN @ ELSE @ + 1]
  PROVE  Passes(q, p)
<1>1. Typed(q) /\ Before(q) /\ q.pc \notin Switching /\ q.pc \in BeforePcs
  BY GoodBefore DEF BeforePcs
<1>2. /\ Typed(p) /\ p.pc = (IF k.remote THEN "remote" ELSE "load") /\ p.remote = k.remote
      /\ p.forwards = (IF k.remote \/ q.pc = "operation" THEN q.forwards ELSE q.forwards + 1)
      /\ p.shape = q.shape /\ p.redirected = q.redirected /\ p.route = q.route /\ p.entry = q.entry
      /\ p.lease = q.lease /\ p.attempt = q.attempt /\ p.result = q.result /\ p.generated = q.generated
      /\ p.body = q.body /\ p.events = q.events
  BY <1>1 DEF Follows, Typed, Fields
<1>3. q.shape.target = (IF q.pc = "operation" THEN "operation" ELSE "job")
  BY <1>1 DEF Before, Placed, Belongs
<1>4. q.shape.path # "options" /\ q.shape.borrowed = "no"
  BY <1>1, <1>3, ShapeFacts DEF Typed
<1>5. observed(p) <=> q.pc # "operation"
  BY <1>2, <1>3 DEF observed
<1>6. Holds(p) /\ Sourced(p)
  BY <1>1, <1>2, <1>3, <1>4 DEF Before, Holds, Sourced, Session, Retrying, Answer
<1>7. Placed(p)
  BY <1>1, <1>2, <1>3, <1>4 DEF Before, Placed, Belongs
<1>8. Counted(p)
  BY <1>1, <1>2 DEF Before, Counted, Session, Retrying, RpInputs
<1>9. Owed(p) = IF k.remote \/ q.pc = "operation" THEN 0 ELSE 1
  BY <1>2, <1>3, <1>4, <1>5 DEF Owed, Session, Retrying, Answer
<1>10. p.forwards = p.events + Owed(p)
  BY <1>1, <1>2, <1>9 DEF Before, Typed
<1> QED BY <1>1, <1>2, <1>6, <1>7, <1>8, <1>10 DEF Passes, Good, Before, Switching

LEMMA OperationKeeps ==
  ASSUME RpInputs, RpInv, NEW r \in RpRequests, handleVLLMResponseOperation(r)
  PROVE  RpInv'
<1> DEFINE q == rq[r]
<1>1. /\ Good(q) /\ q.pc = "operation" /\ q.pc \in BeforePcs /\ rpserver' = rpserver
      /\ rpkept' \subseteq rpkept
  BY DEF handleVLLMResponseOperation, At, RpInv, BeforePcs
<1>2. Typed(q) /\ Before(q) /\ q.pc \notin Switching
  BY <1>1, GoodBefore
<1>3. \E p : Becomes(r, p) /\ Passes(q, p)
  <2>1. CASE Becomes(r, Answered(q, "error"))
    <3> DEFINE p == Answered(q, "error")
    <3>1. /\ Typed(p) /\ p.pc = "done" /\ p.route = q.route /\ p.entry = q.entry /\ p.lease = q.lease
          /\ p.shape = q.shape /\ p.body = q.body /\ p.remote = q.remote /\ p.generated = q.generated
          /\ p.attempt = q.attempt /\ p.result = q.result /\ p.forwards = q.forwards /\ p.events = q.events
      BY <1>2 DEF Answered, Typed, Fields
    <3> HIDE DEF p
    <3>2. ~p.route /\ p.entry = "none" /\ ~p.lease /\ p.forwards = p.events
      BY <1>1, <1>2, <3>1 DEF Before
    <3>3. Good(p) /\ p.pc \notin Switching
      BY <1>1, <3>1, <3>2, DoneGood
    <3>4. Passes(q, p)
      BY <1>2, <3>2, <3>3 DEF Passes
    <3> QED BY <2>1, <3>4 DEF p
  <2>2. CASE \E k \in rpkept' :
               Becomes(r, [Follows(q, k) EXCEPT !.pc = IF k.remote THEN "remote" ELSE "load"])
    <3>1. PICK k \in rpkept' :
                 Becomes(r, [Follows(q, k) EXCEPT !.pc = IF k.remote THEN "remote" ELSE "load"])
      BY <2>2
    <3> DEFINE p == [Follows(q, k) EXCEPT !.pc = IF k.remote THEN "remote" ELSE "load"]
    <3>2. p = [Follows(q, k) EXCEPT !.pc = IF k.remote THEN "remote" ELSE "load",
                                    !.forwards = IF k.remote \/ q.pc = "operation" THEN @ ELSE @ + 1]
      BY <1>1, <1>2 DEF Follows, Typed, Fields
    <3> HIDE DEF p
    <3>3. Passes(q, p)
      BY <1>1, <3>2, FollowsPasses
    <3> QED BY <3>1, <3>3 DEF p
  <2> QED BY <2>1, <2>2 DEF handleVLLMResponseOperation
<1>4. Kept' /\ \A k \in rpkept' : k.lease => k \in rpkept \/ ~rpserver.switching
  BY <1>1, KeptShrinks DEF RpInv
<1> QED BY <1>1, <1>3, <1>4, SharedKept DEF RpInv

LEMMA JobKeeps ==
  ASSUME RpInputs, RpInv, NEW r \in RpRequests, forwardTrackedSdcppJob(r)
  PROVE  RpInv'
<1> DEFINE q == rq[r]
<1>1. /\ Good(q) /\ q.pc = "job" /\ q.pc \in BeforePcs /\ rpserver' = rpserver /\ rpkept' \subseteq rpkept
  BY DEF forwardTrackedSdcppJob, At, RpInv, BeforePcs
<1>2. Typed(q) /\ Before(q) /\ q.pc \notin Switching
  BY <1>1, GoodBefore
<1>3. \E p : Becomes(r, p) /\ Passes(q, p)
  <2>1. CASE Becomes(r, [q EXCEPT !.pc = "active"])
    <3> DEFINE p == [q EXCEPT !.pc = "active"]
    <3>1. /\ Typed(p) /\ p.pc = "active"
          /\ /\ p.shape = q.shape /\ p.config = q.config /\ p.redirected = q.redirected
             /\ p.remote = q.remote /\ p.route = q.route /\ p.entry = q.entry /\ p.lease = q.lease
             /\ p.attempt = q.attempt /\ p.result = q.result /\ p.generated = q.generated
             /\ p.body = q.body /\ p.forwards = q.forwards /\ p.events = q.events
      BY <1>2 DEF Typed, Fields
    <3> HIDE DEF p
    <3>2. q.shape.path # "options"
      BY <1>1, <1>2 DEF Before, Placed, Belongs
    <3>3. Placed(p)
      BY <1>1, <1>2, <3>1, <3>2 DEF Before, Placed, Belongs
    <3>4. Before(p)
      BY <1>1, <1>2, <3>1, <3>3 DEF Before, BeforePcs
    <3>5. Passes(q, p)
      BY <1>2, <3>1, <3>4, BeforePasses
    <3> QED BY <2>1, <3>5 DEF p
  <2>2. CASE \E k \in rpkept' :
               Becomes(r, [Follows(q, k) EXCEPT !.pc = IF k.remote THEN "remote" ELSE "load",
                                                !.forwards = IF k.remote THEN @ ELSE @ + 1])
    <3>1. PICK k \in rpkept' :
               Becomes(r, [Follows(q, k) EXCEPT !.pc = IF k.remote THEN "remote" ELSE "load",
                                                !.forwards = IF k.remote THEN @ ELSE @ + 1])
      BY <2>2
    <3> DEFINE p == [Follows(q, k) EXCEPT !.pc = IF k.remote THEN "remote" ELSE "load",
                                          !.forwards = IF k.remote THEN @ ELSE @ + 1]
    <3>2. p = [Follows(q, k) EXCEPT !.pc = IF k.remote THEN "remote" ELSE "load",
                                    !.forwards = IF k.remote \/ q.pc = "operation" THEN @ ELSE @ + 1]
      BY <1>1
    <3> HIDE DEF p
    <3>3. Passes(q, p)
      BY <1>1, <3>2, FollowsPasses
    <3> QED BY <3>1, <3>3 DEF p
  <2> QED BY <2>1, <2>2 DEF forwardTrackedSdcppJob
<1>4. Kept' /\ \A k \in rpkept' : k.lease => k \in rpkept \/ ~rpserver.switching
  BY <1>1, KeptShrinks DEF RpInv
<1> QED BY <1>1, <1>3, <1>4, SharedKept DEF RpInv

\* Nothing but the store and whether the backend lives changes with no request.
LEMMA RestKeeps ==
  ASSUME RpInputs, RpInv,
         Tick \/ cleanupExpired \/ closeResponseStore \/ BackendDies \/ UNCHANGED rpvars
  PROVE  RpInv'
<1>1. rq' = rq /\ rpkept' \subseteq rpkept
  BY DEF Tick, cleanupExpired, closeResponseStore, BackendDies, rpvars
<1>2. /\ DOMAIN rpserver' = {"config", "switching", "epoch", "alive"} /\ rpserver'.epoch = rpserver.epoch
      /\ rpserver'.switching = rpserver.switching /\ rpserver'.config = rpserver.config
      /\ rpserver'.alive \in BOOLEAN
  <2>1. CASE rpserver' = rpserver
    BY <2>1 DEF RpInv, Shared
  <2>2. CASE BackendDies
    BY <2>2 DEF RpInv, Shared, BackendDies
  <2> QED BY <2>1, <2>2 DEF Tick, cleanupExpired, closeResponseStore, rpvars
<1>3. Kept'
  BY <1>1, <1>2, KeptShrinks DEF RpInv
<1>4. Shared'
  BY <1>1, <1>2 DEF RpInv, Shared
<1> QED BY <1>1, <1>3, <1>4 DEF RpInv

-----------------------------------------------------------------------------
(* The invariant.                                                          *)

LEMMA RequestKeeps ==
  ASSUME RpInputs, RpInv, NEW r \in RpRequests, ClientLeaves(r) \/ RequestStep(r)
  PROVE  RpInv'
<1>1. Good(rq[r])
  BY DEF RpInv
<1>2. CASE Choosing(r) \/ Routing(r) \/ Serving(r) \/ ClientLeaves(r) \/ Writing(r)
  <2>1. Stepped(r)
    BY <1>1, <1>2, ChoosingSteps, RoutingSteps, ServingSteps, WritingSteps
  <2> QED BY <2>1, SteppedKeeps
<1>3. CASE acquireModelConfig(r) \/ loadModelConfig(r) \/ reloadHeldModelConfig(r) \/ finishReload(r)
  BY <1>3, AcquireKeeps, LoadKeeps, ReloadKeeps
<1>4. CASE \/ rememberResponse(r) \/ rememberJob(r) \/ forgetResponse(r)
           \/ handleVLLMResponseOperation(r) \/ forwardTrackedSdcppJob(r)
  BY <1>4, RememberResponseKeeps, RememberJobKeeps, ForgetKeeps, OperationKeeps, JobKeeps
<1> QED BY <1>2, <1>3, <1>4 DEF RequestStep, Forwarding, Answering, Serving, Writing

LEMMA RpInvInitially ==
  ASSUME RpInputs, RpInit
  PROVE  RpInv
<1>1. PICK shapes \in [RpRequests -> UNION {RpShapes[r] : r \in RpRequests}] :
        /\ \A r \in RpRequests : shapes[r] \in RpShapes[r]
        /\ rq = [r \in RpRequests |->
                 [shape |-> shapes[r], config |-> shapes[r].config, pc |-> "idle",
                  redirected |-> FALSE, remote |-> FALSE, route |-> FALSE, entry |-> "none",
                  lease |-> FALSE, attempt |-> 0, result |-> "none", skip |-> FALSE,
                  recovered |-> FALSE, generated |-> 0, body |-> "none", kept |-> FALSE,
                  forwards |-> 0, events |-> 0, gone |-> FALSE, about |-> "none", answer |-> "none"]]
  BY DEF RpInit
<1>2. ASSUME NEW r \in RpRequests
      PROVE  Good(rq[r]) /\ ~rq[r].lease /\ rq[r].pc \notin Switching
  <2>1. shapes[r] \in Shapes
    BY <1>1 DEF RpInputs
  <2>2. /\ Typed(rq[r]) /\ rq[r].pc = "idle" /\ ~rq[r].redirected /\ ~rq[r].remote /\ ~rq[r].route
        /\ rq[r].entry = "none" /\ ~rq[r].lease /\ rq[r].attempt = 0 /\ rq[r].result = "none"
        /\ rq[r].generated = 0 /\ rq[r].body = "none" /\ rq[r].forwards = 0 /\ rq[r].events = 0
    BY <1>1, <2>1 DEF Typed, Fields
  <2>3. Placed(rq[r])
    BY <2>2 DEF Placed, Belongs
  <2>4. Before(rq[r])
    BY <2>2, <2>3 DEF Before, BeforePcs
  <2> QED BY <2>2, <2>4, BeforeGood
<1>3. rq = [r \in RpRequests |-> rq[r]]
  BY <1>1
<1>4. /\ DOMAIN rpserver = {"config", "switching", "epoch", "alive"} /\ rpserver.epoch \in Nat
      /\ ~rpserver.switching /\ rpserver.switching \in BOOLEAN /\ rpserver.alive \in BOOLEAN
  BY DEF RpInit
<1>5. Shared
  <2>1. \A r \in RpRequests : ~rq[r].lease /\ rq[r].pc \notin Switching
    BY <1>2
  <2> QED BY <1>4, <2>1 DEF Shared
<1>6. rpkept = {}
  BY DEF RpInit
<1>7. ASSUME NEW path \in {"responses", "jobs"}
      PROVE  Cardinality({k \in rpkept : k.path = path}) <= RpKeepLimit
  <2>1. {k \in rpkept : k.path = path} = {}
    BY <1>6
  <2>2. Cardinality({k \in rpkept : k.path = path}) = 0
    BY <2>1, FS_EmptySet
  <2> QED BY <2>2 DEF RpInputs
<1>8. Kept
  BY <1>6, <1>7, FS_EmptySet DEF Kept
<1> QED BY <1>2, <1>3, <1>5, <1>8 DEF RpInv

LEMMA RpInvInductive ==
  ASSUME RpInputs, RpInv, [RpNext]_rpvars
  PROVE  RpInv'
BY RequestKeeps, RestKeeps DEF RpNext

\* However requests, the clock and the death of the backend interleave, for any
\* requests and any budgets of retries, RpInv holds.
THEOREM RpInvariant == RpInputs => (RpSpec => []RpInv)
<1> SUFFICES ASSUME RpInputs PROVE RpSpec => []RpInv
  OBVIOUS
<1>1. RpInit => RpInv
  BY RpInvInitially
<1>2. RpInv /\ [RpNext]_rpvars => RpInv'
  BY RpInvInductive
<1> QED BY <1>1, <1>2, PTL DEF RpSpec

-----------------------------------------------------------------------------
(* What it says.                                                           *)

\* What each request keeps to on its own.
LEMMA EachIsSafe ==
  ASSUME RpInv
  PROVE  NothingIsLeftHeld /\ EventPerForwarding /\ GenerationsAreBounded /\ TakeoverHoldsNothing /\ BorrowedStays
<1> SUFFICES ASSUME NEW r \in RpRequests
             PROVE  /\ rq[r].pc = "done" => ~rq[r].route /\ ~rq[r].lease /\ rq[r].entry = "none"
                    /\ rq[r].pc = "done" => rq[r].events = rq[r].forwards
                    /\ rq[r].generated <= RpInference + 1 /\ rq[r].attempt <= RpReadiness
                    /\ rq[r].pc = "takeover" =>
                         /\ ~rq[r].redirected /\ rq[r].shape.borrowed = "no"
                         /\ ~rq[r].route /\ ~rq[r].lease /\ rq[r].entry = "none"
                    /\ rq[r].shape.borrowed # "no" => rq[r].body \notin {"remote", "lent"}
  BY DEF NothingIsLeftHeld, EventPerForwarding, GenerationsAreBounded, TakeoverHoldsNothing, BorrowedStays
<1>1. Good(rq[r])
  BY DEF RpInv
<1>2. rq[r].pc \in {"done", "takeover"} => ~rq[r].route /\ ~rq[r].lease /\ rq[r].entry = "none"
  BY <1>1 DEF Good, Holds, Session, Retrying, Answer
<1>3. rq[r].pc = "done" => rq[r].events = rq[r].forwards
  <2> SUFFICES ASSUME rq[r].pc = "done" PROVE rq[r].events = rq[r].forwards
    OBVIOUS
  <2>1. Owed(rq[r]) = 0
    BY DEF Owed, Session, Retrying, Answer
  <2> QED BY <1>1, <2>1 DEF Good, Typed
<1>4. rq[r].generated <= RpInference + 1 /\ rq[r].attempt <= RpReadiness
  BY <1>1 DEF Good, Counted
<1>5. rq[r].pc = "takeover" => ~rq[r].redirected /\ rq[r].shape.borrowed = "no"
  BY <1>1 DEF Good, Placed, Belongs
<1>6. rq[r].shape.borrowed # "no" => rq[r].body \notin {"remote", "lent"}
  BY <1>1 DEF Good, Sourced
<1> QED BY <1>2, <1>3, <1>4, <1>5, <1>6

\* What the requests keep to between them.
LEMMA SharedIsSafe ==
  ASSUME RpInv
  PROVE  ServedByItsConfig /\ SwitchIsAlone /\ KeptIsSound
<1>1. ServedByItsConfig
  <2> SUFFICES ASSUME NEW r \in RpRequests,
                      \/ rq[r].pc \in {"forward", "recover", "reload", "reloading", "wait", "again"}
                      \/ rq[r].pc \in {"answered", "track", "relay"} /\ rq[r].body = "local"
               PROVE  rq[r].lease /\ rpserver.config = rq[r].config
    BY DEF ServedByItsConfig
  <2>1. Good(rq[r])
    BY DEF RpInv
  <2>2. rq[r].lease
    BY <2>1 DEF Good, Holds, Session, Retrying
  <2> QED BY <2>2 DEF RpInv, Shared
<1>2. SwitchIsAlone
  <2> DEFINE switchers == {r \in RpRequests : rq[r].pc \in {"loading", "reloading"}}
  <2>1. rpserver.switching <=> switchers # {}
    BY DEF RpInv, Shared, Switching
  <2>2. \A r \in switchers : switchers = {r}
    BY DEF RpInv, Shared, Switching
  <2>3. Cardinality(switchers) <= 1
    <3>1. CASE switchers = {}
      <4>1. Cardinality(switchers) = 0
        BY <3>1, FS_EmptySet
      <4> QED BY <4>1
    <3>2. CASE \E r : r \in switchers
      <4>1. Cardinality(switchers) = 1
        BY <2>2, <3>2, FS_Singleton
      <4> QED BY <4>1
    <3> QED BY <3>1, <3>2
  <2>4. \A r \in switchers : /\ \A k \in rpkept : ~k.lease
                             /\ \A other \in RpRequests : rq[other].lease => other = r
    BY DEF RpInv, Shared, Switching
  <2> QED BY <2>1, <2>3, <2>4 DEF SwitchIsAlone
<1>3. KeptIsSound
  BY DEF RpInv, Kept, KeptIsSound
<1> QED BY <1>1, <1>2, <1>3

\* However the requests, the clock, the closing of the store and the deaths of
\* the backend interleave, for any number of requests of any shapes and any
\* budgets of retries: a request that returned holds no route, no lease and no
\* queue entry and left one event for each forwarding; whoever is served is
\* served by its own config; no switch runs under a lease of another; retries
\* are within their budgets; a guardian is asked with nothing held; borrowed
\* work stays; and the remembered answers are bounded and their leases sound.
THEOREM RequestPathIsSafe == RpInputs => (RpSpec => []RequestPathSafe)
<1> SUFFICES ASSUME RpInputs PROVE RpSpec => []RequestPathSafe
  OBVIOUS
<1>1. RpSpec => []RpInv
  BY RpInvariant
<1>2. RpInv => RequestPathSafe
  <2> SUFFICES ASSUME RpInv PROVE RequestPathSafe
    OBVIOUS
  <2>1. RpTypeOK
    BY DEF RpInv, Shared, Good, Typed, RpTypeOK
  <2> QED BY <2>1, EachIsSafe, SharedIsSafe DEF RequestPathSafe
<1> QED BY <1>1, <1>2, PTL

=============================================================================
