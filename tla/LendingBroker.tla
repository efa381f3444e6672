--------------------------- MODULE LendingBroker ---------------------------
(***************************************************************************)
(* The master's side of lending: the links an operator declares and the    *)
(* settings that govern them, their publication to the slaves, the plan    *)
(* that leases a helper to an owner, the queue events that ask for a plan, *)
(* and the relay of a lent request to the helper the master's book names.  *)
(* One lane, one model per node: the lanes are planned one after the other *)
(* with a fresh set of claims each, so they do not meet here.              *)
(* The owner's queue itself is module LendingQueue; here a request only    *)
(* waits, is withdrawn under a lease, is checked, sent, relayed and ends.  *)
(***************************************************************************)
EXTENDS Naturals, FiniteSets, SequencesExt

CONSTANTS
    LbMaster, LbSlaves,     \* node ids; every node may own and may help
    LbLinks,                \* the links an operator may declare: [o, h, load]
    LbStored,               \* those in the store when the nodes start
    LbReqs,                 \* request ids
    LbReqOwners, LbReqSize, \* the owners a request may have and the context it needs (0: no estimate)
    LbWindow,               \* context capacity of a node's model
    LbRank,                 \* the order of node ids
    LbJob, LbService,       \* fitted time of a job on a node as owner, as helper (0: unpriced)
    LbLoad, LbRestore,      \* load time of the helper's model (0: unpriced), of what it displaces
    LbRestoreUnpriced,      \* nodes that displace a config without a measured load
    LbSwitches,             \* nodes whose model runs on another backend family
    LbProbeIdle, LbUnloadedFactor, LbMaxIdle,  \* idle time in clock steps
    LbTtl,                  \* scheduling_grant_ttl in clock steps
    LbSlots,                \* [faster, slower, probe]
    LbMaxEdits, LbMaxSettings, LbMaxBusy, LbMaxRestarts, LbMaxLosses  \* bounds on the environment

VARIABLES
    lb,   \* master: [store, db, set, book (planned), issued, plan (in progress), tick]
    lbn,  \* per node: [idx, set, lease, acc, loaded, idle] as the node itself holds them
    lbe,  \* per owner: the coalescer of its queue events
    lbr,  \* per request: where it is, the helper it was checked for and relayed to
    lbx   \* grants and edits under way and the bounds used up; `left` is ghost

lbvars == <<lb, lbn, lbe, lbr, lbx>>

LbNodes == LbSlaves \union {LbMaster}
NoLease == [h |-> "none", load |-> FALSE, slots |-> 0, probe |-> FALSE, ttl |-> 0]
NoPlan == [on |-> FALSE, for |-> "none", pend |-> {}, back |-> {}, st |-> <<>>]
NoTick == [at |-> "idle", links |-> {}]
(* owed, ghost: an event no plan has seen yet; lost, ghost: its delivery   *)
(* failed with none kept behind it.                                        *)
IdleReports == [run |-> FALSE, again |-> FALSE, stage |-> "none", answer |-> NoLease,
                owed |-> FALSE, lost |-> FALSE]

Init ==
    /\ lb = [store |-> LbStored, db |-> 0, set |-> 0, planned |-> [n \in LbNodes |-> NoLease],
             issued |-> [n \in LbNodes |-> NoLease], plan |-> NoPlan, tick |-> NoTick, probe |-> FALSE]
    /\ lbn = [n \in LbNodes |-> [idx |-> {}, set |-> 0, lease |-> NoLease,
                                 acc |-> TRUE, loaded |-> FALSE, idle |-> 0]]
    /\ lbe = [n \in LbNodes |-> IdleReports]
    /\ \E f \in [LbReqs -> LbNodes] :
        /\ \A r \in LbReqs : f[r] \in LbReqOwners[r]
        /\ lbr = [r \in LbReqs |-> [o |-> f[r], st |-> "new", chk |-> "none", h |-> "none", may |-> FALSE, did |-> FALSE]]
    /\ lbx = [grants |-> {}, edits |-> 0, busy |-> 0, restarts |-> 0, losses |-> 0, admin |-> {}, saving |-> {},
              left |-> [l \in LbLinks |-> 0]]

-----------------------------------------------------------------------------
(* The index of the links and the requests of an owner's queue.            *)

lendTargets(n) == {l \in lbn[n].idx : l.o = n}

isLinked(n) == \E l \in lbn[n].idx : n \in {l.o, l.h}

Waiting(o) == {r \in LbReqs : lbr[r].o = o /\ lbr[r].st = "wait"}
Lent(o) == {r \in LbReqs : lbr[r].o = o /\ lbr[r].st \in {"lent", "sent", "relayed"}}


(* An event asks the master for a decision: at most one decision is in     *)
(* flight per owner and at most one event is kept behind it.               *)
Report(e, o) == [e EXCEPT ![o] = IF @.run THEN [@ EXCEPT !.again = TRUE, !.owed = TRUE]
                                 ELSE [@ EXCEPT !.run = TRUE, !.stage = "ask", !.owed = TRUE, !.lost = FALSE]]

reportQueueEvent(e, o, waiting, lent) ==
    IF lendTargets(o) = {} \/ (waiting = {} /\ lent = {}) THEN e ELSE Report(e, o)

-----------------------------------------------------------------------------
(* Pricing.                                                                *)

SetMax(S) == CHOOSE x \in S : \A y \in S : y <= x

ownerDemandFor(o, pend, back) ==
    [o |-> o, ctx |-> SetMax({0} \union {LbReqSize[r] : r \in pend}),
     priced |-> LbJob[o] > 0, job |-> LbJob[o], keep |-> Cardinality(back) * LbJob[o]]

helperWindowHolds(h, ctx) == ctx = 0 \/ LbWindow[h] >= ctx

helperIneligibility(l, st, claimed, ctx) ==
    CASE ~st[l.h].acc                     -> "helper_not_accepting"
      [] l.h \in claimed                  -> "helper_claimed"
      [] ~st[l.h].loaded /\ ~l.load       -> "load_forbidden"
      [] ~helperWindowHolds(l.h, ctx)     -> "context_too_small"
      [] OTHER                            -> "none"

offloadSwitchMS(h, st) == IF st[h].loaded THEN 0 ELSE LbLoad[h]
offloadRestoreMS(h, st) == IF st[h].loaded THEN 0 ELSE LbRestore[h]
helperServiceMS(h, d) == IF LbService[h] > 0 THEN LbService[h] ELSE d.job

helperStillNeedsItsOwnModel(h, st) ==
    ~st[h].loaded /\ st[h].idle < offloadSwitchMS(h, st) + offloadRestoreMS(h, st)

evaluateHelper(l, st, claimed, d) ==
    LET why      == helperIneligibility(l, st, claimed, d.ctx)
        unpriced == \/ ~st[l.h].loaded /\ (LbLoad[l.h] = 0 \/ l.h \in LbRestoreUnpriced)
                    \/ LbService[l.h] = 0 /\ ~d.priced
        recent   == why = "none" /\ ~unpriced /\ helperStillNeedsItsOwnModel(l.h, st)
    IN [l |-> l, may |-> why = "none" /\ ~recent, priced |-> why = "none" /\ ~recent /\ ~unpriced,
        total |-> offloadSwitchMS(l.h, st) + offloadRestoreMS(l.h, st) + helperServiceMS(l.h, d),
        service |-> helperServiceMS(l.h, d), idle |-> st[l.h].idle]

cheapestPayingHelper(evals, d) ==
    LET paying == {e \in evals : d.priced /\ e.priced /\ e.total < d.keep}
    IN {e \in paying : \A f \in paying \ {e} :
            e.total < f.total \/ (e.total = f.total /\ LbRank[e.l.h] < LbRank[f.l.h])}

probeIdleBar(h, st) == IF st[h].loaded THEN LbProbeIdle ELSE LbProbeIdle * LbUnloadedFactor

longestIdleHelper(evals, st) ==
    LET probed == {e \in evals : e.may /\ e.l.h \notin LbSwitches /\ e.idle >= probeIdleBar(e.l.h, st)}
    IN {e \in probed : \A f \in probed \ {e} :
            e.idle > f.idle \/ (e.idle = f.idle /\ LbRank[e.l.h] < LbRank[f.l.h])}

forHelper(e, d, probe) ==
    IF probe THEN LbSlots.probe ELSE IF e.service <= d.job THEN LbSlots.faster ELSE LbSlots.slower

(* The links of an owner whose helper is known and reachable.              *)
lendingLinks(o, p, index) == {k \in index : k.o = o /\ k.h \in DOMAIN p.st}

(* The lease one owner gets out of a plan, or none.                        *)
planOwner(o, p, claimed, index) ==
    LET d     == ownerDemandFor(o, {r \in p.pend : lbr[r].o = o}, {r \in p.back : lbr[r].o = o})
        evals == {evaluateHelper(l, p.st, claimed, d) : l \in lendingLinks(o, p, index)}
        pay   == cheapestPayingHelper(evals, d)
        idle  == longestIdleHelper(evals, p.st)
        grant(e, probe) == [h |-> e.l.h, load |-> e.l.load, slots |-> forHelper(e, d, probe),
                            probe |-> probe, ttl |-> LbTtl]
    IN IF pay # {} THEN grant(CHOOSE e \in pay : TRUE, FALSE)
       ELSE IF idle # {} THEN grant(CHOOSE e \in idle : TRUE, TRUE)
       ELSE NoLease

ownersWithPendingWork(p, index) ==
    LET owners == {o \in DOMAIN p.st : (\E l \in index : l.o = o) /\ (\E r \in p.pend : lbr[r].o = o)}
        size(o) == Cardinality({r \in p.back : lbr[r].o = o})
    IN SetToSortSeq(owners, LAMBDA x, y : size(x) > size(y) \/ (size(x) = size(y) /\ LbRank[x] < LbRank[y]))

claims(leases) == {leases[n].h : n \in {k \in LbNodes : leases[k] # NoLease}}

planOffloadLeases(p, index) ==
    FoldLeft(LAMBDA acc, o : [acc EXCEPT ![o] = planOwner(o, p, claims(acc), index)],
             [n \in LbNodes |-> NoLease], ownersWithPendingWork(p, index))

(* The book: what is not replanned is no longer live, but what was issued  *)
(* stays good for relaying until it expires.                               *)
Replace(b, leases) ==
    [b EXCEPT !.planned = leases,
              !.issued = [n \in LbNodes |-> IF leases[n] # NoLease THEN leases[n]
                                            ELSE IF @[n].ttl = 0 THEN NoLease ELSE @[n]]]

-----------------------------------------------------------------------------
(* Planning: statuses are collected under planMu, then the plan is made    *)
(* and delivered.                                                          *)

Lost(reached) == IF reached = LbSlaves THEN lbx.losses ELSE lbx.losses + 1

offloadCandidateFor(n) == [acc |-> lbn[n].acc, loaded |-> lbn[n].loaded, idle |-> lbn[n].idle]

(* A slave whose status could not be fetched is no candidate of this plan; *)
(* of the others it sees all that was queued before.                       *)
Collect(for, e) ==
    /\ ~lb.plan.on
    /\ \E reached \in SUBSET LbSlaves :
        /\ Lost(reached) <= LbMaxLosses
        /\ lbx' = [lbx EXCEPT !.losses = Lost(reached)]
        /\ lbe' = [n \in LbNodes |-> IF n \in reached \union {LbMaster, for}
                                     THEN [e[n] EXCEPT !.owed = FALSE, !.lost = FALSE] ELSE e[n]]
        /\ lb' = [lb EXCEPT !.tick = IF for = "tick" THEN NoTick ELSE @, !.probe = @ /\ for # "probe", !.plan =
            [on |-> TRUE, for |-> for,
             pend |-> {r \in LbReqs : lbr[r].st = "wait"}, back |-> {r \in LbReqs : lbr[r].st \in {"wait", "run"}},
             st |-> [n \in reached \union {LbMaster} |-> offloadCandidateFor(n)]]]

(* The decision asked for by owner o begins.                               *)
decideOnQueueEvent(o) ==
    /\ lbe[o].run /\ lbe[o].stage = "ask"
    /\ Collect(o, [lbe EXCEPT ![o].stage = "planning"])
    /\ UNCHANGED <<lbn, lbr>>

installRoutingLinks(n, links) == [n EXCEPT !.idx = links]

\* Mutant: links are installed at the master only.
publishNothing(ns, links, reached) ==
    [n \in LbNodes |-> IF n = LbMaster THEN installRoutingLinks(ns[n], links) ELSE ns[n]]

publishRoutingLinks(ns, links, reached) ==
    [n \in LbNodes |-> IF n = LbMaster \/ n \in reached THEN installRoutingLinks(ns[n], links) ELSE ns[n]]

publishLendingSettings(ns, value, reached) ==
    [n \in LbNodes |-> IF n \in reached THEN [ns[n] EXCEPT !.set = value] ELSE ns[n]]

(* What the master's index held is remembered for as long as a lease lives. *)
Kept(left, links) == [l \in LbLinks |-> IF l \in links THEN LbTtl ELSE left[l]]

(* The refresh tick reads the stored links.                                *)
storedRoutingLinks ==
    /\ lb.tick.at = "idle"
    /\ lb' = [lb EXCEPT !.tick = [at |-> "read", links |-> lb.store]]
    /\ UNCHANGED <<lbn, lbe, lbr, lbx>>

(* It installs and publishes what it read, whatever was stored or          *)
(* installed since, and the settings, then waits for planMu to plan.       *)
refreshOffloadPlan ==
    /\ lb.tick.at = "read"
    /\ \E reached \in SUBSET LbSlaves :
        /\ Lost(reached) <= LbMaxLosses
        /\ lbn' = publishLendingSettings(publishRoutingLinks(lbn, lb.tick.links, reached), lb.set, reached)
        /\ lbx' = [lbx EXCEPT !.losses = Lost(reached), !.left = Kept(@, lb.tick.links)]
    /\ lb' = [lb EXCEPT !.tick = [at |-> "due", links |-> {}]]
    /\ UNCHANGED <<lbe, lbr>>

planOnTick == lb.tick.at = "due" /\ UNCHANGED <<lbn, lbr>> /\ Collect("tick", lbe)

(* The timer armed for the soonest probe a plan held back.                 *)
replanWhenProbeIsDue == lb.probe /\ Collect("probe", lbe) /\ UNCHANGED <<lbn, lbr>>

soonestProbeFor(o, p, claimed, index) ==
    \E l \in lendingLinks(o, p, index) :
        /\ helperIneligibility(l, p.st, claimed, ownerDemandFor(o, {r \in p.pend : lbr[r].o = o}, {}).ctx) = "none"
        /\ l.h \notin LbSwitches /\ p.st[l.h].idle < probeIdleBar(l.h, p.st)

(* planNow from the collected statuses to the grants sent: the owner that  *)
(* asked gets its answer inline, the others a grant each, the master its   *)
(* own at once.                                                            *)
planNow ==
    /\ lb.plan.on /\ UNCHANGED <<lbn, lbr>>
    /\ \E index \in {lbn[LbMaster].idx} : \E leases \in {planOffloadLeases(lb.plan, index)} :
       LET for == lb.plan.for
       IN /\ lb' = [Replace(lb, leases) EXCEPT !.plan = NoPlan,
                    !.probe = \E o \in ToSet(ownersWithPendingWork(lb.plan, index)) :
                        leases[o] = NoLease /\ soonestProbeFor(o, lb.plan, claims(leases), index)]
          /\ lbx' = [lbx EXCEPT !.grants = @ \union
                        {<<o, leases[o]>> : o \in {n \in LbNodes \ {for} : leases[n] # NoLease}}]
          /\ lbe' = IF for \in LbNodes
                    THEN [lbe EXCEPT ![for].stage = "answered", ![for].answer = leases[for]]
                    ELSE lbe

(* WithdrawNewest up to the slots of the lease, over those already lent.   *)
maybeOffload(o, lease, R) ==
    LET room == lease.slots - Cardinality(Lent(o))
    IN {S \in SUBSET R : Cardinality(S) = IF room <= 0 THEN 0
                                          ELSE IF room < Cardinality(R) THEN room ELSE Cardinality(R)}

(* acceptOffloadLease refuses a lease its own index does not justify.      *)
acceptOffloadLease(o, lease) ==
    IF lendTargets(o) = {}
    THEN /\ lbn' = [lbn EXCEPT ![o].lease = NoLease]
         /\ UNCHANGED lbr
    ELSE /\ lbn' = [lbn EXCEPT ![o].lease = [lease EXCEPT !.ttl = LbTtl]]
         /\ \E S \in maybeOffload(o, lease, {r \in Waiting(o) : ~lbr[r].did}) :
                lbr' = [r \in LbReqs |-> IF r \in S THEN [lbr[r] EXCEPT !.st = "lent"] ELSE lbr[r]]

handleNodeOffloadGrant(g) ==
    /\ lbx' = [lbx EXCEPT !.grants = @ \ {g}]
    /\ acceptOffloadLease(g[1], g[2])
    /\ UNCHANGED <<lb, lbe>>

GrantLost(g) ==
    /\ g[1] # LbMaster /\ lbx.losses < LbMaxLosses
    /\ lbx' = [lbx EXCEPT !.grants = @ \ {g}, !.losses = @ + 1]
    /\ UNCHANGED <<lb, lbn, lbe, lbr>>

Drained(e) == IF e.again THEN [e EXCEPT !.again = FALSE, !.stage = "ask", !.answer = NoLease]
              ELSE [IdleReports EXCEPT !.owed = e.owed, !.lost = e.lost]

(* The answer reaches the owner: a lease replaces the one it holds, no     *)
(* lease ends it; then the coalescer takes the event kept behind.          *)
applyDecidedLease(o) ==
    /\ lbe[o].stage = "answered"
    /\ lbe' = [lbe EXCEPT ![o] = Drained(@)]
    /\ IF lbe[o].answer # NoLease THEN acceptOffloadLease(o, lbe[o].answer)
       ELSE /\ lbn' = [lbn EXCEPT ![o].lease = NoLease]
            /\ UNCHANGED lbr
    /\ UNCHANGED <<lb, lbx>>

(* The event does not reach the master, or its answer not the owner: the   *)
(* owner does not send it again, and a plan already begun has nobody to    *)
(* answer.                                                                 *)
EventUndelivered(o) ==
    /\ o \in LbSlaves /\ lbe[o].run /\ lbx.losses < LbMaxLosses
    /\ lbe' = [lbe EXCEPT ![o] = Drained([@ EXCEPT !.lost = lbe[o].owed /\ ~lbe[o].again])]
    /\ lb' = [lb EXCEPT !.plan = IF @.for = o THEN [@ EXCEPT !.for = "gone"] ELSE @]
    /\ lbx' = [lbx EXCEPT !.losses = @ + 1]
    /\ UNCHANGED <<lbn, lbr>>

-----------------------------------------------------------------------------
(* Requests of the owner.                                                  *)

enterQueue(r) ==
    LET o == lbr[r].o
    IN /\ lbr[r].st = "new"
       /\ isLinked(o)
       /\ lbr' = [lbr EXCEPT ![r].st = "wait"]
       /\ lbe' = reportQueueEvent(lbe, o, Waiting(o) \union {r}, Lent(o))
       /\ UNCHANGED <<lb, lbn, lbx>>

Admit(r) ==
    /\ lbr[r].st = "wait"
    /\ lbr' = [lbr EXCEPT ![r].st = "run"]
    /\ UNCHANGED <<lb, lbn, lbe, lbx>>

completeQueueEntry(r) ==
    LET o == lbr[r].o
    IN /\ lbr[r].st = "run"
       /\ lbr' = [lbr EXCEPT ![r].st = "done"]
       /\ lbe' = reportQueueEvent(lbe, o, Waiting(o), Lent(o))
       /\ UNCHANGED <<lb, lbn, lbx>>

(* finishOffload: the request leaves the book of lent requests; what was   *)
(* handed back waits again, pinned to its owner.                           *)
finishOffload(r, served) ==
    LET o == lbr[r].o
    IN /\ lbr' = [lbr EXCEPT ![r] = [@ EXCEPT !.st = IF served THEN "done" ELSE "wait",
                                              !.did = TRUE, !.h = "none", !.may = FALSE, !.chk = "none"]]
       /\ lbe' = reportQueueEvent(lbe, o, Waiting(o), Lent(o) \ {r})

(* The owner weighs a withdrawn request against the lease it holds now.    *)
lentTextRequestMisfit(r) ==
    LET lease == lbn[lbr[r].o].lease
    IN lease.ttl = 0 \/ ~helperWindowHolds(lease.h, LbReqSize[r])

serveWithdrawnTextRequest(r) ==
    /\ lbr[r].st = "lent"
    /\ IF lentTextRequestMisfit(r) THEN finishOffload(r, FALSE)
       ELSE /\ lbr' = [lbr EXCEPT ![r].st = "sent", ![r].chk = lbn[lbr[r].o].lease.h]
            /\ UNCHANGED lbe
    /\ UNCHANGED <<lb, lbn, lbx>>

(* The master relays to the helper of the lease it last issued to the      *)
(* owner, and refuses without a live one; the permission to load travels   *)
(* with the request.                                                       *)
handleNodeOffloadRequest(r) ==
    LET lease == lb.issued[lbr[r].o]
    IN /\ lbr[r].st = "sent"
       /\ IF lease.ttl = 0 THEN finishOffload(r, FALSE)
          ELSE /\ lbr' = [lbr EXCEPT ![r].st = "relayed", ![r].h = lease.h, ![r].may = lease.load]
               /\ UNCHANGED lbe
       /\ UNCHANGED <<lb, lbn, lbx>>

(* The helper serves it, loading its model only with permission, or hands  *)
(* it back.                                                                *)
BorrowedServed(r) ==
    LET h == lbr[r].h
    IN /\ lbr[r].st = "relayed" /\ h \in LbNodes /\ lbn[h].acc /\ (lbn[h].loaded \/ lbr[r].may)
       /\ lbn' = [lbn EXCEPT ![h].loaded = TRUE]
       /\ finishOffload(r, TRUE)
       /\ UNCHANGED <<lb, lbx>>

BorrowedReturned(r) ==
    LET h == lbr[r].h
    IN /\ lbr[r].st = "relayed" /\ (h \in LbNodes => ~lbn[h].acc \/ ~(lbn[h].loaded \/ lbr[r].may))
       /\ finishOffload(r, FALSE)
       /\ UNCHANGED <<lb, lbn, lbx>>

-----------------------------------------------------------------------------
(* The operator: links of one anchor replaced in one transaction, then     *)
(* installed and published; settings stored, read back and installed.      *)

ReplaceLinksTouching(anchor, wanted) == {l \in lb.store : anchor \notin {l.o, l.h}} \union wanted

saveRoutingLinks(anchor, wanted) ==
    LET links == ReplaceLinksTouching(anchor, wanted)
    IN /\ lbx.edits < LbMaxEdits
       /\ wanted \subseteq {l \in LbLinks : anchor \in {l.o, l.h} /\ l.o # l.h}
       /\ \A l, k \in wanted : l.o = k.o /\ l.h = k.h => l = k
       /\ links # lb.store
       /\ lb' = [lb EXCEPT !.store = links]
       /\ lbx' = [lbx EXCEPT !.edits = @ + 1, !.saving = @ \union {[id |-> lbx.edits, read |-> FALSE, links |-> {}]}]
       /\ UNCHANGED <<lbn, lbe, lbr>>

(* The handler reads the store back, which may fail, and installs and      *)
(* publishes what it read; nothing orders it with another or with a tick.  *)
readStoredLinks(s) ==
    /\ ~s.read
    /\ \E back \in {{}, {[s EXCEPT !.read = TRUE, !.links = lb.store]}} :
            lbx' = [lbx EXCEPT !.saving = (@ \ {s}) \union back]
    /\ UNCHANGED <<lb, lbn, lbe, lbr>>

installAndPublishStoredRoutingLinks(s, reached) ==
    /\ s.read /\ Lost(reached) <= LbMaxLosses
    /\ lbn' = publishRoutingLinks(lbn, s.links, reached)
    /\ lbx' = [lbx EXCEPT !.saving = @ \ {s}, !.losses = Lost(reached), !.left = Kept(@, s.links)]
    /\ UNCHANGED <<lb, lbe, lbr>>

(* One change of the settings: the store is written, the overrides are     *)
(* read back, what was read is installed and the snapshot published; two   *)
(* changes may overlap.                                                    *)
setLending ==
    /\ lb.db < LbMaxSettings
    /\ lb' = [lb EXCEPT !.db = @ + 1]
    /\ lbx' = [lbx EXCEPT !.admin = @ \union {<<lb.db + 1, 0>>}]
    /\ UNCHANGED <<lbn, lbe, lbr>>

readOverrides(a) ==
    /\ a[2] = 0
    /\ lbx' = [lbx EXCEPT !.admin = (@ \ {a}) \union {<<a[1], lb.db>>}]
    /\ UNCHANGED <<lb, lbn, lbe, lbr>>

applyDatabaseLayer(a, reached) ==
    /\ a[2] # 0 /\ Lost(reached) <= LbMaxLosses
    /\ lb' = [lb EXCEPT !.set = a[2]]
    /\ lbn' = publishLendingSettings([lbn EXCEPT ![LbMaster].set = a[2]], a[2], reached)
    /\ lbx' = [lbx EXCEPT !.admin = @ \ {a}, !.losses = Lost(reached)]
    /\ UNCHANGED <<lbe, lbr>>

-----------------------------------------------------------------------------
(* The nodes and the clock.                                                *)

OwnWork(n) ==
    /\ lbx.busy < LbMaxBusy /\ lbn[n].acc /\ \E l \in LbLinks : l.h = n
    /\ \E same \in BOOLEAN : lbn' = [lbn EXCEPT ![n] = [@ EXCEPT !.acc = FALSE, !.loaded = same, !.idle = 0]]
    /\ lbx' = [lbx EXCEPT !.busy = @ + 1]
    /\ UNCHANGED <<lb, lbe, lbr>>

OwnWorkEnds(n) ==
    /\ ~lbn[n].acc
    /\ lbn' = [lbn EXCEPT ![n].acc = TRUE]
    /\ UNCHANGED <<lb, lbe, lbr, lbx>>

(* A slave restarts: its index, settings, lease and reports are in memory. *)
SlaveRestart(n) ==
    /\ n \in LbSlaves /\ lbx.restarts < LbMaxRestarts
    /\ lbn' = [lbn EXCEPT ![n] = [@ EXCEPT !.idx = {}, !.set = 0, !.lease = NoLease,
                                           !.loaded = FALSE, !.idle = 0, !.acc = TRUE]]
    /\ lbe' = [lbe EXCEPT ![n] = IdleReports]
    /\ lbr' = [r \in LbReqs |-> IF lbr[r].o = n /\ lbr[r].st # "new"
                                THEN [lbr[r] EXCEPT !.st = "done"]
                                ELSE IF lbr[r].h = n THEN [lbr[r] EXCEPT !.h = "gone"] ELSE lbr[r]]
    /\ lb' = [lb EXCEPT !.plan = IF @.for = n THEN [@ EXCEPT !.for = "gone"] ELSE @]
    /\ lbx' = [lbx EXCEPT !.restarts = @ + 1]

Aged(lease) == IF lease.ttl <= 1 THEN NoLease ELSE [lease EXCEPT !.ttl = @ - 1]

Clock ==
    LET ns  == [n \in LbNodes |-> [lbn[n] EXCEPT !.lease = Aged(@),
                                                 !.idle = IF lbn[n].acc /\ @ < LbMaxIdle THEN @ + 1 ELSE @]]
        iss == [n \in LbNodes |-> Aged(lb.issued[n])]
        gone == [l \in LbLinks |-> IF l \in lbn[LbMaster].idx \/ lbx.left[l] = 0 THEN lbx.left[l] ELSE lbx.left[l] - 1]
    IN /\ <<ns, iss, gone>> # <<lbn, lb.issued, lbx.left>>
       /\ lbn' = ns
       /\ lb' = [lb EXCEPT !.issued = iss, !.planned = [n \in LbNodes |-> Aged(@[n])]]
       /\ lbx' = [lbx EXCEPT !.left = gone]
       /\ UNCHANGED <<lbe, lbr>>

Edit ==
    \/ \E a \in LbNodes, w \in SUBSET LbLinks : saveRoutingLinks(a, w)
    \/ \E s \in lbx.saving : readStoredLinks(s)
    \/ \E reached \in SUBSET LbSlaves, s \in lbx.saving : installAndPublishStoredRoutingLinks(s, reached)
    \/ \E reached \in SUBSET LbSlaves, a \in lbx.admin : applyDatabaseLayer(a, reached)

Decide(n) == decideOnQueueEvent(n) \/ applyDecidedLease(n) \/ EventUndelivered(n)

Serve(r) == \/ completeQueueEntry(r) \/ serveWithdrawnTextRequest(r) \/ handleNodeOffloadRequest(r)
            \/ BorrowedServed(r) \/ BorrowedReturned(r)

Deliver == \E g \in lbx.grants : handleNodeOffloadGrant(g) \/ GrantLost(g)

Next ==
    \/ \E n \in LbNodes : Decide(n) \/ OwnWork(n) \/ OwnWorkEnds(n) \/ SlaveRestart(n)
    \/ storedRoutingLinks \/ refreshOffloadPlan \/ planOnTick \/ replanWhenProbeIsDue \/ planNow \/ Deliver
    \/ setLending \/ (\E a \in lbx.admin : readOverrides(a)) \/ Edit \/ Clock
    \/ \E r \in LbReqs : enterQueue(r) \/ Admit(r) \/ Serve(r)

Spec == Init /\ [][Next]_lbvars

-----------------------------------------------------------------------------
(* Properties.                                                             *)

(* An event reported while a decision is in flight is not swallowed: until *)
(* a plan has been begun after it, the owner's reporter is running, unless *)
(* the network lost the event itself.                                      *)
EventsJudged == \A n \in LbNodes : lbe[n].owed => lbe[n].run \/ lbe[n].lost

(* The leases of one plan lend one helper to one owner.                    *)
OneOwnerPerPlan ==
    \A n, m \in LbNodes : n # m /\ lb.planned[n] # NoLease => lb.planned[n].h # lb.planned[m].h

(* However edits, ticks, plans and restarts overlap, the master relays     *)
(* only along a link its index holds or held no longer ago than a lease    *)
(* lives, and gives the permission to load only if that link allows it: a  *)
(* lease is not renewed once its link is gone.                             *)
LentAlongDeclaredLink ==
    \A o \in LbNodes : lb.issued[o] # NoLease =>
        \E l \in LbLinks : /\ l.o = o /\ l.h = lb.issued[o].h /\ (lb.issued[o].load => l.load)
                           /\ lbx.left[l] >= lb.issued[o].ttl

(* What the owner checked holds where the request goes: a helper never     *)
(* gets a request that does not fit its context window.                    *)
RelayedFits == \A r \in LbReqs : lbr[r].h \in LbNodes => helperWindowHolds(lbr[r].h, LbReqSize[r])

LendingBrokerSafe == EventsJudged /\ OneOwnerPerPlan /\ LentAlongDeclaredLink

(* Once the operator stops and nothing more is lost, every node ends up    *)
(* with the stored links and the master's settings, no lease of a removed  *)
(* link stays live, at its owner or in the master's book, and no event     *)
(* waits for a plan, the lost ones included.                               *)
Settled ==
    /\ \A n \in LbNodes : lbn[n].idx = lb.store /\ lbn[n].set = lb.set /\ ~lbe[n].owed
    /\ \A n \in LbNodes : \A lease \in {lbn[n].lease, lb.issued[n]} :
            lease # NoLease => \E l \in lb.store : l.o = n /\ l.h = lease.h
=============================================================================
