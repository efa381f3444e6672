---------------------------- MODULE LendingQueue ----------------------------
(***************************************************************************)
(* The backlog-lending queue of one routing lane: offloadQueue of          *)
(* internal/proxy/offload_queue.go, the book of lent requests, the         *)
(* dispatcher that lends under a lease, and the request handlers that wait *)
(* in the queue.                                                           *)
(*                                                                         *)
(* A node queues the requests of the models it shares with its peers and   *)
(* passes at most depth of them to its backend.  Requests of its own that  *)
(* wait may be lent to a helper while the master's lease allows it; a      *)
(* request the helper hands back is queued again at the front.  Borrowed   *)
(* requests of peers wait in the same queue, give way to the node's own    *)
(* work until they hold the runtime, and are refused while the node has    *)
(* work of its own.                                                        *)
(*                                                                         *)
(* Every critical section of queue.mu is one step, with the admissions it  *)
(* ends in.  A member of Jobs is a stream of requests, one at a time.      *)
(* Clock-based predictions (whether a helper would finish sooner, whether  *)
(* it overran) are a free choice.                                          *)
(***************************************************************************)
EXTENDS Naturals, Sequences, FiniteSets, SequencesExt

CONSTANTS
    Jobs,       \* request streams
    Borrowed,   \* those that come from a peer
    Streaming,  \* those pinned to this node because they stream
    Models,
    Owners,     \* the models with a link that lets this node lend
    ModelOf,    \* the model of each stream
    NoModel,    \* the dispatcher is idle
    MaxDepth,   \* bound on the configured backend depth
    MaxSlots    \* bound on the slots of a lease

ASSUME LendingAssumption ==
    /\ IsFiniteSet(Jobs)
    /\ Borrowed \subseteq Jobs
    /\ Streaming \subseteq Jobs
    /\ ModelOf \in [Jobs -> Models]
    /\ Owners \subseteq Models
    /\ NoModel \notin Models
    /\ MaxDepth \in Nat \ {0}
    /\ MaxSlots \in Nat \ {0}

VARIABLES
    pc,          \* where the handler of each stream is
    depth,       \* requests the backend may hold
    pending,     \* the waiting entries, oldest first
    admitted,    \* the entries passed to the backend
    result,      \* the outcome in each entry's channel of capacity one
    recheck,     \* a call of Readmit is due: the readmit alarm, a cleared lease
    requeued,    \* streams whose current request was handed back by a helper
    preemption,  \* borrowedPreemption of each borrowed stream
    lent,        \* the lentRequestBook
    lease,       \* the slots of the live lease of each model, 0 without one
    due,         \* models with a call of maybeOffload under way
    dispatching, \* the model whose dispatcher holds dispatchMu
    slots        \* the slots the dispatcher read from the lease

queueVars    == <<depth, pending, admitted, result, recheck>>
dispatchVars == <<due, dispatching, slots>>
vars == <<pc, queueVars, requeued, preemption, lent, lease, dispatchVars>>

Handler == {"idle", "waiting", "acquiring", "running",
            "forwarding", "returning", "abandoning"}
Outcome == {"none", "admitted", "withdrawn", "returned"}

Native(j) == j \notin Borrowed

\* Mutant: a request handed back may be lent again.
StreamingOnly(j) == j \in Streaming

Pinned(j) == j \in Streaming \cup requeued

Move(j, to) == pc' = [pc EXCEPT ![j] = to]

\* Mutant: own work on the backend is overlooked.
OwnWorkPending == \E i \in DOMAIN pending : Native(pending[i])

HoldsOwnWork ==
    \/ \E j \in admitted : Native(j)
    \/ \E i \in DOMAIN pending : Native(pending[i])

LentCount(m, out) == Cardinality({j \in out : ModelOf[j] = m})

-----------------------------------------------------------------------------
(* Admission                                                               *)

\* Mutant: holds although the backend has nothing to do.
MayHoldWhileIdle(j, running, out) ==
    /\ Native(j)
    /\ ~Pinned(j)
    /\ \A k \in running : Native(k) /\ ModelOf[k] = ModelOf[j]
    /\ lease[ModelOf[j]] > 0
    /\ LentCount(ModelOf[j], out) >= lease[ModelOf[j]]

\* heldForHelperLocked may keep the entry of j back: it could be lent, the
\* backend is busy with nothing but own work of the same model, and every
\* slot of the live lease is taken.
MayHold(j, running, out) ==
    /\ Native(j)
    /\ ~Pinned(j)
    /\ running # {}
    /\ \A k \in running : Native(k) /\ ModelOf[k] = ModelOf[j]
    /\ lease[ModelOf[j]] > 0
    /\ LentCount(ModelOf[j], out) >= lease[ModelOf[j]]

\* Mutant: off by one.
OverFull(n) == n > depth'

Full(n) == n >= depth'

\* admitLocked: move entries from the front of waiting to the backend until
\* it is full, none is left, or the next one is held for a helper.  The hold
\* sets the readmit alarm; armed says whether one is set already.
AdmitLocked(waiting, running, outcomes, out, armed) ==
    \E n \in 0..Len(waiting) :
        LET taken == {waiting[i] : i \in 1..n}
            busy == Cardinality(running)
        IN  /\ \A i \in 0..(n - 1) : ~Full(busy + i)
            /\ \/ Full(busy + n) /\ recheck' = armed
               \/ n = Len(waiting) /\ recheck' = armed
               \/ /\ recheck' = TRUE
                  /\ ~Full(busy + n)
                  /\ n < Len(waiting)
                  /\ MayHold(waiting[n + 1], running \cup taken, out)
            /\ pending' = SubSeq(waiting, n + 1, Len(waiting))
            /\ admitted' = running \cup taken
            /\ result' = [j \in Jobs |-> IF j \in taken THEN "admitted" ELSE outcomes[j]]

UsableDepth(d) == IF d > 1 THEN d ELSE 1

SetDepth(d) ==
    /\ depth' = UsableDepth(d)
    /\ AdmitLocked(pending, admitted, result, lent, recheck)
    /\ UNCHANGED <<pc, requeued, preemption, lent, lease, dispatchVars>>

\* The readmit alarm rings, or the lease was cleared.
Readmit ==
    /\ recheck
    /\ depth' = depth
    /\ AdmitLocked(pending, admitted, result, lent, FALSE)
    /\ UNCHANGED <<pc, requeued, preemption, lent, lease, dispatchVars>>

-----------------------------------------------------------------------------
(* Enqueue and Await                                                       *)

WaitsBorrowed == {j \in Borrowed : \E i \in DOMAIN pending : pending[i] = j}

\* returnPendingBorrowedLocked: what is left in the queue.
KeepNative(waiting) ==
    LET kept[n \in 0..Len(waiting)] ==
            IF n = 0 THEN <<>>
            ELSE IF Native(waiting[n]) THEN Append(kept[n - 1], waiting[n])
            ELSE kept[n - 1]
    IN  kept[Len(waiting)]

\* A request of the node's own: pending borrowed entries are returned, and
\* borrowed entries that were admitted but hold no runtime are preempted.
EnqueueNative(j) ==
    /\ pc[j] = "idle"
    /\ Native(j)
    /\ depth' = depth
    /\ preemption' = [b \in Borrowed |->
                        IF b \in admitted /\ preemption[b] = "open"
                        THEN "preempted" ELSE preemption[b]]
    /\ AdmitLocked(KeepNative(Append(pending, j)),
                   admitted,
                   [k \in Jobs |-> IF k \in WaitsBorrowed THEN "returned" ELSE result[k]],
                   lent, recheck)
    /\ Move(j, "waiting")
    /\ UNCHANGED <<requeued, lent, lease, dispatchVars>>

\* node.idle() is read from the runtimes before the lock is taken: it may
\* say either.
EnqueueBorrowed(j) ==
    /\ pc[j] = "idle"
    /\ j \in Borrowed
    /\ ~HoldsOwnWork
    /\ depth' = depth
    /\ AdmitLocked(Append(pending, j), admitted, result, lent, recheck)
    /\ Move(j, "waiting")
    /\ UNCHANGED <<requeued, preemption, lent, lease, dispatchVars>>

RefuseBorrowed(j) ==
    /\ pc[j] = "idle"
    /\ j \in Borrowed
    /\ result' = [result EXCEPT ![j] = "returned"]
    /\ Move(j, "waiting")
    /\ UNCHANGED <<depth, pending, admitted, recheck, requeued, preemption, lent, lease, dispatchVars>>

\* The request is over: its stream may send another one.
Finish(j) ==
    /\ Move(j, "idle")
    /\ requeued' = requeued \ {j}
    /\ preemption' = [b \in Borrowed |-> IF b = j THEN "open" ELSE preemption[b]]

ReadAdmitted(j) ==
    /\ pc[j] = "waiting"
    /\ result[j] = "admitted"
    /\ result' = [result EXCEPT ![j] = "none"]
    /\ Move(j, "acquiring")
    /\ UNCHANGED <<depth, pending, admitted, recheck, requeued, preemption, lent, lease, dispatchVars>>

ReadWithdrawn(j) ==
    /\ pc[j] = "waiting"
    /\ result[j] = "withdrawn"
    /\ result' = [result EXCEPT ![j] = "none"]
    /\ Move(j, "forwarding")
    /\ UNCHANGED <<depth, pending, admitted, recheck, requeued, preemption, lent, lease, dispatchVars>>

\* 409 offload_returned to the node that lent the request.
ReadReturned(j) ==
    /\ pc[j] = "waiting"
    /\ result[j] = "returned"
    /\ result' = [result EXCEPT ![j] = "none"]
    /\ Finish(j)
    /\ UNCHANGED <<depth, pending, admitted, recheck, lent, lease, dispatchVars>>

Read(j) == ReadAdmitted(j) \/ ReadWithdrawn(j) \/ ReadReturned(j)

Positions(j) == {i \in DOMAIN pending : pending[i] = j}

\* The first entry of j is taken out, if there is one.
Discard(j) ==
    IF Positions(j) = {} THEN pending
    ELSE RemoveAt(pending, CHOOSE i \in Positions(j) : \A k \in Positions(j) : i <= k)

\* The client is gone.  Await may see that before an outcome that is already
\* in the channel; discard takes the entry out wherever it is by then.
Abandon(j) ==
    /\ pc[j] = "waiting"
    /\ depth' = depth
    /\ AdmitLocked(Discard(j),
                   admitted \ {j},
                   [result EXCEPT ![j] = "none"],
                   lent, recheck)
    /\ Move(j, "abandoning")
    /\ UNCHANGED <<requeued, preemption, lent, lease, dispatchVars>>

\* Mutant: the book of lent requests is not told.
ForgetAbandoned(j) ==
    /\ pc[j] = "abandoning"
    /\ Finish(j)
    /\ UNCHANGED <<queueVars, lent, lease, dispatchVars>>

\* releaseAbandonedLend, unless the request was handed back before.
ReleaseAbandoned(j) ==
    /\ pc[j] = "abandoning"
    /\ lent' = IF j \in requeued THEN lent ELSE lent \ {j}
    /\ Finish(j)
    /\ UNCHANGED <<queueVars, lease, dispatchVars>>

-----------------------------------------------------------------------------
(* An admitted request on this node                                        *)

\* The lease on the runtime is taken; claimStart succeeds unless preempted.
Start(j) ==
    /\ pc[j] = "acquiring"
    /\ j \in Borrowed => preemption[j] = "open"
    /\ preemption' = [b \in Borrowed |-> IF b = j THEN "started" ELSE preemption[b]]
    /\ Move(j, "running")
    /\ UNCHANGED <<queueVars, requeued, lent, lease, dispatchVars>>

\* Mutant: the freed place is not given to the next request.
CompleteWithoutAdmission(j) ==
    /\ pc[j] \in {"acquiring", "running"}
    /\ admitted' = admitted \ {j}
    /\ Finish(j)
    /\ UNCHANGED <<depth, pending, result, recheck, lent, lease, dispatchVars>>

\* Answered, failed, or preempted while it waited for the runtime.
Complete(j) ==
    /\ pc[j] \in {"acquiring", "running"}
    /\ depth' = depth
    /\ AdmitLocked(pending, admitted \ {j}, result, lent, recheck)
    /\ Finish(j)
    /\ UNCHANGED <<lent, lease, dispatchVars>>

-----------------------------------------------------------------------------
(* A withdrawn request at a helper                                         *)

Answered(j) ==
    /\ pc[j] = "forwarding"
    /\ lent' = lent \ {j}
    /\ Finish(j)
    /\ UNCHANGED <<queueVars, lease, dispatchVars>>

\* The helper returned it, the relay failed, the bound ran out, or the lease
\* does not fit it any more.
HandedBack(j) ==
    /\ pc[j] = "forwarding"
    /\ lent' = lent \ {j}
    /\ requeued' = requeued \cup {j}
    /\ Move(j, "returning")
    /\ UNCHANGED <<queueVars, preemption, lease, dispatchVars>>

\* A fresh entry at the front, pinned to this node.
Requeue(j) ==
    /\ pc[j] = "returning"
    /\ depth' = depth
    /\ AdmitLocked(<<j>> \o pending, admitted, result, lent, recheck)
    /\ Move(j, "waiting")
    /\ UNCHANGED <<requeued, preemption, lent, lease, dispatchVars>>

-----------------------------------------------------------------------------
(* Leases and the dispatcher                                               *)

AcceptLease(m) ==
    /\ m \in Owners
    /\ \E s \in 1..MaxSlots : lease' = [lease EXCEPT ![m] = s]
    /\ due' = due \cup {m}
    /\ UNCHANGED <<pc, queueVars, requeued, preemption, lent, dispatching, slots>>

ExpireLease(m) ==
    /\ lease[m] > 0
    /\ lease' = [lease EXCEPT ![m] = 0]
    /\ UNCHANGED <<pc, queueVars, requeued, preemption, lent, dispatchVars>>

\* The master answers without a lease, or with one for a model that may not
\* be lent: the owner drops the one it has, and Readmit is called.
ClearLease(m) ==
    /\ lease[m] > 0
    /\ lease' = [lease EXCEPT ![m] = 0]
    /\ recheck' = TRUE
    /\ UNCHANGED <<pc, depth, pending, admitted, result, requeued, preemption, lent, dispatchVars>>

\* maybeOffload with dispatchMu: the lease is read once.
BeginDispatch(m) ==
    /\ m \in due
    /\ dispatching = NoModel
    /\ due' = due \ {m}
    /\ dispatching' = IF lease[m] > 0 THEN m ELSE NoModel
    /\ slots' = lease[m]
    /\ UNCHANGED <<pc, queueVars, requeued, preemption, lent, lease>>

\* The positions WithdrawNewest considers for model m.
Withdrawable(m) ==
    {i \in DOMAIN pending :
        Native(pending[i]) /\ ~Pinned(pending[i]) /\ ModelOf[pending[i]] = m}

Newest(m) == CHOOSE i \in Withdrawable(m) : \A k \in Withdrawable(m) : k <= i

\* Mutant: off by one.
SlotOrOneMore == LentCount(dispatching, lent) <= slots

HasSlot == LentCount(dispatching, lent) < slots

\* The withdrawn entry is in the book of lent requests before its handler
\* hears of it.
Lend ==
    /\ dispatching # NoModel
    /\ HasSlot
    /\ Withdrawable(dispatching) # {}
    /\ LET i == Newest(dispatching)
           j == pending[i]
       IN  /\ lent' = lent \cup {j}
           /\ depth' = depth
           /\ AdmitLocked(RemoveAt(pending, i), admitted,
                          [result EXCEPT ![j] = "withdrawn"], lent \cup {j}, recheck)
    /\ UNCHANGED <<pc, requeued, preemption, lease, dispatchVars>>

EndDispatch ==
    /\ dispatching # NoModel
    /\ HasSlot => Withdrawable(dispatching) = {}
    /\ dispatching' = NoModel
    /\ slots' = 0
    /\ depth' = depth
    /\ IF HasSlot
       THEN AdmitLocked(pending, admitted, result, lent, recheck)
       ELSE UNCHANGED <<pending, admitted, result, recheck>>
    /\ UNCHANGED <<pc, requeued, preemption, lent, lease, due>>

-----------------------------------------------------------------------------
Init ==
    /\ pc = [j \in Jobs |-> "idle"]
    /\ depth \in 1..MaxDepth
    /\ pending = <<>>
    /\ admitted = {}
    /\ result = [j \in Jobs |-> "none"]
    /\ recheck = FALSE
    /\ requeued = {}
    /\ preemption = [b \in Borrowed |-> "open"]
    /\ lent = {}
    /\ lease = [m \in Models |-> 0]
    /\ due = {}
    /\ dispatching = NoModel
    /\ slots = 0

JobNext(j) ==
    \/ EnqueueNative(j) \/ EnqueueBorrowed(j) \/ RefuseBorrowed(j)
    \/ Read(j) \/ Abandon(j) \/ ReleaseAbandoned(j)
    \/ Start(j) \/ Complete(j)
    \/ Answered(j) \/ HandedBack(j) \/ Requeue(j)

Next ==
    \/ \E j \in Jobs : JobNext(j)
    \/ \E m \in Models : AcceptLease(m) \/ ExpireLease(m) \/ ClearLease(m) \/ BeginDispatch(m)
    \/ Lend
    \/ EndDispatch
    \/ \E d \in 0..MaxDepth : SetDepth(d)
    \/ Readmit

\* A request comes back from a helper.
HandBackStep == \E j \in Jobs : HandedBack(j)

Spec == Init /\ [][Next]_vars

-----------------------------------------------------------------------------
(* Invariants                                                              *)

Entries == {pending[i] : i \in DOMAIN pending}

TypeOK ==
    /\ pc \in [Jobs -> Handler]
    /\ depth \in 1..MaxDepth
    /\ pending \in Seq(Jobs)
    /\ admitted \subseteq Jobs
    /\ result \in [Jobs -> Outcome]
    /\ recheck \in BOOLEAN
    /\ requeued \subseteq Jobs
    /\ preemption \in [Borrowed -> {"open", "started", "preempted"}]
    /\ lent \subseteq Jobs
    /\ lease \in [Models -> 0..MaxSlots]
    /\ due \subseteq Models
    /\ dispatching \in Models \cup {NoModel}
    /\ slots \in 0..MaxSlots

\* Every entry is in exactly one place, and its handler gets exactly one
\* outcome that says which: the send on the channel of capacity one, made
\* with queue.mu held, therefore never blocks the queue.
OneOutcome ==
    /\ Cardinality(Entries) = Len(pending)
    /\ \A j \in Jobs :
        pc[j] = "waiting" =>
            CASE result[j] = "none"      -> j \in Entries /\ j \notin admitted \cup lent
              [] result[j] = "admitted"  -> j \in admitted /\ j \notin Entries \cup lent
              [] result[j] = "withdrawn" -> j \in lent /\ j \notin Entries \cup admitted
              [] result[j] = "returned"  -> j \in Borrowed /\ j \notin Entries \cup admitted \cup lent

\* No slot leaks: what counts against the depth or against the lease belongs
\* to a handler that is still alive and will give it back, whichever way the
\* client's disappearance races the outcome.
NoLeak ==
    /\ \A j \in admitted :
        \/ pc[j] \in {"acquiring", "running"}
        \/ pc[j] = "waiting" /\ result[j] = "admitted"
    /\ \A j \in lent :
        \/ pc[j] \in {"forwarding", "abandoning"}
        \/ pc[j] = "waiting" /\ result[j] = "withdrawn"
    /\ \A j \in Entries : pc[j] = "waiting"

\* Entries, outcomes, slots of the backend and slots of the lease agree.
QueueIsSound == TypeOK /\ OneOutcome /\ NoLeak

\* Holding a request for a helper never leaves the backend without work.
NeverIdleWithWork == pending # <<>> => admitted # {}

\* A backend that has room while requests wait is so because of a hold that
\* will be reconsidered: no change of the queue forgets to admit.
HeldIsRechecked == pending # <<>> /\ Cardinality(admitted) < depth => recheck

\* The node's own waiting requests are ahead of every borrowed one.
OwnWorkFirst ==
    \A i, k \in DOMAIN pending : i < k /\ Native(pending[k]) => Native(pending[i])

\* While a request that arrived at this node is in its queue or backend, the
\* borrowed requests there are either on the runtime already or preempted.
BorrowedYields ==
    (\E j \in Entries \cup admitted : Native(j) /\ j \notin requeued) =>
        /\ Entries \cap Borrowed = {}
        /\ \A b \in admitted \cap Borrowed : preemption[b] # "open"

\* The node serves its own requests before it helps: in the queue, and on the
\* way from there to the runtime.
OwnWorkHasPriority == OwnWorkFirst /\ BorrowedYields

\* What was lent is the node's own, may leave the node, and was not handed
\* back before: a request handed back is never lent again.
LentOnce ==
    \A j \in lent : j \notin Borrowed \cup Streaming \cup requeued

-----------------------------------------------------------------------------
(* Action properties                                                       *)

\* The backend is never given more than the depth in force, even though the
\* depth may be lowered below what it already has.
AdmissionWithinDepth ==
    [][admitted' \subseteq admitted \/ Cardinality(admitted') <= depth']_vars

\* A request is lent only up to the slots of the lease its dispatcher read,
\* however many leases are accepted at once.
LendingWithinSlots ==
    [][\A m \in Models :
          LentCount(m, lent') > LentCount(m, lent) => LentCount(m, lent') <= slots]_vars
=============================================================================
