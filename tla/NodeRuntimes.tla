---------------------------- MODULE NodeRuntimes ----------------------------
(***************************************************************************)
(* The runtimes of one node as the handlers above them use them: the shared *)
(* runtime of a lane, the pool of separate processes that isolates marked   *)
(* configs (internal/proxy/separate_runtime.go), the reload of what borrowed*)
(* work displaced (offload_restore.go) and the unload that follows disabling*)
(* a model (model_state.go, internal/modelstate).  A runtime is seen here at *)
(* the level RuntimeLane establishes: a config, its users, and a switch that *)
(* happens only while nobody uses it.                                       *)
(***************************************************************************)
EXTENDS Naturals, FiniteSets, SequencesExt

CONSTANTS
    NrConfigs,      \* config files of the node; one model each
    NrLane,         \* config -> its unload lane
    NrRequests,     \* inference requests, each served at most once
    NrOperators,    \* concurrent callers of the model-state endpoint
    NrToggled,      \* configs whose models they enable and disable
    NrSelections,   \* unload-trigger selections an operator may save
    NrSeparate,     \* possible sets of configs marked separate when the router starts
    NrLimit,        \* limits.separate_runtimes
    NrMaxEntries,   \* bound on pool entries ever created
    NrMaxSettings   \* bound on settings saved and models enabled or disabled

VARIABLES
    nrt,    \* runtime -> [cfg, users, sw, proc]: record, lease holders, who switches it, process up;
            \* ghost severed: its process was stopped by a Start since it was last loaded
    nrpool, \* [order: configs least recently used first, entry: config -> runtime, made, trig]
    nrreq,  \* request -> [pc, cfg, borrowed, rt, victims]
    nrset,  \* the model-state database: [disabled, separate, saves]
    nrop,   \* operator calls and the unload jobs they queue: [call, jobs, pending, toggles]
    nrback  \* borrow restore of the shared runtime: [target, timer, orphans, fire, made]

nrvars == <<nrt, nrpool, nrreq, nrset, nrop, nrback>>

NoConfig == "none"
Shared == 0
Runtimes == 0 .. NrMaxEntries
Idle == [cfg |-> NoConfig, users |-> {}, sw |-> NoConfig, proc |-> FALSE, severed |-> FALSE]
NoRequest == [pc |-> "new", cfg |-> NoConfig, borrowed |-> FALSE, rt |-> Shared, victims |-> <<>>]
NoTarget == [cfg |-> NoConfig, id |-> 0]
Handlers == 1 .. 2    \* timer handlers that may run at the same time

Init ==
    /\ nrt = [t \in Runtimes |-> [Idle EXCEPT !.proc = t = Shared]]
    /\ nrpool = [order |-> <<>>, entry |-> [c \in NrConfigs |-> Shared], made |-> 0,
                 trig |-> [c \in NrConfigs |-> {}]]
    /\ nrreq = [r \in NrRequests |-> NoRequest]
    /\ \E marked \in NrSeparate :
         nrset = [disabled |-> {}, saves |-> 0,
                  separate |-> [c \in NrConfigs |-> [run |-> c \in marked, on |-> {"none"}]]]
    /\ nrop = [call |-> [o \in NrOperators |-> [pc |-> "none"]], jobs |-> <<>>,
               pending |-> [c \in NrConfigs |-> 0], toggles |-> 0]
    /\ nrback = [target |-> NoTarget, timer |-> FALSE, orphans |-> 0,
                 fire |-> [h \in Handlers |-> [pc |-> "none"]], made |-> 0]

(* ---------------------------- unload triggers --------------------------- *)
\* A selection is a set of triggers: "none", "all", a lane or a config; an
\* empty one means "none", and "none" or "all" stands alone.
ResolveSelection(selection) == IF selection = {} THEN {"none"} ELSE selection
ValidSelection(selection) ==
    (selection \cap {"none", "all"} # {}) => Cardinality(selection) = 1

separateTriggerMatches(trigger, loading) ==
    trigger = "all" \/ trigger = NrLane[loading] \/ trigger = loading

separateEntryTriggeredBy(triggers, loading) ==
    \E trigger \in triggers \ {"none"} : separateTriggerMatches(trigger, loading)

(* ----------------------- claiming and using a runtime ------------------- *)
Quiet(t) == nrt[t].users = {} /\ nrt[t].sw = NoConfig

\* claimIdleRuntime: the caller owns the switch and the record is cleared.
claimIdleRuntime(t, who) == [nrt EXCEPT ![t] = [@ EXCEPT !.cfg = NoConfig, !.sw = who]]
finishRuntimeSwitch(t) == [nrt EXCEPT ![t].sw = NoConfig]

Goto(r, pc) == nrreq' = [nrreq EXCEPT ![r].pc = pc]

(* ------------------------------ the request ----------------------------- *)
\* requestsBorrowedFromPeersInFlight: admitted and not yet done, wherever they are.
BorrowedInFlight == {r \in NrRequests : nrreq[r].borrowed /\ nrreq[r].pc \notin {"new", "done", "failed"}}

\* idleForBorrowedWork: the users of the shared runtimes less the borrowed requests, of which
\* some have not reached a runtime and some are in the pool.
idleForBorrowedWork == Cardinality(nrt[Shared].users) <= Cardinality(BorrowedInFlight)

\* A request names an enabled model; the check is made here and not again.  Borrowed work is
\* refused while the node does not count as idle.
Arrive(r) ==
    /\ nrreq[r].pc = "new"
    /\ \E c \in NrConfigs \ nrset.disabled, b \in BOOLEAN :
         nrreq' = [nrreq EXCEPT ![r] = [@ EXCEPT !.pc = IF b /\ ~idleForBorrowedWork THEN "failed" ELSE "route",
                                                 !.cfg = c, !.borrowed = b]]
    /\ UNCHANGED <<nrt, nrpool, nrset, nrop, nrback>>

\* The stored override decides between the pool and the shared runtime.
configRunsSeparate(c) == nrset.separate[c].run

tryAcquireSeparateConfig(r) ==
    /\ nrreq[r].pc = "route"
    /\ Goto(r, IF configRunsSeparate(nrreq[r].cfg) THEN "reserve" ELSE "note")
    /\ UNCHANGED <<nrt, nrpool, nrset, nrop, nrback>>

Evicted == IF Len(nrpool.order) >= NrLimit
           THEN SubSeq(nrpool.order, 1, Len(nrpool.order) - NrLimit + 1) ELSE <<>>

\* pool.mu: an existing entry is taken over with the new triggers; else the
\* least recently used ones leave the pool and a fresh one is added.  When its
\* backend cannot be made, those that left are not torn down.
Without(gone) == [x \in NrConfigs |-> IF x \in Range(gone) THEN Shared ELSE nrpool.entry[x]]
reserveEntry(r) ==
    LET c == nrreq[r].cfg  found == nrpool.entry[c] IN
    /\ nrreq[r].pc = "reserve"
    /\ \/ /\ found # Shared
          /\ nrpool' = [nrpool EXCEPT !.trig[c] = nrset.separate[c].on,
                                      !.order = Append(SelectSeq(@, LAMBDA x : x # c), c)]
          /\ nrreq' = [nrreq EXCEPT ![r] = [@ EXCEPT !.pc = "start", !.rt = found]]
       \/ /\ found = Shared /\ nrpool.made < NrMaxEntries
          /\ nrpool' = [order |-> Append(SubSeq(nrpool.order, Len(Evicted) + 1, Len(nrpool.order)), c),
                        made |-> nrpool.made + 1,
                        trig |-> [nrpool.trig EXCEPT ![c] = nrset.separate[c].on],
                        entry |-> [Without(Evicted) EXCEPT ![c] = nrpool.made + 1]]
          /\ nrreq' = [nrreq EXCEPT ![r] = [@ EXCEPT !.pc = "start", !.rt = nrpool.made + 1,
                           !.victims = [i \in DOMAIN Evicted |-> nrpool.entry[Evicted[i]]]]]
       \/ /\ found = Shared
          /\ nrpool' = [nrpool EXCEPT !.order = SubSeq(@, Len(Evicted) + 1, Len(@)), !.entry = Without(Evicted)]
          /\ Goto(r, "failed")
    /\ UNCHANGED <<nrt, nrset, nrop, nrback>>

\* teardownSeparateEntry, for the next victim of r: wait until nobody uses it,
\* stop the process and return its port.  The stop may fail, and the wait ends
\* with the request's context: either way the entry has left the pool.
TeardownClaim(r) ==
    /\ nrreq[r].victims # <<>> /\ nrt[Head(nrreq[r].victims)].sw # r
    /\ Quiet(Head(nrreq[r].victims))
    /\ nrt' = claimIdleRuntime(Head(nrreq[r].victims), r)
    /\ UNCHANGED <<nrpool, nrreq, nrset, nrop, nrback>>

\* Mutant: the victim is stopped without claiming its lane.
TeardownUnlocked(r) ==
    /\ nrreq[r].victims # <<>>
    /\ nrt' = [nrt EXCEPT ![Head(nrreq[r].victims)].proc = FALSE]
    /\ nrreq' = [nrreq EXCEPT ![r].victims = Tail(@)]
    /\ UNCHANGED <<nrpool, nrset, nrop, nrback>>

teardownSeparateEntry(r) ==
    /\ nrreq[r].victims # <<>> /\ nrt[Head(nrreq[r].victims)].sw = r
    /\ \E stopped \in BOOLEAN :
         nrt' = [finishRuntimeSwitch(Head(nrreq[r].victims)) EXCEPT ![Head(nrreq[r].victims)].proc = @ /\ ~stopped]
    /\ nrreq' = [nrreq EXCEPT ![r].victims = Tail(@)]
    /\ UNCHANGED <<nrpool, nrset, nrop, nrback>>

TeardownAbandoned(r) ==
    /\ nrreq[r].victims # <<>> /\ nrt[Head(nrreq[r].victims)].sw # r
    /\ ~Quiet(Head(nrreq[r].victims))
    /\ nrreq' = [nrreq EXCEPT ![r].victims = Tail(@)]
    /\ UNCHANGED <<nrt, nrpool, nrset, nrop, nrback>>

\* acquireSeparateConfig calls the backend's Start without the lane's lock.  A process that
\* answers is left alone, and so is one that does not while a reload is posted; any other is
\* stopped, whoever uses it, and replaced by one that holds nothing, or not at all.  A probe
\* fails also when the request's own context ends.  A backend without Start starts when it
\* loads.
StartEntry(r) ==
    LET t == nrreq[r].rt IN
    /\ nrreq[r].pc = "start" /\ nrreq[r].victims = <<>>
    /\ \/ Goto(r, "acquire") /\ UNCHANGED nrt
       \/ \E up \in BOOLEAN :
            /\ nrt' = [nrt EXCEPT ![t].proc = up, ![t].severed = @ \/ nrt[t].proc]
            /\ Goto(r, IF up THEN "acquire" ELSE "failed")
       \/ Goto(r, "failed") /\ UNCHANGED nrt
    /\ UNCHANGED <<nrpool, nrset, nrop, nrback>>

(* -------------------- borrow restore, on the shared runtime ------------- *)
\* noteBorrowRestoreActivity: own work clears the pending restore; borrowed
\* work records the first config it displaces and restarts the timer.
\* timer is the timer the state knows; one it lost track of is an orphan.
stopBorrowRestoreLocked == [nrback EXCEPT !.target = NoTarget, !.timer = FALSE]

recordFirstDisplacement(incoming) ==
    LET held == nrt[Shared].cfg IN
    IF nrback.target = NoTarget /\ nrt[Shared].sw = NoConfig /\ held \notin {NoConfig, incoming}
      THEN [nrback EXCEPT !.target = [cfg |-> held, id |-> nrback.made + 1], !.made = @ + 1]
      ELSE nrback

touchBorrowRestore(b) ==
    IF b.target = NoTarget THEN b ELSE [b EXCEPT !.timer = TRUE]

noteBorrowRestoreActivity(r) ==
    /\ nrreq[r].pc = "note"
    /\ nrback' = IF nrreq[r].borrowed THEN touchBorrowRestore(recordFirstDisplacement(nrreq[r].cfg))
                                      ELSE stopBorrowRestoreLocked
    /\ Goto(r, "acquire")
    /\ UNCHANGED <<nrt, nrpool, nrset, nrop>>

(* ------------------------ lease, load, serve, release ------------------- *)
\* acquireModelConfigWithOptions: share the loaded config, or switch an
\* unused runtime to it.
Join(r) ==
    /\ nrreq[r].pc = "acquire" /\ nrt[nrreq[r].rt].sw = NoConfig
    /\ nrt[nrreq[r].rt].cfg = nrreq[r].cfg
    /\ nrt' = [nrt EXCEPT ![nrreq[r].rt].users = @ \cup {r}]
    /\ Goto(r, "leased")
    /\ UNCHANGED <<nrpool, nrset, nrop, nrback>>

BeginSwitch(r) ==
    /\ nrreq[r].pc = "acquire" /\ Quiet(nrreq[r].rt)
    /\ nrt[nrreq[r].rt].cfg # nrreq[r].cfg
    /\ nrt' = claimIdleRuntime(nrreq[r].rt, r)
    /\ Goto(r, "loading")
    /\ UNCHANGED <<nrpool, nrset, nrop, nrback>>

\* A load on a process that was stopped meanwhile fails or starts it again,
\* depending on the backend.
FinishLoad(r) ==
    LET t == nrreq[r].rt IN
    /\ nrreq[r].pc = "loading"
    /\ \/ /\ nrt' = [finishRuntimeSwitch(t) EXCEPT ![t] = [@ EXCEPT !.cfg = nrreq[r].cfg, !.users = {r}, !.proc = TRUE, !.severed = FALSE]]
          /\ Goto(r, "leased")
       \/ nrt' = finishRuntimeSwitch(t) /\ Goto(r, "failed")
    /\ UNCHANGED <<nrpool, nrset, nrop, nrback>>

\* touch and applySeparateRuntimeTriggers: the loaded config's triggers evict
\* other entries, each removed under pool.mu only if it is still there.
touch(c) == IF nrpool.entry[c] = Shared THEN nrpool.order
            ELSE Append(SelectSeq(nrpool.order, LAMBDA x : x # c), c)

triggered(c) == {x \in Range(nrpool.order) : x # c /\ separateEntryTriggeredBy(nrpool.trig[x], c)}

removeEntries(order, gone) ==
    [nrpool EXCEPT !.order = SelectSeq(order, LAMBDA x : x \notin gone),
                   !.entry = [x \in NrConfigs |-> IF x \in gone THEN Shared ELSE @[x]]]

applySeparateRuntimeTriggers(r) ==
    LET c == nrreq[r].cfg  gone == triggered(c) IN
    /\ nrreq[r].pc = "leased"
    /\ nrpool' = removeEntries(IF nrreq[r].rt = Shared THEN nrpool.order ELSE touch(c), gone)
    /\ nrreq' = [nrreq EXCEPT ![r] = [@ EXCEPT !.pc = "serving",
                     !.victims = SetToSeq({nrpool.entry[x] : x \in gone})]]
    /\ UNCHANGED <<nrt, nrset, nrop, nrback>>

Release(r) ==
    /\ nrreq[r].pc = "serving" /\ nrreq[r].victims = <<>>
    /\ nrt' = [nrt EXCEPT ![nrreq[r].rt].users = @ \ {r}]
    /\ Goto(r, "done")
    /\ UNCHANGED <<nrpool, nrset, nrop, nrback>>

(* ------------------------------ the timer ------------------------------- *)
borrowRestoreQuiet == BorrowedInFlight = {} /\ idleForBorrowedWork /\ nrt[Shared].sw = NoConfig

\* A timer fires: the target is read, the node looked at, and the restore
\* begun, or the timer set again if the target is still the one read.
Fired(h, b) ==
    [b EXCEPT !.fire[h] = IF nrback.target = NoTarget THEN @ ELSE [pc |-> "check", target |-> nrback.target, idle |-> FALSE]]

TimerFires(h) ==
    /\ nrback.fire[h].pc = "none"
    /\ \/ nrback.timer /\ nrback' = Fired(h, [nrback EXCEPT !.timer = FALSE])
       \/ nrback.orphans > 0 /\ nrback' = Fired(h, [nrback EXCEPT !.orphans = @ - 1])
    /\ UNCHANGED <<nrt, nrpool, nrreq, nrset, nrop>>

HandlerEnds(h, b) == [b EXCEPT !.fire[h] = [pc |-> "none"]]

\* A timer set by newer borrowed work is overwritten, not stopped.
retryBorrowRestoreLater(h) ==
    IF nrback.target # nrback.fire[h].target THEN HandlerEnds(h, nrback)
    ELSE HandlerEnds(h, [nrback EXCEPT !.orphans = IF nrback.timer THEN @ + 1 ELSE @, !.timer = TRUE])

fireBorrowRestore(h) ==
    /\ nrback.fire[h].pc = "check"
    /\ nrback' = IF borrowRestoreQuiet
               THEN [nrback EXCEPT !.fire[h].pc = "acquire", !.fire[h].idle = nrt[Shared].users = {}]
               ELSE retryBorrowRestoreLater(h)
    /\ UNCHANGED <<nrt, nrpool, nrreq, nrset, nrop>>

\* The restore acquires like a request of the node's own, whose arrival
\* clears the pending target, and loads when the runtime is free; it may also
\* fail before that, or find its config in the pool.
RestoreNoted(h) ==
    /\ nrback.fire[h].pc = "acquire"
    /\ nrback' = [stopBorrowRestoreLocked EXCEPT !.fire[h].pc = "wait"]
    /\ UNCHANGED <<nrt, nrpool, nrreq, nrset, nrop>>

RestoreRefused(h) ==
    /\ nrback.fire[h].pc = "acquire"
    /\ nrback' = [nrback EXCEPT !.fire[h].pc = "end"]
    /\ UNCHANGED <<nrt, nrpool, nrreq, nrset, nrop>>

RestoreLoad(h) ==
    /\ nrback.fire[h].pc = "wait"
    /\ nrback' = [nrback EXCEPT !.fire[h].pc = IF nrt[Shared].cfg = nrback.fire[h].target.cfg THEN "end" ELSE "load"]
    /\ \/ nrt[Shared].cfg = nrback.fire[h].target.cfg /\ nrt[Shared].sw = NoConfig /\ UNCHANGED nrt
       \/ nrt[Shared].cfg # nrback.fire[h].target.cfg /\ Quiet(Shared) /\ nrt' = claimIdleRuntime(Shared, "restore")
    /\ UNCHANGED <<nrpool, nrreq, nrset, nrop>>

RestoreLoaded(h) ==
    /\ nrback.fire[h].pc = "load"
    /\ \E ok \in BOOLEAN : nrt' = [finishRuntimeSwitch(Shared) EXCEPT
                                     ![Shared].cfg = IF ok THEN nrback.fire[h].target.cfg ELSE NoConfig]
    /\ nrback' = [nrback EXCEPT !.fire[h].pc = "end"]
    /\ UNCHANGED <<nrpool, nrreq, nrset, nrop>>

RestoreEnds(h) ==
    /\ nrback.fire[h].pc = "end"
    /\ nrback' = HandlerEnds(h, IF nrback.target = nrback.fire[h].target THEN stopBorrowRestoreLocked ELSE nrback)
    /\ UNCHANGED <<nrt, nrpool, nrreq, nrset, nrop>>

(* ------------------------------ operators ------------------------------- *)
\* applyLocalSeparateRuntime
SetSeparateRuntime(c) ==
    /\ nrset.saves + nrop.toggles < NrMaxSettings
    /\ \E run \in BOOLEAN, selection \in NrSelections :
         /\ ValidSelection(selection)
         /\ nrset' = [nrset EXCEPT !.saves = @ + 1,
                         !.separate[c] = [run |-> run, on |-> ResolveSelection(selection)]]
    /\ UNCHANGED <<nrt, nrpool, nrreq, nrop, nrback>>

\* setLocalModelEnabled: read, write, refresh the registry (or roll back to
\* what was read), then cancel or queue the unload.
ModelStateBegins(o, c, enabled) ==
    /\ nrop.call[o].pc = "none" /\ nrset.saves + nrop.toggles < NrMaxSettings
    /\ nrop' = [nrop EXCEPT !.toggles = @ + 1, !.call[o] =
                   [pc |-> "set", cfg |-> c, enabled |-> enabled, was |-> c \in nrset.disabled]]
    /\ UNCHANGED <<nrt, nrpool, nrreq, nrset, nrback>>

SetEnabled(c, enabled) == [nrset EXCEPT !.disabled = IF enabled THEN @ \ {c} ELSE @ \cup {c}]

ModelStateStored(o) ==
    /\ nrop.call[o].pc = "set"
    /\ nrset' = SetEnabled(nrop.call[o].cfg, nrop.call[o].enabled)
    /\ \E refreshed \in BOOLEAN : nrop' = [nrop EXCEPT !.call[o].pc = IF refreshed THEN "apply" ELSE "undo"]
    /\ UNCHANGED <<nrt, nrpool, nrreq, nrback>>

ModelStateUndone(o) ==
    /\ nrop.call[o].pc = "undo"
    /\ nrset' = SetEnabled(nrop.call[o].cfg, ~nrop.call[o].was)
    /\ nrop' = [nrop EXCEPT !.call[o] = [pc |-> "none"]]
    /\ UNCHANGED <<nrt, nrpool, nrreq, nrback>>

\* A job is an unload in the background: [cfg, pc, live, late]; live is its
\* context, late tells that an enable has returned since it was queued.
Cancel(jobs, j) == IF j = 0 THEN jobs ELSE [jobs EXCEPT ![j].live = FALSE]

cancelPendingModelUnload(c) ==
    [nrop EXCEPT !.pending[c] = 0,
                 !.jobs = [j \in DOMAIN @ |-> [Cancel(@, nrop.pending[c])[j] EXCEPT !.late = @ \/ nrop.jobs[j].cfg = c]]]

queueDisabledModelUnload(c) ==
    [nrop EXCEPT !.pending[c] = Len(nrop.jobs) + 1,
                 !.jobs = Append(Cancel(@, nrop.pending[c]), [cfg |-> c, pc |-> "check", live |-> TRUE, late |-> FALSE])]

ModelStateApplied(o) ==
    LET call == nrop.call[o] IN
    /\ call.pc = "apply"
    /\ nrop' = [(IF call.enabled THEN cancelPendingModelUnload(call.cfg) ELSE queueDisabledModelUnload(call.cfg))
                  EXCEPT !.call[o] = [pc |-> "none"]]
    /\ UNCHANGED <<nrt, nrpool, nrreq, nrset, nrback>>

\* unloadDisabledRuntime: nothing to do if enabled by now; else wait for the
\* shared runtime to be unused and still holding the config.
UnloadChecked(j) ==
    /\ nrop.jobs[j].pc = "check"
    /\ nrop' = [nrop EXCEPT !.jobs[j].pc = IF nrop.jobs[j].cfg \in nrset.disabled THEN "wait" ELSE "gone"]
    /\ UNCHANGED <<nrt, nrpool, nrreq, nrset, nrback>>

UnloadGivesUp(j) ==
    /\ nrop.jobs[j].pc = "wait"
    /\ ~nrop.jobs[j].live \/ nrt[Shared].cfg # nrop.jobs[j].cfg
    /\ nrop' = [nrop EXCEPT !.jobs[j].pc = "gone"]
    /\ UNCHANGED <<nrt, nrpool, nrreq, nrset, nrback>>

UnloadClaimed(j) ==
    /\ nrop.jobs[j].pc = "wait" /\ nrop.jobs[j].live
    /\ nrt[Shared].cfg = nrop.jobs[j].cfg /\ Quiet(Shared)
    /\ nrt' = claimIdleRuntime(Shared, "unload")
    /\ nrop' = [nrop EXCEPT !.jobs[j].pc = IF nrop.jobs[j].late THEN "late" ELSE "unload"]
    /\ UNCHANGED <<nrpool, nrreq, nrset, nrback>>

unloadDisabledRuntime(j) ==
    /\ nrop.jobs[j].pc \in {"unload", "late"}
    /\ nrt' = finishRuntimeSwitch(Shared)
    /\ nrop' = [nrop EXCEPT !.jobs[j].pc = "gone"]
    /\ UNCHANGED <<nrpool, nrreq, nrset, nrback>>

\* unloadSeparateLane unloads an entry's runtime and keeps it in the pool.
unloadSeparateLane(c) ==
    /\ nrpool.entry[c] # Shared /\ Quiet(nrpool.entry[c]) /\ nrt[nrpool.entry[c]].cfg # NoConfig
    /\ nrt' = [nrt EXCEPT ![nrpool.entry[c]].cfg = NoConfig]
    /\ UNCHANGED <<nrpool, nrreq, nrset, nrop, nrback>>

Next ==
    \/ \E r \in NrRequests :
         \/ Arrive(r) \/ tryAcquireSeparateConfig(r) \/ reserveEntry(r)
         \/ TeardownClaim(r) \/ teardownSeparateEntry(r) \/ TeardownAbandoned(r)
         \/ StartEntry(r) \/ noteBorrowRestoreActivity(r)
         \/ Join(r) \/ BeginSwitch(r) \/ FinishLoad(r)
         \/ applySeparateRuntimeTriggers(r) \/ Release(r)
    \/ \E h \in Handlers :
         \/ TimerFires(h) \/ fireBorrowRestore(h) \/ RestoreNoted(h) \/ RestoreRefused(h)
         \/ RestoreLoad(h) \/ RestoreLoaded(h) \/ RestoreEnds(h)
    \/ \E c \in NrConfigs : SetSeparateRuntime(c) \/ unloadSeparateLane(c)
    \/ \E o \in NrOperators :
         \/ \E c \in NrToggled, enabled \in BOOLEAN : ModelStateBegins(o, c, enabled)
         \/ ModelStateStored(o) \/ ModelStateUndone(o) \/ ModelStateApplied(o)
    \/ \E j \in DOMAIN nrop.jobs :
         UnloadChecked(j) \/ UnloadGivesUp(j) \/ UnloadClaimed(j) \/ unloadDisabledRuntime(j)

Spec == Init /\ [][Next]_nrvars

(* ------------------------------ properties ------------------------------ *)
\* A request that holds a runtime is served by a live process holding its
\* config: an eviction, a trigger, an unload or a restore never takes the
\* runtime from under it, even one whose entry has left the pool.  Only the
\* Start of another request for its config may (see StartSparesLeases).
LeaseServed ==
    \A t \in Runtimes : \A r \in nrt[t].users :
        /\ nrt[t].cfg = nrreq[r].cfg /\ nrt[t].sw = NoConfig
        /\ nrt[t].proc \/ nrt[t].severed
        /\ nrt[t].severed => t # Shared /\ \E x \in NrRequests \ {r} : nrreq[x].rt = t

\* The pool never lists more entries than its limit.
PoolWithinLimit ==
    /\ Len(nrpool.order) <= NrLimit
    /\ \A c \in NrConfigs : nrpool.entry[c] # Shared <=> c \in Range(nrpool.order)

\* The unload queued by a disable is never carried out once an enable that
\* came after it has returned.
EnableStopsUnload == \A j \in DOMAIN nrop.jobs : nrop.jobs[j].pc # "late"

\* What is to be reloaded after borrowed work has a timer that will look at
\* it, or a timer's handler at work on it.
RestoreIsArmed ==
    nrback.target # NoTarget =>
        nrback.timer \/ nrback.orphans > 0 \/ \E h \in Handlers : nrback.fire[h].pc # "none"

\* The netting of borrowed work out of the node's load never begins a restore
\* over a request that is on the runtime.
RestoreBeginsIdle == \A h \in Handlers : nrback.fire[h].pc \in {"acquire", "wait", "load"} => nrback.fire[h].idle

NodeRuntimesSafe == LeaseServed /\ PoolWithinLimit /\ EnableStopsUnload /\ RestoreIsArmed /\ RestoreBeginsIdle

\* What one expects and the code does not keep (see the findings): a Start
\* leaves alone a process that another request uses.
StartSparesLeases == \A t \in Runtimes : nrt[t].users # {} => ~nrt[t].severed
\* And: borrowed work is taken on only while no own request is on a runtime.
BorrowedFindsIdle ==
    [][\A r \in NrRequests :
          nrreq[r].pc = "new" /\ nrreq'[r].pc = "route" /\ nrreq'[r].borrowed =>
              \A x \in nrt[Shared].users : nrreq[x].borrowed]_nrvars

\* What docs/wiki/Configuration.md says of limits.separate_runtimes: the
\* number of co-resident separate processes is bounded.
SeparateProcessesBounded ==
    Cardinality({t \in Runtimes \ {Shared} : nrt[t].proc}) <= NrLimit
=============================================================================
