---------------------------- MODULE RuntimeLane ----------------------------
(***************************************************************************)
(* One backend runtime ("lane") of the router: activeConfigState of        *)
(* internal/proxy/lane.go and every operation on it.  A lane is one        *)
(* backend process that holds at most one model config at a time.          *)
(* Requests take leases on the config they want, a switch to another       *)
(* config waits for the lane to drain, and a FIFO of tickets decides who   *)
(* may switch and who may still join the config that is loaded.            *)
(*                                                                         *)
(* Every critical section of state.mu is one step.  A goroutine that       *)
(* finds it must wait sleeps on the channel state.changed; closing that    *)
(* channel (notifyActiveConfigLocked) wakes every sleeper at once.         *)
(*                                                                         *)
(* A member of Requests is a stream of requests for one config, one at a   *)
(* time: after it is done it may come again.  Tickets are only ever        *)
(* compared, so a waiting goroutine's ticket is modelled by the set of     *)
(* waiters that hold a smaller one (ahead), and windowTicket by the set of *)
(* waiters whose ticket is below it (window).  The generation counter is   *)
(* only ever compared with a sampled value, so it is modelled by the set   *)
(* of samplers whose value is still current (fresh).                       *)
(***************************************************************************)
EXTENDS Naturals, FiniteSets

CONSTANTS
    Requests,         \* goroutines that acquire a config
    Borrowed,         \* the requests that serve another node's work
    Exact,            \* the requests acquired with exactPhysicalConfig
    Unloaders,        \* goroutines that unload or stop the lane
    Configs,          \* model config files
    Want,             \* the config each request asks for
    Fingerprint,      \* physical load fingerprint of each config
    Shareable,        \* configs servable by a sibling's runtime
    None,             \* the empty filename; a live backend without a model
    Dead,             \* the backend process does not answer
    HasStart,         \* whether the family's start hook restarts a dead backend
    ModelLoadAttempts,\* how often a lost load is issued (modelLoadAttempts)
    MaxCrashes        \* bound on backend crashes

ASSUME LaneAssumption ==
    /\ Borrowed \subseteq Requests
    /\ Exact \subseteq Requests
    /\ Requests \cap Unloaders = {}
    /\ IsFiniteSet(Requests)
    /\ None \notin Configs
    /\ Dead \notin Configs \cup {None}
    /\ HasStart \in BOOLEAN
    /\ Want \in [Requests -> Configs]
    /\ Shareable \subseteq Configs
    /\ ModelLoadAttempts \in Nat \ {0}
    /\ MaxCrashes \in Nat

VARIABLES
    pc,                   \* where each goroutine is
    filename,             \* the logical config the lane is recorded to serve
    physical,             \* the config whose load profile is recorded
    pending,              \* the config being loaded while switching
    switching,
    switchingForBorrowed,
    users,                \* number of leases
    borrowedUsers,        \* number of leases of borrowed requests
    waiters,              \* goroutines with an entry in the switch queue
    ahead,                \* for a waiter, the waiters with a smaller ticket
    window,               \* waiters with a ticket below windowTicket
    asleep,               \* goroutines blocked on state.changed
    preemption,           \* borrowedPreemption of each request
    recovered,            \* requests that already recovered the backend once
    fresh,                \* unloaders whose sampled generation is current
    recheck,              \* what an unloader rechecks before it claims the lane
    target,               \* the config an unloader means to unload
    backend,              \* what the backend process really has loaded
    attempt,              \* the load attempt in progress, 0 if none
    crashes               \* number of crashes so far

configVars  == <<filename, physical, pending>>
switchVars  == <<switching, switchingForBorrowed>>
userVars    == <<users, borrowedUsers>>
queueVars   == <<waiters, ahead, window, asleep>>
requestVars == <<preemption, recovered>>
unloadVars  == <<fresh, recheck, target>>
backendVars == <<backend, attempt, crashes>>
vars == <<pc, configVars, switchVars, userVars, queueVars, requestVars,
          unloadVars, backendVars>>

Procs == Requests \cup Unloaders
ConfigOrNone == Configs \cup {None}
BackendState == ConfigOrNone \cup {Dead}

Holding == {"serving", "reloadQueued", "reloading", "failed"}
InQueue == {"queued", "reloadQueued", "claimQueued"}
InSwitch == {"loading", "reloading", "unloading"}

RequestPC == {"idle", "arrived", "queued", "loading"} \cup Holding
UnloaderPC == {"idle", "chosen", "claimQueued", "unloading"}

-----------------------------------------------------------------------------
(* What the lane can serve, and whose turn it is.                          *)

\* Two configs of one physical model: either runtime serves the other.
Siblings(c, d) ==
    /\ c \in Shareable
    /\ d \in Shareable
    /\ Fingerprint[c] = Fingerprint[d]

\* Mutant: an exact acquisition is content with a sibling.
MatchesSibling(r) ==
    \/ filename = Want[r]
    \/ physical # None /\ Siblings(physical, Want[r])

\* satisfiedBy of an acquisition: the loaded config is the one asked for or
\* a shareable sibling; an exact acquisition needs that very load.
Matches(r) ==
    IF r \in Exact
    THEN physical = Want[r]
    ELSE \/ filename = Want[r]
         \/ physical # None /\ Siblings(physical, Want[r])

\* satisfiedBy of a queue entry; reloads and claims are neverSatisfied.
Satisfied(p) == p \in Requests /\ pc[p] # "reloadQueued" /\ Matches(p)

\* The entries with a smaller ticket.  A ticket taken now is the largest.
AheadOf(p) == IF p \in waiters THEN ahead[p] ELSE waiters

\* Mutant: whoever the loaded config serves may join at once.
AdmitsAnyone(r) == TRUE

AdmitsLease(r) == r \in window \/ \A q \in AheadOf(r) : Satisfied(q)

\* p holds the oldest ticket among the waiters the loaded config cannot serve.
MaySwitch(p) == ~Satisfied(p) /\ \A q \in AheadOf(p) : Satisfied(q)

-----------------------------------------------------------------------------
(* The queue and the broadcast channel.                                    *)

Notify == asleep' = {}

RemoveTicket(p) ==
    /\ waiters' = waiters \ {p}
    /\ ahead' = [q \in Procs |-> IF q = p THEN {} ELSE ahead[q] \ {p}]
    /\ window' = window \ {p}

\* Mutant: an exit path without leaveQueueLocked.
KeepTicket(p) ==
    /\ asleep' = asleep \ {p}
    /\ UNCHANGED <<waiters, ahead, window>>

\* Mutant: the ticket goes without closing the channel.
LeaveSilently(p) ==
    /\ RemoveTicket(p)
    /\ asleep' = asleep \ {p}

\* leaveQueueLocked: notifies only if the ticket was waiting.
LeaveQueue(p) ==
    /\ RemoveTicket(p)
    /\ asleep' = IF p \in waiters THEN {} ELSE asleep

\* joinQueueLocked (unless already queued) and leaveQueueLocked at once.
PassQueue(p) == RemoveTicket(p) /\ Notify

\* joinQueueLocked (unless already queued), then block on state.changed.
JoinAndSleep(p) ==
    /\ waiters' = waiters \cup {p}
    /\ ahead' = [ahead EXCEPT ![p] = AheadOf(p)]
    /\ asleep' = asleep \cup {p}
    /\ UNCHANGED window

Move(p, to) == pc' = [pc EXCEPT ![p] = to]

\* The request returns to its caller; the stream may send another one.
ReturnToCaller(r) ==
    /\ Move(r, "idle")
    /\ preemption' = [preemption EXCEPT ![r] = "open"]
    /\ recovered' = recovered \ {r}

BeginRuntimeSwitch(borrowed) ==
    /\ switching' = TRUE
    /\ switchingForBorrowed' = borrowed

EndRuntimeSwitch ==
    /\ switching' = FALSE
    /\ switchingForBorrowed' = FALSE

\* Mutant: a borrowed lease is counted as an own one.
AddOwnLease(r) ==
    /\ users' = users + 1
    /\ UNCHANGED borrowedUsers

AddLease(r) ==
    /\ users' = users + 1
    /\ borrowedUsers' = IF r \in Borrowed THEN borrowedUsers + 1 ELSE borrowedUsers

\* Mutant: a failed load leaves the record of the config before it.
KeepRecord ==
    /\ pending' = None
    /\ UNCHANGED <<filename, physical>>

ClearRecord ==
    /\ filename' = None
    /\ physical' = None
    /\ pending' = None

RecordLoad(c) ==
    /\ filename' = c
    /\ physical' = c
    /\ pending' = None

\* Mutant: a load or an unload does not count.
SameGeneration == UNCHANGED fresh

\* generation++: no value sampled before is current any more.
BumpGeneration == fresh' = {}

-----------------------------------------------------------------------------
(* acquireUnlessPreempted                                                  *)

\* Before it comes to the lane a request leases the backend family, whose
\* start hook (if it has one) brings a dead process back, without a model.
Arrive(r) ==
    /\ pc[r] = "idle"
    /\ Move(r, "arrived")
    /\ backend' = IF HasStart /\ backend = Dead THEN None ELSE backend
    /\ UNCHANGED <<configVars, switchVars, userVars, queueVars, requestVars,
                   unloadVars, attempt, crashes>>

InAcquire(r) ==
    \/ pc[r] = "arrived"
    \/ pc[r] = "queued" /\ r \notin asleep

\* Mutant: a lease is granted while the config is being changed.
MayLeaseAnyTime(r) == Matches(r) /\ AdmitsLease(r)

MayLease(r) == Matches(r) /\ ~switching /\ AdmitsLease(r)

\* reuseActiveConfigLocked: join the config that is loaded.
Reuse(r) ==
    /\ InAcquire(r)
    /\ MayLease(r)
    /\ preemption[r] # "preempted"
    /\ preemption' = [preemption EXCEPT ![r] = "started"]
    /\ LeaveQueue(r)
    /\ filename' = Want[r]
    /\ fresh' = IF filename = Want[r] THEN fresh ELSE {}
    /\ AddLease(r)
    /\ Move(r, "serving")
    /\ UNCHANGED <<physical, pending, switchVars, recovered, recheck, target, backendVars>>

\* claimStart fails at the moment the lease would be taken.
HandBack(r) ==
    /\ InAcquire(r)
    /\ MayLease(r)
    /\ preemption[r] = "preempted"
    /\ LeaveQueue(r)
    /\ ReturnToCaller(r)
    /\ UNCHANGED <<configVars, switchVars, userVars, unloadVars, backendVars>>

Await(r) ==
    /\ InAcquire(r)
    /\ ~MayLease(r)
    /\ Matches(r) \/ switching \/ users > 0 \/ ~MaySwitch(r)
    /\ JoinAndSleep(r)
    /\ Move(r, "queued")
    /\ UNCHANGED <<configVars, switchVars, userVars, requestVars, unloadVars, backendVars>>

BeginSwitch(r) ==
    /\ InAcquire(r)
    /\ ~Matches(r)
    /\ ~switching
    /\ users = 0
    /\ MaySwitch(r)
    /\ PassQueue(r)
    /\ BeginRuntimeSwitch(r \in Borrowed)
    /\ pending' = Want[r]
    /\ attempt' = 1
    /\ Move(r, "loading")
    /\ UNCHANGED <<filename, physical, userVars, requestVars, unloadVars, backend, crashes>>

\* The context ends while waiting: deadline, client gone, or preemption.
GiveUp(r) ==
    /\ pc[r] = "queued"
    /\ LeaveQueue(r)
    /\ ReturnToCaller(r)
    /\ UNCHANGED <<configVars, switchVars, userVars, unloadVars, backendVars>>

\* Mutant: work that holds the runtime is preempted too.
PreemptStarted(r) ==
    /\ r \in Borrowed
    /\ preemption[r] # "preempted"
    /\ preemption' = [preemption EXCEPT ![r] = "preempted"]
    /\ UNCHANGED <<pc, configVars, switchVars, userVars, queueVars, recovered,
                   unloadVars, backendVars>>

\* preemptUnlessStarted: own work arrived at the node that runs r.
Preempt(r) ==
    /\ r \in Borrowed
    /\ preemption[r] = "open"
    /\ preemption' = [preemption EXCEPT ![r] = "preempted"]
    /\ UNCHANGED <<pc, configVars, switchVars, userVars, queueVars, recovered,
                   unloadVars, backendVars>>

-----------------------------------------------------------------------------
(* switchRuntimeConfig and loadModelConfig                                 *)

\* Mutant: off by one.
OneMoreAttempt == attempt <= ModelLoadAttempts

AttemptsLeft == attempt < ModelLoadAttempts

\* The backend comes up without the model: the load is issued again.
LoadLost(r) ==
    /\ pc[r] \in {"loading", "reloading"}
    /\ AttemptsLeft
    /\ attempt' = attempt + 1
    /\ backend' = None
    /\ UNCHANGED <<pc, configVars, switchVars, userVars, queueVars, requestVars,
                   unloadVars, crashes>>

\* A load that ended in an error says nothing about what the backend holds.
LoadLeaves(c) == backend' \in {backend, None, Dead, c}

FinishSwitch(r) ==
    /\ pc[r] = "loading"
    /\ backend' = Want[r]
    /\ attempt' = 0
    /\ EndRuntimeSwitch
    /\ RecordLoad(Want[r])
    /\ BumpGeneration
    /\ window' = waiters
    /\ Notify
    /\ IF preemption[r] = "preempted"
       THEN /\ ReturnToCaller(r)
            /\ UNCHANGED userVars
       ELSE /\ Move(r, "serving")
            /\ preemption' = [preemption EXCEPT ![r] = "started"]
            /\ AddLease(r)
            /\ UNCHANGED recovered
    /\ UNCHANGED <<waiters, ahead, recheck, target, crashes>>

AbandonSwitch(r) ==
    /\ pc[r] = "loading"
    /\ LoadLeaves(Want[r])
    /\ attempt' = 0
    /\ EndRuntimeSwitch
    /\ ClearRecord
    /\ Notify
    /\ ReturnToCaller(r)
    /\ UNCHANGED <<userVars, waiters, ahead, window, unloadVars, crashes>>

-----------------------------------------------------------------------------
(* The lease: released once, or used to recover a dead backend.            *)

\* releaseActiveConfigUserLocked: notifies when the last lease is returned.
ReleaseLease(r) ==
    /\ pc[r] \in {"serving", "failed"}
    /\ users' = IF users > 0 THEN users - 1 ELSE users
    /\ borrowedUsers' = IF users > 0 /\ r \in Borrowed /\ borrowedUsers > 0
                        THEN borrowedUsers - 1 ELSE borrowedUsers
    /\ asleep' = IF users = 1 THEN {} ELSE asleep
    /\ ReturnToCaller(r)
    /\ UNCHANGED <<configVars, switchVars, waiters, ahead, window, unloadVars, backendVars>>

\* shouldRecoverBackend, once per request; then the loop of reloadHeldModelConfig.
InRecovery(r) ==
    \/ pc[r] = "serving" /\ r \notin recovered /\ backend = Dead
    \/ pc[r] = "reloadQueued" /\ r \notin asleep

\* Mutant: a recovery does not wait for the other leases.
SharedReload == TRUE

\* The caller's own lease is the only one.
SoleUser == users <= 1

AwaitReload(r) ==
    /\ InRecovery(r)
    /\ switching \/ ~SoleUser
    /\ JoinAndSleep(r)
    /\ Move(r, "reloadQueued")
    /\ UNCHANGED <<configVars, switchVars, userVars, requestVars, unloadVars, backendVars>>

BeginReload(r) ==
    /\ InRecovery(r)
    /\ ~switching
    /\ SoleUser
    /\ PassQueue(r)
    /\ BeginRuntimeSwitch(r \in Borrowed)
    /\ pending' = Want[r]
    /\ attempt' = 1
    /\ Move(r, "reloading")
    /\ UNCHANGED <<filename, physical, userVars, requestVars, unloadVars, backend, crashes>>

\* The context ends while waiting; the caller then releases its lease.
GiveUpReload(r) ==
    /\ pc[r] = "reloadQueued"
    /\ LeaveQueue(r)
    /\ Move(r, "failed")
    /\ UNCHANGED <<configVars, switchVars, userVars, requestVars, unloadVars, backendVars>>

FinishReload(r) ==
    /\ pc[r] = "reloading"
    /\ backend' = Want[r]
    /\ attempt' = 0
    /\ EndRuntimeSwitch
    /\ RecordLoad(Want[r])
    /\ BumpGeneration
    /\ window' = waiters
    /\ Notify
    /\ Move(r, "serving")
    /\ recovered' = recovered \cup {r}
    /\ UNCHANGED <<userVars, waiters, ahead, preemption, recheck, target, crashes>>

FailReload(r) ==
    /\ pc[r] = "reloading"
    /\ LoadLeaves(Want[r])
    /\ attempt' = 0
    /\ EndRuntimeSwitch
    /\ ClearRecord
    /\ Notify
    /\ Move(r, "failed")
    /\ UNCHANGED <<userVars, waiters, ahead, window, requestVars, unloadVars, crashes>>

\* The backend process dies (external).
Crash ==
    /\ backend # Dead
    /\ crashes < MaxCrashes
    /\ backend' = Dead
    /\ crashes' = crashes + 1
    /\ UNCHANGED <<pc, configVars, switchVars, userVars, queueVars, requestVars,
                   unloadVars, attempt>>

-----------------------------------------------------------------------------
(* claimIdleRuntime and what follows it: unloadRuntime,                    *)
(* unloadRuntimeIfGeneration, unloadDisabledRuntime and                    *)
(* lockRuntimeForBackendStop.                                              *)

\* The decision to unload, from what was read earlier, without the lock: the
\* generation a client saw, the config of a model that was disabled, or
\* nothing (unload policy, family stop).
UnloadRecheck == {"always", "generation", "config"}

ChooseUnload(u) ==
    /\ pc[u] = "idle"
    /\ \E kind \in UnloadRecheck, c \in ConfigOrNone :
        /\ kind = "config" => c # None
        /\ kind = "generation" => c = filename
        /\ kind = "always" => c = None
        /\ recheck' = [recheck EXCEPT ![u] = kind]
        /\ target' = [target EXCEPT ![u] = c]
    /\ fresh' = fresh \cup {u}
    /\ Move(u, "chosen")
    /\ UNCHANGED <<configVars, switchVars, userVars, queueVars, requestVars, backendVars>>

StillUnloadable(u) ==
    /\ recheck[u] = "generation" => u \in fresh /\ filename # None
    /\ recheck[u] = "config" => filename = target[u]

InClaim(u) ==
    \/ pc[u] = "chosen"
    \/ pc[u] = "claimQueued" /\ u \notin asleep

\* stillUnloadable reports an error.  The rechecks of a generation and of a
\* config also report that the context has ended, which may be at any time.
RefuseClaim(u) ==
    /\ InClaim(u)
    /\ ~StillUnloadable(u) \/ recheck[u] # "always"
    /\ PassQueue(u)
    /\ Move(u, "idle")
    /\ UNCHANGED <<configVars, switchVars, userVars, requestVars, unloadVars, backendVars>>

AwaitClaim(u) ==
    /\ InClaim(u)
    /\ StillUnloadable(u)
    /\ switching \/ users > 0 \/ ~MaySwitch(u)
    /\ JoinAndSleep(u)
    /\ Move(u, "claimQueued")
    /\ UNCHANGED <<configVars, switchVars, userVars, requestVars, unloadVars, backendVars>>

ClaimIdle(u) ==
    /\ InClaim(u)
    /\ StillUnloadable(u)
    /\ ~switching
    /\ users = 0
    /\ MaySwitch(u)
    /\ BumpGeneration
    /\ PassQueue(u)
    /\ BeginRuntimeSwitch(FALSE)
    /\ filename' = None
    /\ physical' = None
    /\ Move(u, "unloading")
    /\ UNCHANGED <<pending, userVars, requestVars, recheck, target, backendVars>>

GiveUpClaim(u) ==
    /\ pc[u] = "claimQueued"
    /\ LeaveQueue(u)
    /\ Move(u, "idle")
    /\ UNCHANGED <<configVars, switchVars, userVars, requestVars, unloadVars, backendVars>>

\* Unload or Stop answers, with or without an error; finishRuntimeSwitch.
FinishUnload(u) ==
    /\ pc[u] = "unloading"
    /\ backend' \in {backend, None, Dead}
    /\ EndRuntimeSwitch
    /\ Notify
    /\ Move(u, "idle")
    /\ UNCHANGED <<configVars, userVars, waiters, ahead, window, requestVars,
                   unloadVars, attempt, crashes>>

-----------------------------------------------------------------------------
Init ==
    /\ pc = [p \in Procs |-> "idle"]
    /\ filename = None /\ physical = None /\ pending = None
    /\ switching = FALSE /\ switchingForBorrowed = FALSE
    /\ users = 0 /\ borrowedUsers = 0
    /\ waiters = {} /\ window = {} /\ asleep = {}
    /\ ahead = [p \in Procs |-> {}]
    /\ preemption = [r \in Requests |-> "open"]
    /\ recovered = {}
    /\ fresh = {}
    /\ recheck = [u \in Unloaders |-> "always"]
    /\ target = [u \in Unloaders |-> None]
    /\ backend = None /\ attempt = 0 /\ crashes = 0

\* Mutant: only leases count as work.
OwnLeases == users > borrowedUsers

\* busyWithOwnWorkLocked
BusyWithOwnWork == users > borrowedUsers \/ (switching /\ ~switchingForBorrowed)

Acquire(r) == Reuse(r) \/ HandBack(r) \/ Await(r) \/ BeginSwitch(r)
Load(r) == LoadLost(r) \/ FinishSwitch(r) \/ AbandonSwitch(r)
           \/ FinishReload(r) \/ FailReload(r)
Recover(r) == AwaitReload(r) \/ BeginReload(r)
Claim(u) == RefuseClaim(u) \/ AwaitClaim(u) \/ ClaimIdle(u)

RequestNext(r) ==
    \/ Arrive(r) \/ Acquire(r) \/ GiveUp(r) \/ Preempt(r)
    \/ Load(r)
    \/ ReleaseLease(r)
    \/ Recover(r) \/ GiveUpReload(r)

UnloaderNext(u) == ChooseUnload(u) \/ Claim(u) \/ GiveUpClaim(u) \/ FinishUnload(u)

Next ==
    \/ \E r \in Requests : RequestNext(r)
    \/ \E u \in Unloaders : UnloaderNext(u)
    \/ Crash

Spec == Init /\ [][Next]_vars

\* Fairness: a goroutine that can run is scheduled, a load or an unload
\* answers (both have deadlines), a served request ends and returns its
\* lease.  Contexts need not end, crashes, arrivals and preemptions need
\* not happen.
Fairness ==
    /\ \A r \in Requests :
        /\ WF_vars(Acquire(r))
        /\ WF_vars(Load(r))
        /\ WF_vars(ReleaseLease(r))
        /\ WF_vars(pc[r] = "reloadQueued" /\ Recover(r))
    /\ \A u \in Unloaders :
        /\ WF_vars(Claim(u))
        /\ WF_vars(FinishUnload(u))

FairSpec == Spec /\ Fairness

\* The same under load: every stream keeps sending requests.
BusySpec == FairSpec /\ \A r \in Requests : WF_vars(Arrive(r))

-----------------------------------------------------------------------------
(* Invariants                                                              *)

Holders == {r \in Requests : pc[r] \in Holding}
Switchers == {p \in Procs : pc[p] \in InSwitch}

TypeOK ==
    /\ pc \in [Procs -> RequestPC \cup UnloaderPC]
    /\ \A r \in Requests : pc[r] \in RequestPC
    /\ \A u \in Unloaders : pc[u] \in UnloaderPC
    /\ filename \in ConfigOrNone
    /\ physical \in ConfigOrNone
    /\ pending \in ConfigOrNone
    /\ switching \in BOOLEAN
    /\ switchingForBorrowed \in BOOLEAN
    /\ users \in Nat
    /\ borrowedUsers \in Nat
    /\ waiters \in SUBSET Procs
    /\ ahead \in [Procs -> SUBSET Procs]
    /\ window \in SUBSET Procs
    /\ asleep \in SUBSET Procs
    /\ preemption \in [Requests -> {"open", "started", "preempted"}]
    /\ recovered \in SUBSET Requests
    /\ fresh \in SUBSET Unloaders
    /\ recheck \in [Unloaders -> UnloadRecheck]
    /\ target \in [Unloaders -> ConfigOrNone]
    /\ backend \in BackendState
    /\ attempt \in 0..ModelLoadAttempts
    /\ crashes \in 0..MaxCrashes

\* A config is only ever changed by one goroutine, and while it does so no
\* other goroutine holds a lease: no request is answered by a backend that
\* is being switched, reloaded or unloaded under it.
SwitchIsExclusive ==
    /\ switching <=> Switchers # {}
    /\ \A p, q \in Switchers : p = q
    /\ \A p \in Switchers : Holders \subseteq {p}

\* The counters the admission conditions read are the leases that exist, so
\* no exit path (hand-back, abandoned load, failed recovery) loses or doubles
\* a release and a drained lane is seen as drained.
LeasesAccounted ==
    /\ users = Cardinality(Holders)
    /\ borrowedUsers = Cardinality(Holders \cap Borrowed)

\* Whoever holds a lease is in front of a backend that has loaded a config
\* which serves it, or that died (and may have been restarted empty).  A
\* sibling config may serve a request unless it was acquired with
\* exactPhysicalConfig.
Serves(c, r) == c = Want[r] \/ (r \notin Exact /\ Siblings(c, Want[r]))

LeaseMatchesBackend ==
    \A r \in Requests :
        pc[r] = "serving" => backend \in {None, Dead} \/ Serves(backend, r)

\* Outside a switch the recorded config is what the backend has (or had,
\* before it died): a load or an unload that failed half-way never leaves a
\* record a later request would reuse.
RecordMatchesBackend ==
    ~switching /\ filename # None =>
        /\ backend \in {physical, None, Dead}
        /\ filename = physical \/ Siblings(physical, filename)

\* A ticket is in the queue exactly while its goroutine is waiting: a ticket
\* that outlives its goroutine would block every later switch for good.
NoOrphanTicket ==
    /\ waiters = {p \in Procs : pc[p] \in InQueue}
    /\ asleep \cup window \subseteq waiters

\* No lost wakeup: a goroutine asleep on state.changed has nothing to do.
\* Whatever could let it proceed (a drained lane, a finished load, an older
\* ticket that left) has closed the channel it sleeps on.
MustWait(p) ==
    IF pc[p] = "queued"
    THEN ~MayLease(p) /\ (Matches(p) \/ switching \/ users > 0 \/ ~MaySwitch(p))
    ELSE switching \/ users > 0 \/ ~MaySwitch(p)

NoLostWakeup ==
    \A p \in asleep : pc[p] \in {"queued", "claimQueued"} => MustWait(p)

\* A borrowed request that was handed back to its node is not also run here.
PreemptedNeverHolds ==
    \A r \in Holders : preemption[r] # "preempted"

\* busyWithOwnWorkLocked is what this node's idleness, and so its willingness
\* to borrow, is judged by.  It is true exactly when a request of its own
\* holds a lease or a switch for its own sake is under way.
OwnWorkIsSeen ==
    BusyWithOwnWork <=> \/ Holders \ Borrowed # {}
                        \/ Switchers \ Borrowed # {}

-----------------------------------------------------------------------------
(* Action properties                                                       *)

\* An unload that was decided on an earlier look at the lane never takes
\* away another config than the one it was decided on.
ClaimHitsItsTarget ==
    [][\A u \in Unloaders :
          /\ recheck[u] # "always"
          /\ pc[u] # "unloading"
          /\ pc'[u] = "unloading"
          => filename = target[u]]_vars

\* A switch does not throw a config out while requests that arrived before
\* it was loaded are still waiting to use it.
SwitchSparesWindow ==
    [][\A r, q \in Requests :
          /\ pc[r] # "loading"
          /\ pc'[r] = "loading"
          => ~(pc[q] = "queued" /\ q \in window /\ Matches(q))]_vars

-----------------------------------------------------------------------------
(* Liveness                                                                *)

\* A request in the switch queue is not starved, even by an endless stream
\* of requests for the config that is loaded.
NoStarvation ==
    \A r \in Requests : pc[r] = "queued" ~> pc[r] # "queued"

\* A recovery that is the only user left starts its reload.
RecoveryProceeds ==
    \A r \in Requests :
        pc[r] = "reloadQueued" /\ users = 1 /\ ~switching
            ~> pc[r] # "reloadQueued"

\* A crashed backend is reloaded: the lane does not stay recorded as serving
\* a config that the restarted process has not loaded.
CrashedIsReloaded ==
    filename # None /\ backend = None ~> filename = None \/ backend # None

-----------------------------------------------------------------------------
(* The lane implements the abstract lease.                                 *)

Lease == INSTANCE RuntimeLease WITH
    CanServe <- Serves,
    loaded <- IF switching THEN None ELSE physical,
    holders <- Holders,
    exclusive <- Switchers

ImplementsLease == Lease!Spec
=============================================================================
