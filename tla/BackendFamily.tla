--------------------------- MODULE BackendFamily ---------------------------
(***************************************************************************)
(* Switching the node between backend families (KoboldCpp, llama.cpp +     *)
(* sd.cpp, vLLM): backendFamilySwitchState of backend_family.go and the    *)
(* path of a request through it, acquireModelConfigForBackendMode, down to *)
(* its lease on a lane.  Only one family may have primary processes at a   *)
(* time, so a switch first drains the family leases, then claims every     *)
(* primary lane of the old family, stops it and starts the new one.        *)
(*                                                                         *)
(* A lane appears here as the promise of RuntimeLease: leases are shared   *)
(* and a change of its config is exclusive.  LanesKeepPromise checks that  *)
(* every lane of this composition behaves that way.                        *)
(***************************************************************************)
EXTENDS Naturals, FiniteSets

CONSTANTS
    Requests,
    Modes,         \* backend families
    Lanes,         \* runtimes of all families
    LaneMode,      \* the family of a lane
    Primary,       \* lanes stopped with their family (not the embeddings lane)
    LaneOf,        \* the lane a request runs on
    Policy,        \* lanes the unload policy of a request's config names
    StartsProcess, \* families whose start hook launches a process
    NoMode         \* the mode after a stop whose start failed

ASSUME FamilyAssumption ==
    /\ NoMode \notin Modes
    /\ LaneMode \in [Lanes -> Modes]
    /\ Primary \subseteq Lanes
    /\ LaneOf \in [Requests -> Lanes]
    /\ Policy \in [Requests -> SUBSET Lanes]
    /\ \A r \in Requests : \A l \in Policy[r] : LaneMode[l] = LaneMode[LaneOf[r]]
    /\ StartsProcess \subseteq Modes
    /\ IsFiniteSet(Requests)

VARIABLES
    pc,
    mode,       \* the family that runs
    switching,
    leases,     \* requests between leaseBackendFamily and its release
    asleep,     \* requests blocked on the family's changed channel
    unloads,    \* lanes a request's unload policy has still to unload
    holders,    \* lane leases
    exclusive,  \* who has claimed a lane for a load, an unload or a stop
    loaded,     \* lanes with a model
    up          \* lanes with a process

familyVars == <<mode, switching, leases, asleep>>
laneVars == <<holders, exclusive, loaded, up>>
vars == <<pc, familyVars, unloads, laneVars>>

ModeOf(r) == LaneMode[LaneOf[r]]
PrimaryLanes(m) == {l \in Primary : LaneMode[l] = m}

Switching == {"draining", "claiming", "switchStarting"}
Leased == {"starting", "policy", "policyFailed", "acquire", "loading", "granted"}
Holding == {"granted", "serving", "reloading", "recovered"}
PCs == {"idle", "waitFamily"} \cup Switching \cup Leased \cup Holding

Move(r, to) == pc' = [pc EXCEPT ![r] = to]

-----------------------------------------------------------------------------
(* The lane operations a request uses: the promise of RuntimeLease.        *)

\* Mutant: leases do not keep a change out.
Unclaimed(l) == exclusive[l] = {}

Free(l) == exclusive[l] = {} /\ holders[l] = {}

SetExclusive(l, S) == exclusive' = [exclusive EXCEPT ![l] = S]

\* finishRuntimeSwitch for every lane r has claimed.
ReleaseClaims(r) == exclusive' = [l \in Lanes |-> exclusive[l] \ {r}]

Claims(r) == {l \in Lanes : r \in exclusive[l]}

-----------------------------------------------------------------------------
(* leaseBackendFamily                                                      *)

Ready(r) == pc[r] = "idle" \/ (pc[r] = "waitFamily" /\ r \notin asleep)

\* The family is the running one: lease it, then make sure it is started.
TakeLease(r) ==
    /\ Ready(r)
    /\ ~switching
    /\ mode = ModeOf(r)
    /\ leases' = leases + 1
    /\ Move(r, "starting")
    /\ UNCHANGED <<mode, switching, asleep, unloads, laneVars>>

AwaitFamily(r) ==
    /\ Ready(r)
    /\ switching
    /\ asleep' = asleep \cup {r}
    /\ Move(r, "waitFamily")
    /\ UNCHANGED <<mode, switching, leases, unloads, laneVars>>

GiveUpFamily(r) ==
    /\ pc[r] = "waitFamily"
    /\ asleep' = asleep \ {r}
    /\ Move(r, "idle")
    /\ UNCHANGED <<mode, switching, leases, unloads, laneVars>>

BeginFamilySwitch(r) ==
    /\ Ready(r)
    /\ ~switching
    /\ mode # ModeOf(r)
    /\ switching' = TRUE
    /\ Move(r, "draining")
    /\ UNCHANGED <<mode, leases, asleep, unloads, laneVars>>

\* startBackend: the processes of the family are up, or the start failed and
\* killed what it had spawned.  Families without a hook start on a load.
StartHook(m, ok) ==
    up' = [l \in Lanes |-> IF m \in StartsProcess /\ l \in PrimaryLanes(m)
                           THEN ok ELSE up[l]]

\* Mutant: the last lease is returned without waking the switch.
ReturnLeaseSilently ==
    /\ leases' = leases - 1
    /\ UNCHANGED asleep

\* The release function of takeLeaseLocked.
ReturnLease ==
    /\ leases' = leases - 1
    /\ asleep' = IF leases = 1 THEN {} ELSE asleep

\* enforceUnloadPolicy reads the lanes one by one, each twice and without
\* keeping its lock, and selects those that seem to hold something else than
\* the config wanted: any of the lanes the policy names may be selected.
EnterPolicy(r) ==
    /\ Move(r, "policy")
    /\ \E different \in SUBSET Policy[r] :
        unloads' = [unloads EXCEPT ![r] = different]

Started(r) ==
    /\ pc[r] = "starting"
    /\ StartHook(ModeOf(r), TRUE)
    /\ EnterPolicy(r)
    /\ UNCHANGED <<familyVars, holders, exclusive, loaded>>

\* Mutant: the error path of the start hook keeps the lease.
StartFailsLeased(r) ==
    /\ pc[r] = "starting"
    /\ StartHook(ModeOf(r), FALSE)
    /\ Move(r, "idle")
    /\ UNCHANGED <<familyVars, unloads, holders, exclusive, loaded>>

StartFails(r) ==
    /\ pc[r] = "starting"
    /\ StartHook(ModeOf(r), FALSE)
    /\ ReturnLease
    /\ Move(r, "idle")
    /\ UNCHANGED <<mode, switching, unloads, holders, exclusive, loaded>>

-----------------------------------------------------------------------------
(* switchBackendFamily                                                     *)

\* finishBackendFamilySwitch without a lease.
EndSwitch(next) ==
    /\ mode' = next
    /\ switching' = FALSE
    /\ asleep' = {}

AwaitDrain(r) ==
    /\ pc[r] = "draining"
    /\ r \notin asleep
    /\ leases > 0
    /\ asleep' = asleep \cup {r}
    /\ UNCHANGED <<pc, mode, switching, leases, unloads, laneVars>>

Drained(r) ==
    /\ pc[r] = "draining"
    /\ r \notin asleep
    /\ leases = 0
    /\ Move(r, IF mode = NoMode THEN "switchStarting" ELSE "claiming")
    /\ UNCHANGED <<familyVars, unloads, laneVars>>

\* The context ends before the drain or before all lanes are claimed.
AbandonFamilySwitch(r) ==
    /\ pc[r] \in {"draining", "claiming"}
    /\ ReleaseClaims(r)
    /\ EndSwitch(mode)
    /\ Move(r, "idle")
    /\ UNCHANGED <<leases, unloads, holders, loaded, up>>

\* lockRuntimeForBackendStop of one primary lane of the old family.
ClaimForStop(r, l) ==
    /\ pc[r] = "claiming"
    /\ l \in PrimaryLanes(mode)
    /\ Free(l)
    /\ SetExclusive(l, {r})
    /\ loaded' = [loaded EXCEPT ![l] = FALSE]
    /\ UNCHANGED <<pc, familyVars, unloads, holders, up>>

\* Mutant: the stop does not wait for the lanes.
NoneClaimed(r) == TRUE

AllClaimed(r) == PrimaryLanes(mode) \subseteq Claims(r)

\* stopPrimaryBackend succeeds, and the lanes are given back.
StopFamily(r) ==
    /\ pc[r] = "claiming"
    /\ AllClaimed(r)
    /\ up' = [l \in Lanes |-> up[l] /\ l \notin PrimaryLanes(mode)]
    /\ ReleaseClaims(r)
    /\ Move(r, "switchStarting")
    /\ UNCHANGED <<familyVars, unloads, holders, loaded>>

\* It fails: some processes may have stopped, the old family stays current.
StopFamilyFails(r) ==
    /\ pc[r] = "claiming"
    /\ AllClaimed(r)
    /\ \E stopped \in SUBSET PrimaryLanes(mode) :
        up' = [l \in Lanes |-> up[l] /\ l \notin stopped]
    /\ ReleaseClaims(r)
    /\ EndSwitch(mode)
    /\ Move(r, "idle")
    /\ UNCHANGED <<leases, unloads, holders, loaded>>

FinishFamilySwitch(r) ==
    /\ pc[r] = "switchStarting"
    /\ StartHook(ModeOf(r), TRUE)
    /\ EndSwitch(ModeOf(r))
    /\ leases' = leases + 1
    /\ EnterPolicy(r)
    /\ UNCHANGED <<holders, exclusive, loaded>>

SwitchStartFails(r) ==
    /\ pc[r] = "switchStarting"
    /\ StartHook(ModeOf(r), FALSE)
    /\ EndSwitch(NoMode)
    /\ Move(r, "idle")
    /\ UNCHANGED <<leases, unloads, holders, exclusive, loaded>>

-----------------------------------------------------------------------------
(* enforceUnloadPolicy: one goroutine per lane to unload.                  *)

ClaimForUnload(r, l) ==
    /\ l \in unloads[r]
    /\ Free(l)
    /\ unloads' = [unloads EXCEPT ![r] = @ \ {l}]
    /\ SetExclusive(l, {r})
    /\ loaded' = [loaded EXCEPT ![l] = FALSE]
    /\ UNCHANGED <<pc, familyVars, holders, up>>

GiveUpUnload(r, l) ==
    /\ l \in unloads[r]
    /\ unloads' = [unloads EXCEPT ![r] = @ \ {l}]
    /\ Move(r, "policyFailed")
    /\ UNCHANGED <<familyVars, laneVars>>

FinishUnload(r, l) ==
    /\ pc[r] \in {"policy", "policyFailed"}
    /\ exclusive[l] = {r}
    /\ SetExclusive(l, {})
    /\ \/ up' = [up EXCEPT ![l] = FALSE] /\ UNCHANGED pc
       \/ UNCHANGED <<up, pc>>
       \/ Move(r, "policyFailed") /\ UNCHANGED up
    /\ UNCHANGED <<familyVars, unloads, holders, loaded>>

UnloadsDone(r) == unloads[r] = {} /\ Claims(r) = {}

PolicyEnforced(r) ==
    /\ pc[r] = "policy"
    /\ UnloadsDone(r)
    /\ Move(r, "acquire")
    /\ UNCHANGED <<familyVars, unloads, laneVars>>

PolicyFails(r) ==
    /\ pc[r] = "policyFailed"
    /\ UnloadsDone(r)
    /\ ReturnLease
    /\ Move(r, "idle")
    /\ UNCHANGED <<mode, switching, unloads, laneVars>>

-----------------------------------------------------------------------------
(* The lane lease, the return of the family lease, and the request itself. *)

ReuseLane(r) ==
    /\ pc[r] = "acquire"
    /\ exclusive[LaneOf[r]] = {}
    /\ loaded[LaneOf[r]]
    /\ holders' = [holders EXCEPT ![LaneOf[r]] = @ \cup {r}]
    /\ Move(r, "granted")
    /\ UNCHANGED <<familyVars, unloads, exclusive, loaded, up>>

BeginLoad(r) ==
    /\ pc[r] = "acquire"
    /\ Free(LaneOf[r])
    /\ SetExclusive(LaneOf[r], {r})
    /\ loaded' = [loaded EXCEPT ![LaneOf[r]] = FALSE]
    /\ Move(r, "loading")
    /\ UNCHANGED <<familyVars, unloads, holders, up>>

FinishLoad(r) ==
    /\ pc[r] = "loading"
    /\ SetExclusive(LaneOf[r], {})
    /\ loaded' = [loaded EXCEPT ![LaneOf[r]] = TRUE]
    /\ up' = [up EXCEPT ![LaneOf[r]] = TRUE]
    /\ holders' = [holders EXCEPT ![LaneOf[r]] = @ \cup {r}]
    /\ Move(r, "granted")
    /\ UNCHANGED <<familyVars, unloads>>

\* The load fails, leaving a process or not.
LoadFails(r) ==
    /\ pc[r] = "loading"
    /\ SetExclusive(LaneOf[r], {})
    /\ \E alive \in BOOLEAN : up' = [up EXCEPT ![LaneOf[r]] = alive]
    /\ ReturnLease
    /\ Move(r, "idle")
    /\ UNCHANGED <<mode, switching, unloads, holders, loaded>>

GiveUpLane(r) ==
    /\ pc[r] = "acquire"
    /\ ReturnLease
    /\ Move(r, "idle")
    /\ UNCHANGED <<mode, switching, unloads, laneVars>>

\* The deferred releaseFamily: from here only the lane lease protects r.
ReturnFamily(r) ==
    /\ pc[r] = "granted"
    /\ ReturnLease
    /\ Move(r, "serving")
    /\ UNCHANGED <<mode, switching, unloads, laneVars>>

\* reloadHeldModelConfig, once per request, under the lane lease alone.
BeginReload(r) ==
    /\ pc[r] = "serving"
    /\ exclusive[LaneOf[r]] = {}
    /\ holders[LaneOf[r]] = {r}
    /\ SetExclusive(LaneOf[r], {r})
    /\ loaded' = [loaded EXCEPT ![LaneOf[r]] = FALSE]
    /\ Move(r, "reloading")
    /\ UNCHANGED <<familyVars, unloads, holders, up>>

EndReload(r) ==
    /\ pc[r] = "reloading"
    /\ SetExclusive(LaneOf[r], {})
    /\ \E ok, alive \in BOOLEAN :
        /\ ok => alive
        /\ loaded' = [loaded EXCEPT ![LaneOf[r]] = ok]
        /\ up' = [up EXCEPT ![LaneOf[r]] = alive]
    /\ Move(r, "recovered")
    /\ UNCHANGED <<familyVars, unloads, holders>>

Release(r) ==
    /\ pc[r] \in {"serving", "recovered"}
    /\ holders' = [holders EXCEPT ![LaneOf[r]] = @ \ {r}]
    /\ Move(r, "idle")
    /\ UNCHANGED <<familyVars, unloads, exclusive, loaded, up>>

-----------------------------------------------------------------------------
Init ==
    /\ pc = [r \in Requests |-> "idle"]
    /\ mode \in Modes
    /\ switching = FALSE
    /\ leases = 0
    /\ asleep = {}
    /\ unloads = [r \in Requests |-> {}]
    /\ holders = [l \in Lanes |-> {}]
    /\ exclusive = [l \in Lanes |-> {}]
    /\ loaded = [l \in Lanes |-> FALSE]
    /\ up = [l \in Lanes |-> FALSE]

LeaseFamily(r) == TakeLease(r) \/ AwaitFamily(r) \/ BeginFamilySwitch(r)
StartFamily(r) == Started(r) \/ StartFails(r)
SwitchFamily(r) ==
    \/ AwaitDrain(r) \/ Drained(r)
    \/ \E l \in Lanes : ClaimForStop(r, l)
    \/ StopFamily(r) \/ StopFamilyFails(r)
    \/ FinishFamilySwitch(r) \/ SwitchStartFails(r)
EnforcePolicy(r) ==
    \/ \E l \in Lanes : ClaimForUnload(r, l) \/ FinishUnload(r, l)
    \/ PolicyEnforced(r) \/ PolicyFails(r)
UseLane(r) ==
    \/ ReuseLane(r) \/ BeginLoad(r) \/ FinishLoad(r) \/ LoadFails(r)
    \/ ReturnFamily(r) \/ EndReload(r) \/ Release(r)
GiveUp(r) ==
    \/ GiveUpFamily(r) \/ AbandonFamilySwitch(r) \/ GiveUpLane(r)
    \/ \E l \in Lanes : GiveUpUnload(r, l)

Next ==
    \E r \in Requests :
        \/ LeaseFamily(r) \/ StartFamily(r) \/ SwitchFamily(r)
        \/ EnforcePolicy(r) \/ UseLane(r) \/ BeginReload(r) \/ GiveUp(r)

Spec == Init /\ [][Next]_vars

\* Goroutines run, starts, stops, loads and requests end.  New requests need
\* not arrive and contexts need not end.
Fairness ==
    \A r \in Requests :
        /\ WF_vars(pc[r] = "waitFamily" /\ LeaseFamily(r))
        /\ WF_vars(StartFamily(r))
        /\ WF_vars(SwitchFamily(r))
        /\ WF_vars(EnforcePolicy(r))
        /\ WF_vars(UseLane(r))

FairSpec == Spec /\ Fairness

-----------------------------------------------------------------------------
TypeOK ==
    /\ pc \in [Requests -> PCs]
    /\ mode \in Modes \cup {NoMode}
    /\ switching \in BOOLEAN
    /\ leases \in Nat
    /\ asleep \in SUBSET Requests
    /\ unloads \in [Requests -> SUBSET Lanes]
    /\ holders \in [Lanes -> SUBSET Requests]
    /\ exclusive \in [Lanes -> SUBSET Requests]
    /\ loaded \in [Lanes -> BOOLEAN]
    /\ up \in [Lanes -> BOOLEAN]

\* The count a switch drains on is the number of requests that are between
\* leaseBackendFamily and their release, on every failure path too.
FamilyLeasesAccounted == leases = Cardinality({r \in Requests : pc[r] \in Leased})

\* A request that uses a primary lane, with a family lease or with a lane
\* lease only, uses a lane of the family that is current: a family switch
\* never takes the backend away from under a request.
UsersRunOnCurrentFamily ==
    \A r \in Requests :
        pc[r] \in Leased \/ (pc[r] \in Holding /\ LaneOf[r] \in Primary)
            => mode = ModeOf(r)

\* The primary processes of two families are never up together.
OneFamilyUp ==
    \A k, l \in Primary : up[k] /\ up[l] => LaneMode[k] = LaneMode[l]

\* One switch at a time; every claim on a lane belongs to a goroutine that
\* will give it back.
NoOrphanClaim ==
    /\ \A r, s \in Requests : pc[r] \in Switching /\ pc[s] \in Switching => r = s
    /\ switching <=> \E r \in Requests : pc[r] \in Switching
    /\ \A r \in Requests :
        Claims(r) # {} =>
            pc[r] \in {"claiming", "policy", "policyFailed", "loading", "reloading"}

\* Nobody sleeps on the family's channel while there is something to do.
FamilyNoLostWakeup ==
    \A r \in asleep : IF pc[r] = "draining" THEN leases > 0 ELSE switching

\* The family's own state stays consistent through drains, claims and failures:
\* leases are counted exactly, one family is up, no lane stays claimed after its
\* switch, and nobody sleeps on a condition that holds.
FamilySafe ==
    TypeOK /\ FamilyLeasesAccounted /\ OneFamilyUp /\ NoOrphanClaim /\ FamilyNoLostWakeup

\* Every lane keeps the promise of RuntimeLease towards the family code.
AnyServes(c, r) == TRUE

Lane(l) == INSTANCE RuntimeLease WITH
    Unloaders <- {},
    Configs <- {TRUE},
    None <- FALSE,
    CanServe <- AnyServes,
    loaded <- loaded[l],
    holders <- holders[l],
    exclusive <- exclusive[l]

LanesKeepPromise ==
    /\ \A l \in Lanes : Lane(l)!Init
    /\ [][\A l \in Lanes : Lane(l)!Next \/ UNCHANGED Lane(l)!vars]_vars

\* A family switch that has begun ends: the drain and the claims do not wait
\* for anything that waits for the switch.
FamilySwitchEnds ==
    \A r \in Requests : pc[r] \in Switching ~> pc[r] \notin Switching
=============================================================================
