------------------------- MODULE RuntimeLaneProofs -------------------------
(***************************************************************************)
(* Theorems about RuntimeLane, for any finite set of requests, any set of  *)
(* unloaders and configs, and any bound on load attempts and crashes.      *)
(*                                                                         *)
(* The inductive invariant is LaneInv: types, the lease counters, and the  *)
(* exclusiveness of switches.  None of the last two is inductive alone:    *)
(* that a switch meets no lease follows from users = 0 in the code only    *)
(* because users counts the leases, and that a lease is taken outside a    *)
(* switch only because the flag switching tells whether one is going on.   *)
(***************************************************************************)
EXTENDS RuntimeLane, FiniteSetTheorems, TLAPS

-----------------------------------------------------------------------------
(* Type correctness                                                        *)

\* The state newActiveConfigState makes is well typed.
LEMMA InitType == Init => TypeOK
<1> SUFFICES ASSUME Init PROVE TypeOK
  OBVIOUS
<1>1. /\ pc \in [Procs -> RequestPC \cup UnloaderPC]
      /\ \A r \in Requests : pc[r] \in RequestPC
      /\ \A u \in Unloaders : pc[u] \in UnloaderPC
  BY DEF Init, Procs, RequestPC, UnloaderPC
<1>2. /\ attempt \in 0..ModelLoadAttempts
      /\ crashes \in 0..MaxCrashes
  BY LaneAssumption DEF Init
<1> QED
  BY <1>1, <1>2 DEF Init, TypeOK, ConfigOrNone, BackendState, UnloadRecheck

\* Every operation of the lane keeps the types.
LEMMA TypeStep == TypeOK /\ [Next]_vars => TypeOK'
<1> SUFFICES ASSUME TypeOK, [Next]_vars PROVE TypeOK'
  OBVIOUS
<1> USE LaneAssumption
    DEF TypeOK, Procs, ConfigOrNone, BackendState, RequestPC, UnloaderPC,
        Holding, UnloadRecheck, Move, configVars, switchVars, userVars,
        queueVars, requestVars, unloadVars, backendVars
<1>1. ASSUME NEW r \in Requests, Arrive(r) PROVE TypeOK'
  BY <1>1 DEF Arrive
<1>2. ASSUME NEW r \in Requests, Reuse(r) PROVE TypeOK'
  BY <1>2 DEF Reuse, LeaveQueue, RemoveTicket, AddLease
<1>3. ASSUME NEW r \in Requests, HandBack(r) PROVE TypeOK'
  BY <1>3 DEF HandBack, LeaveQueue, RemoveTicket, ReturnToCaller
<1>4. ASSUME NEW r \in Requests, Await(r) PROVE TypeOK'
  BY <1>4 DEF Await, JoinAndSleep, AheadOf
<1>5. ASSUME NEW r \in Requests, BeginSwitch(r) PROVE TypeOK'
  BY <1>5 DEF BeginSwitch, PassQueue, RemoveTicket, Notify, BeginRuntimeSwitch
<1>6. ASSUME NEW r \in Requests, GiveUp(r) PROVE TypeOK'
  BY <1>6 DEF GiveUp, LeaveQueue, RemoveTicket, ReturnToCaller
<1>7. ASSUME NEW r \in Requests, Preempt(r) PROVE TypeOK'
  BY <1>7 DEF Preempt
<1>8. ASSUME NEW r \in Requests, LoadLost(r) PROVE TypeOK'
  BY <1>8 DEF LoadLost, AttemptsLeft
<1>9. ASSUME NEW r \in Requests, FinishSwitch(r) PROVE TypeOK'
  <2>1. /\ pc' \in [Procs -> RequestPC \cup UnloaderPC]
        /\ \A q \in Requests : pc'[q] \in RequestPC
        /\ \A u \in Unloaders : pc'[u] \in UnloaderPC
    BY <1>9 DEF FinishSwitch, EndRuntimeSwitch, RecordLoad, BumpGeneration, Notify, ReturnToCaller, AddLease
  <2>2. /\ filename' \in ConfigOrNone
        /\ physical' \in ConfigOrNone
        /\ pending' \in ConfigOrNone
        /\ backend' \in BackendState
        /\ attempt' \in 0..ModelLoadAttempts
        /\ crashes' \in 0..MaxCrashes
    BY <1>9 DEF FinishSwitch, EndRuntimeSwitch, RecordLoad, BumpGeneration, Notify, ReturnToCaller, AddLease
  <2>3. /\ switching' \in BOOLEAN
        /\ switchingForBorrowed' \in BOOLEAN
        /\ users' \in Nat
        /\ borrowedUsers' \in Nat
    <3>1. switching' \in BOOLEAN /\ switchingForBorrowed' \in BOOLEAN
      BY <1>9 DEF FinishSwitch, EndRuntimeSwitch
    <3>2. \/ users' = users /\ borrowedUsers' = borrowedUsers
          \/ /\ users' = users + 1
             /\ borrowedUsers' \in {borrowedUsers, borrowedUsers + 1}
      BY <1>9 DEF FinishSwitch, AddLease
    <3>3. users' \in Nat /\ borrowedUsers' \in Nat
      BY <3>2
    <3> QED
      BY <3>1, <3>3
  <2>4. /\ preemption' \in [Requests -> {"open", "started", "preempted"}]
        /\ recovered' \in SUBSET Requests
        /\ fresh' \in SUBSET Unloaders
        /\ recheck' \in [Unloaders -> UnloadRecheck]
        /\ target' \in [Unloaders -> ConfigOrNone]
    BY <1>9 DEF FinishSwitch, EndRuntimeSwitch, RecordLoad, BumpGeneration, Notify, ReturnToCaller, AddLease
  <2>5. /\ waiters' \in SUBSET Procs
        /\ ahead' \in [Procs -> SUBSET Procs]
        /\ window' \in SUBSET Procs
        /\ asleep' \in SUBSET Procs
    BY <1>9 DEF FinishSwitch, EndRuntimeSwitch, RecordLoad, BumpGeneration, Notify, ReturnToCaller, AddLease
  <2> QED
    BY <2>1, <2>2, <2>3, <2>4, <2>5
<1>10. ASSUME NEW r \in Requests, AbandonSwitch(r) PROVE TypeOK'
  <2>1. /\ pc' \in [Procs -> RequestPC \cup UnloaderPC]
        /\ \A q \in Requests : pc'[q] \in RequestPC
        /\ \A u \in Unloaders : pc'[u] \in UnloaderPC
    BY <1>10 DEF AbandonSwitch, LoadLeaves, EndRuntimeSwitch, ClearRecord, Notify, ReturnToCaller
  <2>2. /\ filename' \in ConfigOrNone
        /\ physical' \in ConfigOrNone
        /\ pending' \in ConfigOrNone
        /\ backend' \in BackendState
        /\ attempt' \in 0..ModelLoadAttempts
        /\ crashes' \in 0..MaxCrashes
    BY <1>10 DEF AbandonSwitch, LoadLeaves, EndRuntimeSwitch, ClearRecord, Notify, ReturnToCaller
  <2>3. /\ switching' \in BOOLEAN
        /\ switchingForBorrowed' \in BOOLEAN
        /\ users' \in Nat
        /\ borrowedUsers' \in Nat
    BY <1>10 DEF AbandonSwitch, LoadLeaves, EndRuntimeSwitch, ClearRecord, Notify, ReturnToCaller
  <2>4. /\ preemption' \in [Requests -> {"open", "started", "preempted"}]
        /\ recovered' \in SUBSET Requests
        /\ fresh' \in SUBSET Unloaders
        /\ recheck' \in [Unloaders -> UnloadRecheck]
        /\ target' \in [Unloaders -> ConfigOrNone]
    BY <1>10 DEF AbandonSwitch, LoadLeaves, EndRuntimeSwitch, ClearRecord, Notify, ReturnToCaller
  <2>5. /\ waiters' \in SUBSET Procs
        /\ ahead' \in [Procs -> SUBSET Procs]
        /\ window' \in SUBSET Procs
        /\ asleep' \in SUBSET Procs
    BY <1>10 DEF AbandonSwitch, LoadLeaves, EndRuntimeSwitch, ClearRecord, Notify, ReturnToCaller
  <2> QED
    BY <2>1, <2>2, <2>3, <2>4, <2>5
<1>11. ASSUME NEW r \in Requests, FinishReload(r) PROVE TypeOK'
  <2>1. /\ pc' \in [Procs -> RequestPC \cup UnloaderPC]
        /\ \A q \in Requests : pc'[q] \in RequestPC
        /\ \A u \in Unloaders : pc'[u] \in UnloaderPC
    BY <1>11 DEF FinishReload, EndRuntimeSwitch, RecordLoad, BumpGeneration, Notify
  <2>2. /\ filename' \in ConfigOrNone
        /\ physical' \in ConfigOrNone
        /\ pending' \in ConfigOrNone
        /\ backend' \in BackendState
        /\ attempt' \in 0..ModelLoadAttempts
        /\ crashes' \in 0..MaxCrashes
    BY <1>11 DEF FinishReload, EndRuntimeSwitch, RecordLoad, BumpGeneration, Notify
  <2>3. /\ switching' \in BOOLEAN
        /\ switchingForBorrowed' \in BOOLEAN
        /\ users' \in Nat
        /\ borrowedUsers' \in Nat
    BY <1>11 DEF FinishReload, EndRuntimeSwitch, RecordLoad, BumpGeneration, Notify
  <2>4. /\ preemption' \in [Requests -> {"open", "started", "preempted"}]
        /\ recovered' \in SUBSET Requests
        /\ fresh' \in SUBSET Unloaders
        /\ recheck' \in [Unloaders -> UnloadRecheck]
        /\ target' \in [Unloaders -> ConfigOrNone]
    BY <1>11 DEF FinishReload, EndRuntimeSwitch, RecordLoad, BumpGeneration, Notify
  <2>5. /\ waiters' \in SUBSET Procs
        /\ ahead' \in [Procs -> SUBSET Procs]
        /\ window' \in SUBSET Procs
        /\ asleep' \in SUBSET Procs
    BY <1>11 DEF FinishReload, EndRuntimeSwitch, RecordLoad, BumpGeneration, Notify
  <2> QED
    BY <2>1, <2>2, <2>3, <2>4, <2>5
<1>12. ASSUME NEW r \in Requests, FailReload(r) PROVE TypeOK'
  <2>1. /\ pc' \in [Procs -> RequestPC \cup UnloaderPC]
        /\ \A q \in Requests : pc'[q] \in RequestPC
        /\ \A u \in Unloaders : pc'[u] \in UnloaderPC
    BY <1>12 DEF FailReload, LoadLeaves, EndRuntimeSwitch, ClearRecord, Notify
  <2>2. /\ filename' \in ConfigOrNone
        /\ physical' \in ConfigOrNone
        /\ pending' \in ConfigOrNone
        /\ backend' \in BackendState
        /\ attempt' \in 0..ModelLoadAttempts
        /\ crashes' \in 0..MaxCrashes
    BY <1>12 DEF FailReload, LoadLeaves, EndRuntimeSwitch, ClearRecord, Notify
  <2>3. /\ switching' \in BOOLEAN
        /\ switchingForBorrowed' \in BOOLEAN
        /\ users' \in Nat
        /\ borrowedUsers' \in Nat
    BY <1>12 DEF FailReload, LoadLeaves, EndRuntimeSwitch, ClearRecord, Notify
  <2>4. /\ preemption' \in [Requests -> {"open", "started", "preempted"}]
        /\ recovered' \in SUBSET Requests
        /\ fresh' \in SUBSET Unloaders
        /\ recheck' \in [Unloaders -> UnloadRecheck]
        /\ target' \in [Unloaders -> ConfigOrNone]
    BY <1>12 DEF FailReload, LoadLeaves, EndRuntimeSwitch, ClearRecord, Notify
  <2>5. /\ waiters' \in SUBSET Procs
        /\ ahead' \in [Procs -> SUBSET Procs]
        /\ window' \in SUBSET Procs
        /\ asleep' \in SUBSET Procs
    BY <1>12 DEF FailReload, LoadLeaves, EndRuntimeSwitch, ClearRecord, Notify
  <2> QED
    BY <2>1, <2>2, <2>3, <2>4, <2>5
<1>13. ASSUME NEW r \in Requests, ReleaseLease(r) PROVE TypeOK'
  BY <1>13 DEF ReleaseLease, ReturnToCaller
<1>14. ASSUME NEW r \in Requests, AwaitReload(r) PROVE TypeOK'
  BY <1>14 DEF AwaitReload, JoinAndSleep, AheadOf
<1>15. ASSUME NEW r \in Requests, BeginReload(r) PROVE TypeOK'
  BY <1>15 DEF BeginReload, PassQueue, RemoveTicket, Notify, BeginRuntimeSwitch
<1>16. ASSUME NEW r \in Requests, GiveUpReload(r) PROVE TypeOK'
  BY <1>16 DEF GiveUpReload, LeaveQueue, RemoveTicket
<1>17. ASSUME NEW u \in Unloaders, ChooseUnload(u) PROVE TypeOK'
  BY <1>17 DEF ChooseUnload
<1>18. ASSUME NEW u \in Unloaders, RefuseClaim(u) PROVE TypeOK'
  BY <1>18 DEF RefuseClaim, PassQueue, RemoveTicket, Notify
<1>19. ASSUME NEW u \in Unloaders, AwaitClaim(u) PROVE TypeOK'
  BY <1>19 DEF AwaitClaim, JoinAndSleep, AheadOf
<1>20. ASSUME NEW u \in Unloaders, ClaimIdle(u) PROVE TypeOK'
  BY <1>20 DEF ClaimIdle, PassQueue, RemoveTicket, Notify, BeginRuntimeSwitch, BumpGeneration
<1>21. ASSUME NEW u \in Unloaders, GiveUpClaim(u) PROVE TypeOK'
  BY <1>21 DEF GiveUpClaim, LeaveQueue, RemoveTicket
<1>22. ASSUME NEW u \in Unloaders, FinishUnload(u) PROVE TypeOK'
  BY <1>22 DEF FinishUnload, EndRuntimeSwitch, Notify
<1>23. CASE Crash
  BY <1>23 DEF Crash
<1>24. CASE UNCHANGED vars
  BY <1>24 DEF vars
<1> QED
  BY <1>1, <1>2, <1>3, <1>4, <1>5, <1>6, <1>7, <1>8, <1>9, <1>10, <1>11, <1>12,
     <1>13, <1>14, <1>15, <1>16, <1>17, <1>18, <1>19, <1>20, <1>21, <1>22, <1>23, <1>24
  DEF Next, RequestNext, UnloaderNext, Acquire, Load, Recover, Claim

\* Every variable of the lane state keeps its type under every operation,
\* crash, preemption and failed load.
THEOREM TypeCorrect == Spec => []TypeOK
<1> QED
  BY InitType, TypeStep, PTL DEF Spec

-----------------------------------------------------------------------------
(* Leases and switches                                                     *)

\* Counting: one more holder is one more lease, borrowed or not.
LEMMA GrantCounts ==
    ASSUME NEW S \in SUBSET Requests, NEW r \in Requests, r \notin S
    PROVE  /\ Cardinality(S \cup {r}) = Cardinality(S) + 1
           /\ Cardinality((S \cup {r}) \cap Borrowed) =
                IF r \in Borrowed THEN Cardinality(S \cap Borrowed) + 1
                                  ELSE Cardinality(S \cap Borrowed)
<1>1. IsFiniteSet(S) /\ IsFiniteSet(S \cap Borrowed)
  BY LaneAssumption, FS_Subset
<1>2. Cardinality(S \cup {r}) = Cardinality(S) + 1
  BY <1>1, FS_AddElement
<1>3. CASE r \in Borrowed
  <2>1. (S \cup {r}) \cap Borrowed = (S \cap Borrowed) \cup {r}
    BY <1>3
  <2>2. Cardinality((S \cap Borrowed) \cup {r}) = Cardinality(S \cap Borrowed) + 1
    BY <1>1, FS_AddElement
  <2> QED
    BY <1>2, <1>3, <2>1, <2>2
<1>4. CASE r \notin Borrowed
  <2>1. (S \cup {r}) \cap Borrowed = S \cap Borrowed
    BY <1>4
  <2> QED
    BY <1>2, <1>4, <2>1
<1> QED
  BY <1>3, <1>4

\* Counting: one holder less is one lease less; the tests against zero in
\* releaseActiveConfigUserLocked never fire on a lease that exists.
LEMMA DropCounts ==
    ASSUME NEW S \in SUBSET Requests, NEW r \in S
    PROVE  /\ Cardinality(S) \in Nat \ {0}
           /\ Cardinality(S \ {r}) = Cardinality(S) - 1
           /\ r \in Borrowed => Cardinality(S \cap Borrowed) \in Nat \ {0}
           /\ Cardinality((S \ {r}) \cap Borrowed) =
                IF r \in Borrowed THEN Cardinality(S \cap Borrowed) - 1
                                  ELSE Cardinality(S \cap Borrowed)
<1>1. IsFiniteSet(S) /\ IsFiniteSet(S \cap Borrowed)
  BY LaneAssumption, FS_Subset
<1>2. Cardinality(S) \in Nat \ {0}
  BY <1>1, FS_CardinalityType, FS_EmptySet
<1>3. Cardinality(S \ {r}) = Cardinality(S) - 1
  BY <1>1, FS_RemoveElement
<1>4. CASE r \in Borrowed
  <2>1. (S \ {r}) \cap Borrowed = (S \cap Borrowed) \ {r}
    OBVIOUS
  <2>2. Cardinality((S \cap Borrowed) \ {r}) = Cardinality(S \cap Borrowed) - 1
    BY <1>1, <1>4, FS_RemoveElement
  <2>3. Cardinality(S \cap Borrowed) \in Nat \ {0}
    <3>1. S \cap Borrowed # {}
      BY <1>4
    <3> QED
      BY <1>1, <3>1, FS_CardinalityType, FS_EmptySet
  <2> QED
    BY <1>2, <1>3, <1>4, <2>1, <2>2, <2>3
<1>5. CASE r \notin Borrowed
  <2>1. (S \ {r}) \cap Borrowed = S \cap Borrowed
    BY <1>5
  <2> QED
    BY <1>2, <1>3, <1>5, <2>1
<1> QED
  BY <1>4, <1>5

\* What the counter of leases says about the set of their holders.
LEMMA DrainedLane ==
    ASSUME LeasesAccounted
    PROVE  /\ users = 0 => Holders = {}
           /\ \A r \in Holders : users <= 1 => Holders = {r}
<1>1. Holders \in SUBSET Requests
  BY DEF Holders
<1>2. IsFiniteSet(Holders) /\ Cardinality(Holders) \in Nat
  BY <1>1, LaneAssumption, FS_Subset, FS_CardinalityType
<1>3. users = 0 => Holders = {}
  BY <1>2, FS_EmptySet DEF LeasesAccounted
<1>4. ASSUME NEW r \in Holders, users <= 1 PROVE Holders = {r}
  <2>1. IsFiniteSet(Holders \ {r}) /\ Cardinality(Holders \ {r}) = Cardinality(Holders) - 1
    BY <1>2, FS_RemoveElement
  <2>2. Cardinality(Holders) # 0
    BY <1>2, FS_EmptySet
  <2>3. Cardinality(Holders \ {r}) = 0
    BY <1>2, <1>4, <2>1, <2>2 DEF LeasesAccounted
  <2>4. Holders \ {r} = {}
    BY <2>1, <2>3, FS_EmptySet
  <2> QED
    BY <2>4
<1> QED
  BY <1>3, <1>4

\* A goroutine's move changes the two sets by that goroutine only.
LEMMA MoveEffect ==
    ASSUME TypeOK, NEW p \in Procs, NEW to, Move(p, to)
    PROVE  /\ p \in Requests /\ to \in Holding => Holders' = Holders \cup {p}
           /\ ~(p \in Requests /\ to \in Holding) => Holders' = Holders \ {p}
           /\ to \in InSwitch => Switchers' = Switchers \cup {p}
           /\ to \notin InSwitch => Switchers' = Switchers \ {p}
<1>1. /\ pc'[p] = to
      /\ \A q \in Procs : q # p => pc'[q] = pc[q]
  BY DEF TypeOK, Move
<1>2. Requests \subseteq Procs
  BY DEF Procs
<1> QED
  BY <1>1, <1>2 DEF Holders, Switchers

LaneInv == TypeOK /\ LeasesAccounted /\ SwitchIsExclusive

\* A new lane satisfies the inductive invariant.
LEMMA InitLane == Init => LaneInv
<1> SUFFICES ASSUME Init PROVE LaneInv
  OBVIOUS
<1>1. Holders = {} /\ Switchers = {}
  BY DEF Init, Holders, Switchers, Holding, InSwitch, Procs
<1>2. LeasesAccounted
  <2>1. Holders \cap Borrowed = {}
    BY <1>1
  <2> QED
    BY <1>1, <2>1, FS_EmptySet DEF LeasesAccounted, Init
<1>3. SwitchIsExclusive
  BY <1>1 DEF SwitchIsExclusive, Init
<1> QED
  BY InitType, <1>2, <1>3 DEF LaneInv

\* The four ways in which a step touches leases and switches.
QuietStep == UNCHANGED <<Holders, Switchers, switching, users, borrowedUsers>>

GrantStep(r) ==
    /\ r \notin Holders
    /\ Holders' = Holders \cup {r}
    /\ Switchers' = {}
    /\ switching' = FALSE
    /\ AddLease(r)

DropStep(r) ==
    /\ r \in Holders
    /\ r \notin Switchers
    /\ Holders' = Holders \ {r}
    /\ Switchers' = Switchers
    /\ switching' = switching
    /\ users' = IF users > 0 THEN users - 1 ELSE users
    /\ borrowedUsers' = IF users > 0 /\ r \in Borrowed /\ borrowedUsers > 0
                        THEN borrowedUsers - 1 ELSE borrowedUsers

BeginStep(p) ==
    /\ ~switching
    /\ users = 0 \/ (p \in Holders /\ users <= 1)
    /\ Holders' = Holders
    /\ Switchers' = Switchers \cup {p}
    /\ switching' = TRUE
    /\ UNCHANGED <<users, borrowedUsers>>

EndStep ==
    /\ Holders' = Holders
    /\ Switchers' = {}
    /\ switching' = FALSE
    /\ UNCHANGED <<users, borrowedUsers>>

\* A step that touches neither leases nor the switch keeps the invariant.
LEMMA QuietKeeps ==
    ASSUME LaneInv, QuietStep
    PROVE  LeasesAccounted' /\ SwitchIsExclusive'
  BY DEF LaneInv, QuietStep, LeasesAccounted, SwitchIsExclusive

\* Granting a lease outside a switch keeps the invariant.
LEMMA GrantKeeps ==
    ASSUME LaneInv, NEW r \in Requests, GrantStep(r)
    PROVE  LeasesAccounted' /\ SwitchIsExclusive'
<1>1. Holders \in SUBSET Requests
  BY DEF Holders
<1>2. LeasesAccounted'
  BY <1>1, GrantCounts DEF LaneInv, GrantStep, AddLease, LeasesAccounted
<1>3. SwitchIsExclusive'
  BY DEF GrantStep, SwitchIsExclusive
<1> QED
  BY <1>2, <1>3

\* Returning a lease keeps the invariant.
LEMMA DropKeeps ==
    ASSUME LaneInv, NEW r \in Requests, DropStep(r)
    PROVE  LeasesAccounted' /\ SwitchIsExclusive'
<1>1. Holders \in SUBSET Requests /\ r \in Holders
  BY DEF Holders, DropStep
<1>2. LeasesAccounted'
  BY <1>1, DropCounts DEF LaneInv, DropStep, LeasesAccounted
<1>3. SwitchIsExclusive'
  BY DEF LaneInv, DropStep, SwitchIsExclusive
<1> QED
  BY <1>2, <1>3

\* A switch begun on a drained lane, or by its only user, keeps the invariant.
LEMMA BeginKeeps ==
    ASSUME LaneInv, NEW p \in Procs, BeginStep(p)
    PROVE  LeasesAccounted' /\ SwitchIsExclusive'
<1>1. Holders \subseteq {p}
  BY DrainedLane DEF LaneInv, BeginStep
<1>2. Switchers = {}
  BY DEF LaneInv, BeginStep, SwitchIsExclusive
<1>3. LeasesAccounted'
  BY DEF LaneInv, BeginStep, LeasesAccounted
<1>4. SwitchIsExclusive'
  BY <1>1, <1>2 DEF BeginStep, SwitchIsExclusive
<1> QED
  BY <1>3, <1>4

\* Ending the switch keeps the invariant.
LEMMA EndKeeps ==
    ASSUME LaneInv, EndStep
    PROVE  LeasesAccounted' /\ SwitchIsExclusive'
  BY DEF LaneInv, EndStep, LeasesAccounted, SwitchIsExclusive

\* Every operation of the lane keeps the inductive invariant.
LEMMA LaneStep == LaneInv /\ [Next]_vars => LaneInv'
<1> SUFFICES ASSUME LaneInv, [Next]_vars
             PROVE  LeasesAccounted' /\ SwitchIsExclusive'
  BY TypeStep DEF LaneInv
<1>0. TypeOK /\ Requests \subseteq Procs /\ Unloaders \subseteq Procs
  BY DEF LaneInv, Procs
<1>1. ASSUME NEW r \in Requests, Arrive(r)
      PROVE  LeasesAccounted' /\ SwitchIsExclusive'
  <2>1. Move(r, "arrived")
    BY <1>1 DEF Arrive
  <2>2. QuietStep
    BY <1>0, <1>1, <2>1, MoveEffect, LaneAssumption
    DEF Arrive, QuietStep, Holders, Switchers, Holding, InSwitch, switchVars, userVars
  <2> QED
    BY <2>2, QuietKeeps
<1>2. ASSUME NEW r \in Requests, Reuse(r)
      PROVE  LeasesAccounted' /\ SwitchIsExclusive'
  <2>1. Move(r, "serving")
    BY <1>2 DEF Reuse
  <2>2. r \notin Holders /\ ~switching /\ Switchers = {}
    BY <1>2 DEF Reuse, InAcquire, MayLease, Holders, Holding, LaneInv, SwitchIsExclusive
  <2>3. GrantStep(r)
    BY <1>0, <1>2, <2>1, <2>2, MoveEffect
    DEF Reuse, GrantStep, Holding, InSwitch, switchVars
  <2> QED
    BY <2>3, GrantKeeps
<1>3. ASSUME NEW r \in Requests, HandBack(r)
      PROVE  LeasesAccounted' /\ SwitchIsExclusive'
  <2>1. Move(r, "idle")
    BY <1>3 DEF HandBack, ReturnToCaller
  <2>2. QuietStep
    BY <1>0, <1>3, <2>1, MoveEffect, LaneAssumption
    DEF HandBack, QuietStep, Holders, Switchers, Holding, InSwitch, switchVars, userVars, InAcquire
  <2> QED
    BY <2>2, QuietKeeps
<1>4. ASSUME NEW r \in Requests, Await(r)
      PROVE  LeasesAccounted' /\ SwitchIsExclusive'
  <2>1. Move(r, "queued")
    BY <1>4 DEF Await
  <2>2. QuietStep
    BY <1>0, <1>4, <2>1, MoveEffect, LaneAssumption
    DEF Await, QuietStep, Holders, Switchers, Holding, InSwitch, switchVars, userVars, InAcquire
  <2> QED
    BY <2>2, QuietKeeps
<1>5. ASSUME NEW r \in Requests, BeginSwitch(r)
      PROVE  LeasesAccounted' /\ SwitchIsExclusive'
  <2>1. Move(r, "loading")
    BY <1>5 DEF BeginSwitch
  <2>2. ~switching /\ r \notin Holders /\ users = 0
    BY <1>5, LaneAssumption DEF BeginSwitch, InAcquire, Holders, Holding
  <2>3. Holders' = Holders /\ Switchers' = Switchers \cup {r}
    BY <1>0, <2>1, <2>2, MoveEffect DEF Holding, InSwitch, Holders
  <2>4. BeginStep(r)
    BY <1>5, <2>2, <2>3 DEF BeginSwitch, BeginStep, BeginRuntimeSwitch, userVars
  <2> QED
    BY <1>0, <2>4, BeginKeeps
<1>6. ASSUME NEW r \in Requests, GiveUp(r)
      PROVE  LeasesAccounted' /\ SwitchIsExclusive'
  <2>1. Move(r, "idle")
    BY <1>6 DEF GiveUp, ReturnToCaller
  <2>2. QuietStep
    BY <1>0, <1>6, <2>1, MoveEffect, LaneAssumption
    DEF GiveUp, QuietStep, Holders, Switchers, Holding, InSwitch, switchVars, userVars
  <2> QED
    BY <2>2, QuietKeeps
<1>7. ASSUME NEW r \in Requests, Preempt(r)
      PROVE  LeasesAccounted' /\ SwitchIsExclusive'
  <2>1. QuietStep
    BY <1>7 DEF Preempt, QuietStep, Holders, Switchers, switchVars, userVars
  <2> QED
    BY <2>1, QuietKeeps
<1>8. ASSUME NEW r \in Requests, LoadLost(r)
      PROVE  LeasesAccounted' /\ SwitchIsExclusive'
  <2>1. QuietStep
    BY <1>8 DEF LoadLost, QuietStep, Holders, Switchers, switchVars, userVars
  <2> QED
    BY <2>1, QuietKeeps
<1>9. ASSUME NEW r \in Requests, FinishSwitch(r)
      PROVE  LeasesAccounted' /\ SwitchIsExclusive'
  <2>1. Switchers = {r} /\ r \notin Holders
    BY <1>0, <1>9 DEF FinishSwitch, Switchers, InSwitch, Holders, Holding, LaneInv, SwitchIsExclusive
  <2>2. CASE preemption[r] = "preempted"
    <3>1. Move(r, "idle")
      BY <1>9, <2>2 DEF FinishSwitch, ReturnToCaller
    <3>2. EndStep
      BY <1>0, <1>9, <2>1, <2>2, <3>1, MoveEffect
      DEF FinishSwitch, EndStep, EndRuntimeSwitch, Holding, InSwitch, userVars
    <3> QED
      BY <3>2, EndKeeps
  <2>3. CASE preemption[r] # "preempted"
    <3>1. Move(r, "serving")
      BY <1>9, <2>3 DEF FinishSwitch
    <3>2. GrantStep(r)
      BY <1>0, <1>9, <2>1, <2>3, <3>1, MoveEffect
      DEF FinishSwitch, GrantStep, EndRuntimeSwitch, Holding, InSwitch
    <3> QED
      BY <3>2, GrantKeeps
  <2> QED
    BY <2>2, <2>3
<1>10. ASSUME NEW r \in Requests, AbandonSwitch(r)
      PROVE  LeasesAccounted' /\ SwitchIsExclusive'
  <2>1. Move(r, "idle")
    BY <1>10 DEF AbandonSwitch, ReturnToCaller
  <2>2. Switchers = {r} /\ r \notin Holders
    BY <1>0, <1>10, LaneAssumption
    DEF AbandonSwitch, Switchers, InSwitch, Holders, Holding, LaneInv, SwitchIsExclusive
  <2>3. Holders' = Holders /\ Switchers' = {}
    BY <1>0, <2>1, <2>2, MoveEffect, LaneAssumption DEF Holding, InSwitch
  <2>4. EndStep
    BY <1>10, <2>3 DEF AbandonSwitch, EndStep, EndRuntimeSwitch, userVars
  <2> QED
    BY <2>4, EndKeeps
<1>11. ASSUME NEW r \in Requests, FinishReload(r)
      PROVE  LeasesAccounted' /\ SwitchIsExclusive'
  <2>1. Move(r, "serving")
    BY <1>11 DEF FinishReload
  <2>2. Switchers = {r} /\ r \in Holders
    BY <1>0, <1>11, LaneAssumption
    DEF FinishReload, Switchers, InSwitch, Holders, Holding, LaneInv, SwitchIsExclusive
  <2>3. Holders' = Holders /\ Switchers' = {}
    BY <1>0, <2>1, <2>2, MoveEffect, LaneAssumption DEF Holding, InSwitch
  <2>4. EndStep
    BY <1>11, <2>3 DEF FinishReload, EndStep, EndRuntimeSwitch, userVars
  <2> QED
    BY <2>4, EndKeeps
<1>12. ASSUME NEW r \in Requests, FailReload(r)
      PROVE  LeasesAccounted' /\ SwitchIsExclusive'
  <2>1. Move(r, "failed")
    BY <1>12 DEF FailReload
  <2>2. Switchers = {r} /\ r \in Holders
    BY <1>0, <1>12, LaneAssumption
    DEF FailReload, Switchers, InSwitch, Holders, Holding, LaneInv, SwitchIsExclusive
  <2>3. Holders' = Holders /\ Switchers' = {}
    BY <1>0, <2>1, <2>2, MoveEffect, LaneAssumption DEF Holding, InSwitch
  <2>4. EndStep
    BY <1>12, <2>3 DEF FailReload, EndStep, EndRuntimeSwitch, userVars
  <2> QED
    BY <2>4, EndKeeps
<1>13. ASSUME NEW r \in Requests, ReleaseLease(r)
      PROVE  LeasesAccounted' /\ SwitchIsExclusive'
  <2>1. Move(r, "idle")
    BY <1>13 DEF ReleaseLease, ReturnToCaller
  <2>2. r \in Holders /\ r \notin Switchers
    BY <1>13 DEF ReleaseLease, Holders, Holding, Switchers, InSwitch
  <2>3. Holders' = Holders \ {r}
    BY <1>0, <2>1, MoveEffect DEF Holding
  <2>4. Switchers' = Switchers
    BY <1>0, <2>1, <2>2, MoveEffect DEF InSwitch
  <2>5. switching' = switching
    BY <1>13 DEF ReleaseLease, switchVars
  <2>6. DropStep(r)
    BY <1>13, <2>2, <2>3, <2>4, <2>5 DEF ReleaseLease, DropStep
  <2> QED
    BY <2>6, DropKeeps
<1>14. ASSUME NEW r \in Requests, AwaitReload(r)
      PROVE  LeasesAccounted' /\ SwitchIsExclusive'
  <2>1. Move(r, "reloadQueued")
    BY <1>14 DEF AwaitReload
  <2>2. QuietStep
    BY <1>0, <1>14, <2>1, MoveEffect, LaneAssumption
    DEF AwaitReload, QuietStep, Holders, Switchers, Holding, InSwitch, switchVars, userVars, InRecovery
  <2> QED
    BY <2>2, QuietKeeps
<1>15. ASSUME NEW r \in Requests, BeginReload(r)
      PROVE  LeasesAccounted' /\ SwitchIsExclusive'
  <2>1. Move(r, "reloading")
    BY <1>15 DEF BeginReload
  <2>2. ~switching /\ r \in Holders /\ users <= 1
    BY <1>15, LaneAssumption DEF BeginReload, InRecovery, SoleUser, Holders, Holding
  <2>3. Holders' = Holders /\ Switchers' = Switchers \cup {r}
    BY <1>0, <2>1, <2>2, MoveEffect DEF Holding, InSwitch, Holders
  <2>4. BeginStep(r)
    BY <1>15, <2>2, <2>3 DEF BeginReload, BeginStep, BeginRuntimeSwitch, userVars
  <2> QED
    BY <1>0, <2>4, BeginKeeps
<1>16. ASSUME NEW r \in Requests, GiveUpReload(r)
      PROVE  LeasesAccounted' /\ SwitchIsExclusive'
  <2>1. Move(r, "failed")
    BY <1>16 DEF GiveUpReload
  <2>2. QuietStep
    BY <1>0, <1>16, <2>1, MoveEffect, LaneAssumption
    DEF GiveUpReload, QuietStep, Holders, Switchers, Holding, InSwitch, switchVars, userVars
  <2> QED
    BY <2>2, QuietKeeps
<1>17. ASSUME NEW u \in Unloaders, ChooseUnload(u)
      PROVE  LeasesAccounted' /\ SwitchIsExclusive'
  <2>1. Move(u, "chosen")
    BY <1>17 DEF ChooseUnload
  <2>2. QuietStep
    BY <1>0, <1>17, <2>1, MoveEffect, LaneAssumption
    DEF ChooseUnload, QuietStep, Holders, Switchers, Holding, InSwitch, switchVars, userVars
  <2> QED
    BY <2>2, QuietKeeps
<1>18. ASSUME NEW u \in Unloaders, RefuseClaim(u)
      PROVE  LeasesAccounted' /\ SwitchIsExclusive'
  <2>1. Move(u, "idle")
    BY <1>18 DEF RefuseClaim
  <2>2. QuietStep
    BY <1>0, <1>18, <2>1, MoveEffect, LaneAssumption
    DEF RefuseClaim, QuietStep, Holders, Switchers, Holding, InSwitch, switchVars, userVars, InClaim
  <2> QED
    BY <2>2, QuietKeeps
<1>19. ASSUME NEW u \in Unloaders, AwaitClaim(u)
      PROVE  LeasesAccounted' /\ SwitchIsExclusive'
  <2>1. Move(u, "claimQueued")
    BY <1>19 DEF AwaitClaim
  <2>2. QuietStep
    BY <1>0, <1>19, <2>1, MoveEffect, LaneAssumption
    DEF AwaitClaim, QuietStep, Holders, Switchers, Holding, InSwitch, switchVars, userVars, InClaim
  <2> QED
    BY <2>2, QuietKeeps
<1>20. ASSUME NEW u \in Unloaders, ClaimIdle(u)
      PROVE  LeasesAccounted' /\ SwitchIsExclusive'
  <2>1. Move(u, "unloading")
    BY <1>20 DEF ClaimIdle
  <2>2. ~switching /\ u \notin Requests /\ users = 0
    BY <1>20, LaneAssumption DEF ClaimIdle, InClaim, Holders, Holding
  <2>3. Holders' = Holders /\ Switchers' = Switchers \cup {u}
    BY <1>0, <2>1, <2>2, MoveEffect DEF Holding, InSwitch, Holders
  <2>4. BeginStep(u)
    BY <1>20, <2>2, <2>3 DEF ClaimIdle, BeginStep, BeginRuntimeSwitch, userVars
  <2> QED
    BY <1>0, <2>4, BeginKeeps
<1>21. ASSUME NEW u \in Unloaders, GiveUpClaim(u)
      PROVE  LeasesAccounted' /\ SwitchIsExclusive'
  <2>1. Move(u, "idle")
    BY <1>21 DEF GiveUpClaim
  <2>2. QuietStep
    BY <1>0, <1>21, <2>1, MoveEffect, LaneAssumption
    DEF GiveUpClaim, QuietStep, Holders, Switchers, Holding, InSwitch, switchVars, userVars
  <2> QED
    BY <2>2, QuietKeeps
<1>22. ASSUME NEW u \in Unloaders, FinishUnload(u)
      PROVE  LeasesAccounted' /\ SwitchIsExclusive'
  <2>1. Move(u, "idle")
    BY <1>22 DEF FinishUnload
  <2>2. Switchers = {u} /\ u \notin Holders
    BY <1>0, <1>22, LaneAssumption
    DEF FinishUnload, Switchers, InSwitch, Holders, Holding, LaneInv, SwitchIsExclusive
  <2>3. Holders' = Holders /\ Switchers' = {}
    BY <1>0, <2>1, <2>2, MoveEffect, LaneAssumption DEF Holding, InSwitch
  <2>4. EndStep
    BY <1>22, <2>3 DEF FinishUnload, EndStep, EndRuntimeSwitch, userVars
  <2> QED
    BY <2>4, EndKeeps
<1>23. CASE Crash
  <2>1. QuietStep
    BY <1>23 DEF Crash, QuietStep, Holders, Switchers, switchVars, userVars
  <2> QED
    BY <2>1, QuietKeeps
<1>24. CASE UNCHANGED vars
  <2>1. QuietStep
    BY <1>24 DEF vars, QuietStep, Holders, Switchers, switchVars, userVars
  <2> QED
    BY <2>1, QuietKeeps
<1> QED
  BY <1>1, <1>2, <1>3, <1>4, <1>5, <1>6, <1>7, <1>8, <1>9, <1>10, <1>11, <1>12,
     <1>13, <1>14, <1>15, <1>16, <1>17, <1>18, <1>19, <1>20, <1>21, <1>22, <1>23, <1>24
  DEF Next, RequestNext, UnloaderNext, Acquire, Load, Recover, Claim

\* Whatever interleaving of acquisitions, loads, reloads, unloads, crashes and
\* preemptions happens: at most one goroutine changes the config, and no other
\* goroutine holds a lease while it does.
THEOREM SwitchExclusive == Spec => []SwitchIsExclusive
<1>1. LaneInv => SwitchIsExclusive
  BY DEF LaneInv
<1> QED
  BY InitLane, LaneStep, <1>1, PTL DEF Spec

\* users and borrowedUsers count the leases exactly, on every exit path.
THEOREM LeaseAccounting == Spec => []LeasesAccounted
<1>1. LaneInv => LeasesAccounted
  BY DEF LaneInv
<1> QED
  BY InitLane, LaneStep, <1>1, PTL DEF Spec

-----------------------------------------------------------------------------
(***************************************************************************)
(* What the lane's record says about the backend, who may use it, and that *)
(* the lane implements the abstract lease of RuntimeLease.  All theorems   *)
(* hold for any finite set of requests, any unloaders and configs, and any *)
(* bound on load attempts and crashes.                                     *)
(*                                                                         *)
(* The core is RecordSound.  RecordMatchesBackend is not inductive alone:  *)
(* an unload that failed leaves the backend as it was, so the record must  *)
(* be known to be empty while an unload runs; and reusing a sibling        *)
(* changes filename but not physical, so what a lease may rely on is that  *)
(* physical serves it, which the recorded filename only implies.           *)
(***************************************************************************)

-----------------------------------------------------------------------------
(* Preemption                                                              *)

\* claimStart has succeeded for whoever holds a lease.
StartedHold == \A r \in Holders : preemption[r] = "started"

\* A lane without leases has only started holders.
LEMMA InitStarted == Init => StartedHold
  BY DEF Init, StartedHold, Holders, Holding, Procs

\* No operation preempts a holder or lets a request in that did not start.
LEMMA StartedStep == TypeOK /\ StartedHold /\ [Next]_vars => StartedHold'
<1> SUFFICES ASSUME TypeOK, StartedHold, [Next]_vars PROVE StartedHold'
  OBVIOUS
<1> USE LaneAssumption
    DEF TypeOK, StartedHold, Holders, Holding, Procs, Move, configVars, switchVars,
        userVars,
        queueVars, requestVars, unloadVars, backendVars
<1>1. ASSUME NEW r \in Requests, Arrive(r) PROVE StartedHold'
  BY <1>1 DEF Arrive
<1>2. ASSUME NEW r \in Requests, Reuse(r) PROVE StartedHold'
  BY <1>2 DEF Reuse, InAcquire, MayLease, LeaveQueue, RemoveTicket, AddLease
<1>3. ASSUME NEW r \in Requests, HandBack(r) PROVE StartedHold'
  BY <1>3 DEF HandBack, InAcquire, ReturnToCaller
<1>4. ASSUME NEW r \in Requests, Await(r) PROVE StartedHold'
  BY <1>4 DEF Await, InAcquire
<1>5. ASSUME NEW r \in Requests, BeginSwitch(r) PROVE StartedHold'
  BY <1>5 DEF BeginSwitch, InAcquire, BeginRuntimeSwitch
<1>6. ASSUME NEW r \in Requests, GiveUp(r) PROVE StartedHold'
  BY <1>6 DEF GiveUp, ReturnToCaller
<1>7. ASSUME NEW r \in Requests, Preempt(r) PROVE StartedHold'
  BY <1>7 DEF Preempt
<1>8. ASSUME NEW r \in Requests, LoadLost(r) PROVE StartedHold'
  BY <1>8 DEF LoadLost
<1>9. ASSUME NEW r \in Requests, FinishSwitch(r) PROVE StartedHold'
  BY <1>9 DEF FinishSwitch, EndRuntimeSwitch, RecordLoad, BumpGeneration, ReturnToCaller
<1>10. ASSUME NEW r \in Requests, AbandonSwitch(r) PROVE StartedHold'
  BY <1>10 DEF AbandonSwitch, LoadLeaves, EndRuntimeSwitch, ClearRecord, ReturnToCaller
<1>11. ASSUME NEW r \in Requests, FinishReload(r) PROVE StartedHold'
  BY <1>11 DEF FinishReload, EndRuntimeSwitch, RecordLoad, BumpGeneration
<1>12. ASSUME NEW r \in Requests, FailReload(r) PROVE StartedHold'
  BY <1>12 DEF FailReload, LoadLeaves, EndRuntimeSwitch, ClearRecord
<1>13. ASSUME NEW r \in Requests, ReleaseLease(r) PROVE StartedHold'
  BY <1>13 DEF ReleaseLease, ReturnToCaller
<1>14. ASSUME NEW r \in Requests, AwaitReload(r) PROVE StartedHold'
  BY <1>14 DEF AwaitReload, InRecovery
<1>15. ASSUME NEW r \in Requests, BeginReload(r) PROVE StartedHold'
  BY <1>15 DEF BeginReload, InRecovery, BeginRuntimeSwitch
<1>16. ASSUME NEW r \in Requests, GiveUpReload(r) PROVE StartedHold'
  BY <1>16 DEF GiveUpReload
<1>17. ASSUME NEW u \in Unloaders, ChooseUnload(u) PROVE StartedHold'
  BY <1>17 DEF ChooseUnload
<1>18. ASSUME NEW u \in Unloaders, RefuseClaim(u) PROVE StartedHold'
  BY <1>18 DEF RefuseClaim, InClaim
<1>19. ASSUME NEW u \in Unloaders, AwaitClaim(u) PROVE StartedHold'
  BY <1>19 DEF AwaitClaim, InClaim
<1>20. ASSUME NEW u \in Unloaders, ClaimIdle(u) PROVE StartedHold'
  BY <1>20 DEF ClaimIdle, InClaim, StillUnloadable, BeginRuntimeSwitch, BumpGeneration
<1>21. ASSUME NEW u \in Unloaders, GiveUpClaim(u) PROVE StartedHold'
  BY <1>21 DEF GiveUpClaim
<1>22. ASSUME NEW u \in Unloaders, FinishUnload(u) PROVE StartedHold'
  BY <1>22 DEF FinishUnload, EndRuntimeSwitch
<1>23. CASE Crash
  BY <1>23 DEF Crash
<1>24. CASE UNCHANGED vars
  BY <1>24 DEF vars
<1> QED
  BY <1>1, <1>2, <1>3, <1>4, <1>5, <1>6, <1>7, <1>8, <1>9, <1>10, <1>11, <1>12,
     <1>13, <1>14, <1>15, <1>16, <1>17, <1>18, <1>19, <1>20, <1>21, <1>22, <1>23, <1>24
  DEF Next, RequestNext, UnloaderNext, Acquire, Load, Recover, Claim

\* A borrowed request that preemptUnlessStarted handed back to its node holds
\* no lease here, now or later: the two flags race through claimStart only.
THEOREM PreemptionSafe == Spec => []PreemptedNeverHolds
<1>1. StartedHold => PreemptedNeverHolds
  BY DEF StartedHold, PreemptedNeverHolds
<1> QED
  BY InitType, TypeStep, InitStarted, StartedStep, <1>1, PTL DEF Spec

-----------------------------------------------------------------------------
(* The target of a delayed unload                                          *)

\* A generation that is still current was sampled with the recorded config;
\* an abandoned load clears the record without counting, so it may be empty.
FreshIsAimed ==
    \A u \in fresh :
        recheck[u] = "generation" /\ pc[u] \in {"chosen", "claimQueued"}
            => filename \in {target[u], None}

\* No generation has been sampled on a new lane.
LEMMA InitFresh == Init => FreshIsAimed
  BY DEF Init, FreshIsAimed

\* Whatever changes the recorded config to another one counts a generation.
LEMMA FreshStep == TypeOK /\ FreshIsAimed /\ [Next]_vars => FreshIsAimed'
<1> SUFFICES ASSUME TypeOK, FreshIsAimed, [Next]_vars PROVE FreshIsAimed'
  OBVIOUS
<1> USE LaneAssumption
    DEF TypeOK, FreshIsAimed, Procs, Move, configVars, switchVars, userVars,
        queueVars, requestVars, unloadVars, backendVars
<1>1. ASSUME NEW r \in Requests, Arrive(r) PROVE FreshIsAimed'
  BY <1>1 DEF Arrive
<1>2. ASSUME NEW r \in Requests, Reuse(r) PROVE FreshIsAimed'
  BY <1>2 DEF Reuse, InAcquire, MayLease, LeaveQueue, RemoveTicket, AddLease
<1>3. ASSUME NEW r \in Requests, HandBack(r) PROVE FreshIsAimed'
  BY <1>3 DEF HandBack, InAcquire, ReturnToCaller
<1>4. ASSUME NEW r \in Requests, Await(r) PROVE FreshIsAimed'
  BY <1>4 DEF Await, InAcquire
<1>5. ASSUME NEW r \in Requests, BeginSwitch(r) PROVE FreshIsAimed'
  BY <1>5 DEF BeginSwitch, InAcquire, BeginRuntimeSwitch
<1>6. ASSUME NEW r \in Requests, GiveUp(r) PROVE FreshIsAimed'
  BY <1>6 DEF GiveUp, ReturnToCaller
<1>7. ASSUME NEW r \in Requests, Preempt(r) PROVE FreshIsAimed'
  BY <1>7 DEF Preempt
<1>8. ASSUME NEW r \in Requests, LoadLost(r) PROVE FreshIsAimed'
  BY <1>8 DEF LoadLost
<1>9. ASSUME NEW r \in Requests, FinishSwitch(r) PROVE FreshIsAimed'
  BY <1>9 DEF FinishSwitch, EndRuntimeSwitch, RecordLoad, BumpGeneration, ReturnToCaller
<1>10. ASSUME NEW r \in Requests, AbandonSwitch(r) PROVE FreshIsAimed'
  BY <1>10 DEF AbandonSwitch, LoadLeaves, EndRuntimeSwitch, ClearRecord, ReturnToCaller
<1>11. ASSUME NEW r \in Requests, FinishReload(r) PROVE FreshIsAimed'
  BY <1>11 DEF FinishReload, EndRuntimeSwitch, RecordLoad, BumpGeneration
<1>12. ASSUME NEW r \in Requests, FailReload(r) PROVE FreshIsAimed'
  BY <1>12 DEF FailReload, LoadLeaves, EndRuntimeSwitch, ClearRecord
<1>13. ASSUME NEW r \in Requests, ReleaseLease(r) PROVE FreshIsAimed'
  BY <1>13 DEF ReleaseLease, ReturnToCaller
<1>14. ASSUME NEW r \in Requests, AwaitReload(r) PROVE FreshIsAimed'
  BY <1>14 DEF AwaitReload, InRecovery
<1>15. ASSUME NEW r \in Requests, BeginReload(r) PROVE FreshIsAimed'
  BY <1>15 DEF BeginReload, InRecovery, BeginRuntimeSwitch
<1>16. ASSUME NEW r \in Requests, GiveUpReload(r) PROVE FreshIsAimed'
  BY <1>16 DEF GiveUpReload
<1>17. ASSUME NEW u \in Unloaders, ChooseUnload(u) PROVE FreshIsAimed'
  BY <1>17 DEF ChooseUnload
<1>18. ASSUME NEW u \in Unloaders, RefuseClaim(u) PROVE FreshIsAimed'
  BY <1>18 DEF RefuseClaim, InClaim
<1>19. ASSUME NEW u \in Unloaders, AwaitClaim(u) PROVE FreshIsAimed'
  BY <1>19 DEF AwaitClaim, InClaim
<1>20. ASSUME NEW u \in Unloaders, ClaimIdle(u) PROVE FreshIsAimed'
  BY <1>20 DEF ClaimIdle, InClaim, StillUnloadable, BeginRuntimeSwitch, BumpGeneration
<1>21. ASSUME NEW u \in Unloaders, GiveUpClaim(u) PROVE FreshIsAimed'
  BY <1>21 DEF GiveUpClaim
<1>22. ASSUME NEW u \in Unloaders, FinishUnload(u) PROVE FreshIsAimed'
  BY <1>22 DEF FinishUnload, EndRuntimeSwitch
<1>23. CASE Crash
  BY <1>23 DEF Crash
<1>24. CASE UNCHANGED vars
  BY <1>24 DEF vars
<1> QED
  BY <1>1, <1>2, <1>3, <1>4, <1>5, <1>6, <1>7, <1>8, <1>9, <1>10, <1>11, <1>12,
     <1>13, <1>14, <1>15, <1>16, <1>17, <1>18, <1>19, <1>20, <1>21, <1>22, <1>23, <1>24
  DEF Next, RequestNext, UnloaderNext, Acquire, Load, Recover, Claim

\* Only claimIdleRuntime starts an unload.
LEMMA OnlyClaimUnloads ==
    ASSUME TypeOK, [Next]_vars, NEW v \in Unloaders,
           pc[v] # "unloading", pc'[v] = "unloading"
    PROVE  ClaimIdle(v)
<1> USE LaneAssumption
    DEF TypeOK, Procs, Move, configVars, switchVars, userVars,
        queueVars, requestVars, unloadVars, backendVars
<1>1. ASSUME NEW r \in Requests, Arrive(r) PROVE ClaimIdle(v)
  BY <1>1 DEF Arrive
<1>2. ASSUME NEW r \in Requests, Reuse(r) PROVE ClaimIdle(v)
  BY <1>2 DEF Reuse, InAcquire, MayLease, LeaveQueue, RemoveTicket, AddLease
<1>3. ASSUME NEW r \in Requests, HandBack(r) PROVE ClaimIdle(v)
  BY <1>3 DEF HandBack, InAcquire, ReturnToCaller
<1>4. ASSUME NEW r \in Requests, Await(r) PROVE ClaimIdle(v)
  BY <1>4 DEF Await, InAcquire
<1>5. ASSUME NEW r \in Requests, BeginSwitch(r) PROVE ClaimIdle(v)
  BY <1>5 DEF BeginSwitch, InAcquire, BeginRuntimeSwitch
<1>6. ASSUME NEW r \in Requests, GiveUp(r) PROVE ClaimIdle(v)
  BY <1>6 DEF GiveUp, ReturnToCaller
<1>7. ASSUME NEW r \in Requests, Preempt(r) PROVE ClaimIdle(v)
  BY <1>7 DEF Preempt
<1>8. ASSUME NEW r \in Requests, LoadLost(r) PROVE ClaimIdle(v)
  BY <1>8 DEF LoadLost
<1>9. ASSUME NEW r \in Requests, FinishSwitch(r) PROVE ClaimIdle(v)
  BY <1>9 DEF FinishSwitch, EndRuntimeSwitch, RecordLoad, BumpGeneration, ReturnToCaller
<1>10. ASSUME NEW r \in Requests, AbandonSwitch(r) PROVE ClaimIdle(v)
  BY <1>10 DEF AbandonSwitch, LoadLeaves, EndRuntimeSwitch, ClearRecord, ReturnToCaller
<1>11. ASSUME NEW r \in Requests, FinishReload(r) PROVE ClaimIdle(v)
  BY <1>11 DEF FinishReload, EndRuntimeSwitch, RecordLoad, BumpGeneration
<1>12. ASSUME NEW r \in Requests, FailReload(r) PROVE ClaimIdle(v)
  BY <1>12 DEF FailReload, LoadLeaves, EndRuntimeSwitch, ClearRecord
<1>13. ASSUME NEW r \in Requests, ReleaseLease(r) PROVE ClaimIdle(v)
  BY <1>13 DEF ReleaseLease, ReturnToCaller
<1>14. ASSUME NEW r \in Requests, AwaitReload(r) PROVE ClaimIdle(v)
  BY <1>14 DEF AwaitReload, InRecovery
<1>15. ASSUME NEW r \in Requests, BeginReload(r) PROVE ClaimIdle(v)
  BY <1>15 DEF BeginReload, InRecovery, BeginRuntimeSwitch
<1>16. ASSUME NEW r \in Requests, GiveUpReload(r) PROVE ClaimIdle(v)
  BY <1>16 DEF GiveUpReload
<1>17. ASSUME NEW u \in Unloaders, ChooseUnload(u) PROVE ClaimIdle(v)
  BY <1>17 DEF ChooseUnload
<1>18. ASSUME NEW u \in Unloaders, RefuseClaim(u) PROVE ClaimIdle(v)
  BY <1>18 DEF RefuseClaim, InClaim
<1>19. ASSUME NEW u \in Unloaders, AwaitClaim(u) PROVE ClaimIdle(v)
  BY <1>19 DEF AwaitClaim, InClaim
<1>20. ASSUME NEW u \in Unloaders, ClaimIdle(u) PROVE ClaimIdle(v)
  BY <1>20 DEF ClaimIdle, InClaim, StillUnloadable, BeginRuntimeSwitch, BumpGeneration
<1>21. ASSUME NEW u \in Unloaders, GiveUpClaim(u) PROVE ClaimIdle(v)
  BY <1>21 DEF GiveUpClaim
<1>22. ASSUME NEW u \in Unloaders, FinishUnload(u) PROVE ClaimIdle(v)
  BY <1>22 DEF FinishUnload, EndRuntimeSwitch
<1>23. CASE Crash
  BY <1>23 DEF Crash
<1>24. CASE UNCHANGED vars
  BY <1>24 DEF vars
<1> QED
  BY <1>1, <1>2, <1>3, <1>4, <1>5, <1>6, <1>7, <1>8, <1>9, <1>10, <1>11, <1>12,
     <1>13, <1>14, <1>15, <1>16, <1>17, <1>18, <1>19, <1>20, <1>21, <1>22, <1>23, <1>24
  DEF Next, RequestNext, UnloaderNext, Acquire, Load, Recover, Claim

\* An unload decided on an earlier look at the lane (a client's generation, a
\* disabled model) unloads that config or nothing, however long it queued.
THEOREM ClaimsAreAimed == Spec => ClaimHitsItsTarget
<1>1. /\ TypeOK /\ FreshIsAimed /\ [Next]_vars
      => [\A u \in Unloaders :
            /\ recheck[u] # "always"
            /\ pc[u] # "unloading"
            /\ pc'[u] = "unloading"
            => filename = target[u]]_vars
  <2> SUFFICES ASSUME TypeOK, FreshIsAimed, [Next]_vars,
                      NEW u \in Unloaders,
                      recheck[u] # "always", pc[u] # "unloading", pc'[u] = "unloading"
               PROVE  filename = target[u]
    OBVIOUS
  <2>1. ClaimIdle(u)
    BY OnlyClaimUnloads
  <2>2. recheck[u] \in {"generation", "config"}
    BY DEF TypeOK, UnloadRecheck
  <2> QED
    BY <2>1, <2>2 DEF ClaimIdle, InClaim, StillUnloadable, FreshIsAimed
<1> QED
  BY InitType, TypeStep, InitFresh, FreshStep, <1>1, PTL DEF Spec, ClaimHitsItsTarget

-----------------------------------------------------------------------------
(* The record and the backend                                              *)

RecordSound ==
    /\ filename = None <=> physical = None
    /\ filename # None => filename = physical \/ Siblings(physical, filename)
    /\ ~switching /\ filename # None => backend \in {physical, None, Dead}
    /\ \A u \in Unloaders : pc[u] = "unloading" => filename = None
    /\ \A r \in Requests : pc[r] = "serving" => Serves(physical, r)

\* A new lane records nothing.
LEMMA InitRecord == Init => RecordSound
  BY DEF Init, RecordSound, Procs

\* What activeConfigMatchesAcquireOptions compares is whether the recorded
\* load serves the request: filename adds nothing to physical.
LEMMA MatchesIsServes ==
    ASSUME TypeOK, RecordSound, NEW r \in Requests
    PROVE  Matches(r) <=> Serves(physical, r)
<1>1. Want[r] \in Configs /\ Want[r] # None
  BY LaneAssumption
<1>2. physical = None => ~Siblings(physical, Want[r])
  BY LaneAssumption DEF Siblings
<1> QED
  BY <1>1, <1>2 DEF Matches, Serves, Siblings, RecordSound

\* While somebody serves, nobody changes the config, and the other way round.
LEMMA ServingOutsideSwitch ==
    ASSUME LaneInv, NEW r \in Requests, pc[r] \in {"serving", "failed", "reloadQueued"}
    PROVE  /\ ~switching
           /\ \A p \in Procs : pc[p] \notin InSwitch
<1>1. r \in Holders /\ r \notin Switchers
  BY DEF Holders, Holding, Switchers, InSwitch
<1> QED
  BY <1>1 DEF LaneInv, SwitchIsExclusive, Switchers

\* Every operation keeps the record sound.
LEMMA RecordStep == LaneInv /\ RecordSound /\ [Next]_vars => RecordSound'
<1> SUFFICES ASSUME LaneInv, RecordSound, [Next]_vars PROVE RecordSound'
  OBVIOUS
<1>0. TypeOK /\ SwitchIsExclusive
  BY DEF LaneInv
<1> USE LaneAssumption
    DEF TypeOK, RecordSound, SwitchIsExclusive, Switchers, Holders, Procs, Holding,
        InSwitch, Serves, Siblings, Move, configVars, switchVars, userVars,
        queueVars, requestVars, unloadVars, backendVars
<1>1. ASSUME NEW r \in Requests, Arrive(r) PROVE RecordSound'
  BY <1>0, <1>1 DEF Arrive
<1>2. ASSUME NEW r \in Requests, Reuse(r) PROVE RecordSound'
  <2>1. Serves(physical, r) /\ Want[r] # None
    BY <1>0, <1>2, MatchesIsServes DEF Reuse, MayLease
  <2>2. physical # None
    BY <2>1
  <2>3. /\ filename' = Want[r] /\ physical' = physical
        /\ switching' = switching /\ backend' = backend
        /\ pc' = [pc EXCEPT ![r] = "serving"]
    BY <1>2 DEF Reuse
  <2>4. ~switching /\ filename # None
    BY <1>2, <2>2 DEF Reuse, MayLease
  <2> QED
    BY <1>0, <2>1, <2>2, <2>3, <2>4
<1>3. ASSUME NEW r \in Requests, HandBack(r) PROVE RecordSound'
  BY <1>0, <1>3 DEF HandBack, InAcquire, ReturnToCaller
<1>4. ASSUME NEW r \in Requests, Await(r) PROVE RecordSound'
  BY <1>0, <1>4 DEF Await, InAcquire
<1>5. ASSUME NEW r \in Requests, BeginSwitch(r) PROVE RecordSound'
  BY <1>0, <1>5 DEF BeginSwitch, InAcquire, BeginRuntimeSwitch
<1>6. ASSUME NEW r \in Requests, GiveUp(r) PROVE RecordSound'
  BY <1>0, <1>6 DEF GiveUp, ReturnToCaller
<1>7. ASSUME NEW r \in Requests, Preempt(r) PROVE RecordSound'
  BY <1>0, <1>7 DEF Preempt
<1>8. ASSUME NEW r \in Requests, LoadLost(r) PROVE RecordSound'
  BY <1>0, <1>8 DEF LoadLost
<1>9. ASSUME NEW r \in Requests, FinishSwitch(r) PROVE RecordSound'
  BY <1>0, <1>9 DEF FinishSwitch, EndRuntimeSwitch, RecordLoad, BumpGeneration,
     ReturnToCaller
<1>10. ASSUME NEW r \in Requests, AbandonSwitch(r) PROVE RecordSound'
  BY <1>0, <1>10 DEF AbandonSwitch, LoadLeaves, EndRuntimeSwitch, ClearRecord,
     ReturnToCaller
<1>11. ASSUME NEW r \in Requests, FinishReload(r) PROVE RecordSound'
  BY <1>0, <1>11 DEF FinishReload, EndRuntimeSwitch, RecordLoad, BumpGeneration
<1>12. ASSUME NEW r \in Requests, FailReload(r) PROVE RecordSound'
  BY <1>0, <1>12 DEF FailReload, LoadLeaves, EndRuntimeSwitch, ClearRecord
<1>13. ASSUME NEW r \in Requests, ReleaseLease(r) PROVE RecordSound'
  BY <1>0, <1>13 DEF ReleaseLease, ReturnToCaller
<1>14. ASSUME NEW r \in Requests, AwaitReload(r) PROVE RecordSound'
  BY <1>0, <1>14 DEF AwaitReload, InRecovery
<1>15. ASSUME NEW r \in Requests, BeginReload(r) PROVE RecordSound'
  BY <1>0, <1>15 DEF BeginReload, InRecovery, BeginRuntimeSwitch
<1>16. ASSUME NEW r \in Requests, GiveUpReload(r) PROVE RecordSound'
  BY <1>0, <1>16 DEF GiveUpReload
<1>17. ASSUME NEW u \in Unloaders, ChooseUnload(u) PROVE RecordSound'
  BY <1>0, <1>17 DEF ChooseUnload
<1>18. ASSUME NEW u \in Unloaders, RefuseClaim(u) PROVE RecordSound'
  BY <1>0, <1>18 DEF RefuseClaim, InClaim
<1>19. ASSUME NEW u \in Unloaders, AwaitClaim(u) PROVE RecordSound'
  BY <1>0, <1>19 DEF AwaitClaim, InClaim
<1>20. ASSUME NEW u \in Unloaders, ClaimIdle(u) PROVE RecordSound'
  <2>1. Holders = {}
    BY <1>20, DrainedLane DEF ClaimIdle, LaneInv
  <2>2. /\ filename' = None /\ physical' = None
        /\ pc' = [pc EXCEPT ![u] = "unloading"]
    BY <1>20 DEF ClaimIdle
  <2> QED
    BY <1>0, <2>1, <2>2
<1>21. ASSUME NEW u \in Unloaders, GiveUpClaim(u) PROVE RecordSound'
  BY <1>0, <1>21 DEF GiveUpClaim
<1>22. ASSUME NEW u \in Unloaders, FinishUnload(u) PROVE RecordSound'
  BY <1>0, <1>22 DEF FinishUnload, EndRuntimeSwitch
<1>23. CASE Crash
  BY <1>0, <1>23 DEF Crash
<1>24. CASE UNCHANGED vars
  BY <1>0, <1>24 DEF vars
<1> QED
  BY <1>1, <1>2, <1>3, <1>4, <1>5, <1>6, <1>7, <1>8, <1>9, <1>10, <1>11, <1>12,
     <1>13, <1>14, <1>15, <1>16, <1>17, <1>18, <1>19, <1>20, <1>21, <1>22, <1>23, <1>24
  DEF Next, RequestNext, UnloaderNext, Acquire, Load, Recover, Claim

RecordInv == LaneInv /\ RecordSound

\* The record is sound in every reachable state.
LEMMA RecordAlways == Spec => []RecordInv
<1>1. Init => RecordInv
  BY InitLane, InitRecord DEF RecordInv
<1>2. RecordInv /\ [Next]_vars => RecordInv'
  BY LaneStep, RecordStep DEF RecordInv
<1> QED
  BY <1>1, <1>2, PTL DEF Spec

\* Outside a switch the record is what the backend has, unless the process
\* died: a failed load, a failed unload or a crash never leaves a record of a
\* model that is not there but another one.
THEOREM RecordIsTrue == Spec => []RecordMatchesBackend
<1>1. RecordInv => RecordMatchesBackend
  BY DEF RecordInv, RecordSound, RecordMatchesBackend
<1> QED
  BY RecordAlways, <1>1, PTL

\* Whoever holds a lease is served by the model it asked for, by a sibling it
\* accepts, or by no model at all; never by another model.
THEOREM LeaseIsServed == Spec => []LeaseMatchesBackend
<1>1. RecordInv => LeaseMatchesBackend
  <2> SUFFICES ASSUME RecordInv, NEW r \in Requests, pc[r] = "serving"
               PROVE  backend \in {None, Dead} \/ Serves(backend, r)
    BY DEF LeaseMatchesBackend
  <2>1. ~switching
    BY ServingOutsideSwitch DEF RecordInv
  <2>2. Serves(physical, r)
    BY DEF RecordInv, RecordSound
  <2>3. physical # None
    BY <2>2, LaneAssumption DEF Serves, Siblings
  <2> QED
    BY <2>1, <2>2, <2>3 DEF RecordInv, RecordSound
<1> QED
  BY RecordAlways, <1>1, PTL

-----------------------------------------------------------------------------
(* Idleness                                                                *)

\* The flag of beginRuntimeSwitch tells whether own work caused the switch.
FlagTellsWho == switching => (switchingForBorrowed <=> Switchers \subseteq Borrowed)

\* Every operation keeps the flag true to whoever switches.
LEMMA FlagStep == LaneInv /\ FlagTellsWho /\ [Next]_vars => FlagTellsWho'
<1> SUFFICES ASSUME LaneInv, FlagTellsWho, [Next]_vars PROVE FlagTellsWho'
  OBVIOUS
<1>0. TypeOK /\ SwitchIsExclusive
  BY DEF LaneInv
<1> USE LaneAssumption
    DEF TypeOK, FlagTellsWho, SwitchIsExclusive, Switchers, Procs, InSwitch, Move,
        configVars, switchVars, userVars,
        queueVars, requestVars, unloadVars, backendVars
<1>1. ASSUME NEW r \in Requests, Arrive(r) PROVE FlagTellsWho'
  BY <1>0, <1>1 DEF Arrive
<1>2. ASSUME NEW r \in Requests, Reuse(r) PROVE FlagTellsWho'
  BY <1>0, <1>2 DEF Reuse, InAcquire, MayLease, LeaveQueue, RemoveTicket, AddLease
<1>3. ASSUME NEW r \in Requests, HandBack(r) PROVE FlagTellsWho'
  BY <1>0, <1>3 DEF HandBack, InAcquire, ReturnToCaller
<1>4. ASSUME NEW r \in Requests, Await(r) PROVE FlagTellsWho'
  BY <1>0, <1>4 DEF Await, InAcquire
<1>5. ASSUME NEW r \in Requests, BeginSwitch(r) PROVE FlagTellsWho'
  BY <1>0, <1>5 DEF BeginSwitch, InAcquire, BeginRuntimeSwitch
<1>6. ASSUME NEW r \in Requests, GiveUp(r) PROVE FlagTellsWho'
  BY <1>0, <1>6 DEF GiveUp, ReturnToCaller
<1>7. ASSUME NEW r \in Requests, Preempt(r) PROVE FlagTellsWho'
  BY <1>0, <1>7 DEF Preempt
<1>8. ASSUME NEW r \in Requests, LoadLost(r) PROVE FlagTellsWho'
  BY <1>0, <1>8 DEF LoadLost
<1>9. ASSUME NEW r \in Requests, FinishSwitch(r) PROVE FlagTellsWho'
  BY <1>0, <1>9 DEF FinishSwitch, EndRuntimeSwitch, RecordLoad, BumpGeneration,
     ReturnToCaller
<1>10. ASSUME NEW r \in Requests, AbandonSwitch(r) PROVE FlagTellsWho'
  BY <1>0, <1>10 DEF AbandonSwitch, LoadLeaves, EndRuntimeSwitch, ClearRecord,
     ReturnToCaller
<1>11. ASSUME NEW r \in Requests, FinishReload(r) PROVE FlagTellsWho'
  BY <1>0, <1>11 DEF FinishReload, EndRuntimeSwitch, RecordLoad, BumpGeneration
<1>12. ASSUME NEW r \in Requests, FailReload(r) PROVE FlagTellsWho'
  BY <1>0, <1>12 DEF FailReload, LoadLeaves, EndRuntimeSwitch, ClearRecord
<1>13. ASSUME NEW r \in Requests, ReleaseLease(r) PROVE FlagTellsWho'
  BY <1>0, <1>13 DEF ReleaseLease, ReturnToCaller
<1>14. ASSUME NEW r \in Requests, AwaitReload(r) PROVE FlagTellsWho'
  BY <1>0, <1>14 DEF AwaitReload, InRecovery
<1>15. ASSUME NEW r \in Requests, BeginReload(r) PROVE FlagTellsWho'
  BY <1>0, <1>15 DEF BeginReload, InRecovery, BeginRuntimeSwitch
<1>16. ASSUME NEW r \in Requests, GiveUpReload(r) PROVE FlagTellsWho'
  BY <1>0, <1>16 DEF GiveUpReload
<1>17. ASSUME NEW u \in Unloaders, ChooseUnload(u) PROVE FlagTellsWho'
  BY <1>0, <1>17 DEF ChooseUnload
<1>18. ASSUME NEW u \in Unloaders, RefuseClaim(u) PROVE FlagTellsWho'
  BY <1>0, <1>18 DEF RefuseClaim, InClaim
<1>19. ASSUME NEW u \in Unloaders, AwaitClaim(u) PROVE FlagTellsWho'
  BY <1>0, <1>19 DEF AwaitClaim, InClaim
<1>20. ASSUME NEW u \in Unloaders, ClaimIdle(u) PROVE FlagTellsWho'
  BY <1>0, <1>20 DEF ClaimIdle, InClaim, StillUnloadable, BeginRuntimeSwitch, BumpGeneration
<1>21. ASSUME NEW u \in Unloaders, GiveUpClaim(u) PROVE FlagTellsWho'
  BY <1>0, <1>21 DEF GiveUpClaim
<1>22. ASSUME NEW u \in Unloaders, FinishUnload(u) PROVE FlagTellsWho'
  BY <1>0, <1>22 DEF FinishUnload, EndRuntimeSwitch
<1>23. CASE Crash
  BY <1>0, <1>23 DEF Crash
<1>24. CASE UNCHANGED vars
  BY <1>0, <1>24 DEF vars
<1> QED
  BY <1>1, <1>2, <1>3, <1>4, <1>5, <1>6, <1>7, <1>8, <1>9, <1>10, <1>11, <1>12,
     <1>13, <1>14, <1>15, <1>16, <1>17, <1>18, <1>19, <1>20, <1>21, <1>22, <1>23, <1>24
  DEF Next, RequestNext, UnloaderNext, Acquire, Load, Recover, Claim

\* There are more leases than borrowed leases exactly when one is not borrowed.
LEMMA OwnLeaseCounts ==
    ASSUME NEW S \in SUBSET Requests
    PROVE  Cardinality(S) > Cardinality(S \cap Borrowed) <=> S \ Borrowed # {}
<1>1. IsFiniteSet(S) /\ S \cap Borrowed \subseteq S
  BY LaneAssumption, FS_Subset
<1>2. /\ IsFiniteSet(S \cap Borrowed)
      /\ Cardinality(S \cap Borrowed) <= Cardinality(S)
      /\ Cardinality(S \cap Borrowed) = Cardinality(S) => S \cap Borrowed = S
  BY <1>1, FS_Subset
<1>3. Cardinality(S) \in Nat /\ Cardinality(S \cap Borrowed) \in Nat
  BY <1>1, <1>2, FS_CardinalityType
<1>4. S \ Borrowed # {} <=> S \cap Borrowed # S
  OBVIOUS
<1>5. S \cap Borrowed = S => Cardinality(S \cap Borrowed) = Cardinality(S)
  OBVIOUS
<1>6. S \cap Borrowed # S => Cardinality(S) > Cardinality(S \cap Borrowed)
  BY <1>2, <1>3
<1>7. Cardinality(S) > Cardinality(S \cap Borrowed) => S \cap Borrowed # S
  BY <1>3, <1>5
<1> QED
  BY <1>4, <1>6, <1>7

\* busyWithOwnWorkLocked is true exactly while own work holds a lease or
\* switches the lane, so a node never lends itself out over its own work and
\* never refuses to for work that is borrowed.
THEOREM IdlenessIsSeen == Spec => []OwnWorkIsSeen
<1>1. Init => FlagTellsWho
  BY DEF Init, FlagTellsWho
<1>2. LaneInv /\ FlagTellsWho => OwnWorkIsSeen
  <2> SUFFICES ASSUME LaneInv, FlagTellsWho PROVE OwnWorkIsSeen
    OBVIOUS
  <2>1. Holders \in SUBSET Requests
    BY DEF Holders
  <2>2. users > borrowedUsers <=> Holders \ Borrowed # {}
    BY <2>1, OwnLeaseCounts DEF LaneInv, LeasesAccounted
  <2>3. switching /\ ~switchingForBorrowed <=> Switchers \ Borrowed # {}
    BY DEF LaneInv, SwitchIsExclusive, FlagTellsWho, TypeOK
  <2> QED
    BY <2>2, <2>3 DEF OwnWorkIsSeen, BusyWithOwnWork
<1> QED
  BY InitLane, LaneStep, FlagStep, <1>1, <1>2, PTL DEF Spec


-----------------------------------------------------------------------------
(* The refinement                                                          *)

\* What the abstract lease sees of a step: nothing.
QuietLease == UNCHANGED <<Holders, Switchers, switching, physical>>

\* Such a step is a stutter of the abstract lease.
LEMMA QuietMaps == ASSUME QuietLease PROVE [Lease!Next]_(Lease!vars)
  BY DEF QuietLease, Lease!vars

\* Every operation of the lane is a step of the abstract lease or a stutter.
LEMMA LeaseStep == RecordInv /\ [Next]_vars => [Lease!Next]_(Lease!vars)
<1> SUFFICES ASSUME RecordInv, [Next]_vars PROVE [Lease!Next]_(Lease!vars)
  OBVIOUS
<1>0. LaneInv /\ RecordSound /\ TypeOK /\ LeasesAccounted /\ SwitchIsExclusive
  BY DEF RecordInv, LaneInv
<1> USE <1>0, LaneAssumption
    DEF TypeOK, QuietLease, Switchers, Holders, Procs, ConfigOrNone, Holding, InSwitch,
        Move, configVars, switchVars, userVars,
        queueVars, requestVars, unloadVars, backendVars
<1>1. ASSUME NEW r \in Requests, Arrive(r) PROVE [Lease!Next]_(Lease!vars)
  <2>1. QuietLease
    BY <1>1 DEF Arrive
  <2> QED
    BY <2>1, QuietMaps
<1>2. ASSUME NEW r \in Requests, Reuse(r) PROVE [Lease!Next]_(Lease!vars)
  <2>1. Serves(physical, r) /\ ~switching
    BY <1>0, <1>2, MatchesIsServes DEF Reuse, MayLease
  <2>2. Holders' = Holders \cup {r} /\ Switchers' = Switchers
    BY <1>2 DEF Reuse, InAcquire
  <2>3. Switchers = {}
    BY <1>0, <2>1 DEF SwitchIsExclusive
  <2>4. UNCHANGED <<physical, switching>>
    BY <1>2 DEF Reuse
  <2>5. Lease!Grant(r)
    BY <1>0, <2>1, <2>2, <2>3, <2>4, LaneAssumption DEF Lease!Grant, Serves, Siblings
  <2> QED
    BY <2>5 DEF Lease!Next
<1>3. ASSUME NEW r \in Requests, HandBack(r) PROVE [Lease!Next]_(Lease!vars)
  <2>1. QuietLease
    BY <1>3 DEF HandBack, InAcquire, ReturnToCaller
  <2> QED
    BY <2>1, QuietMaps
<1>4. ASSUME NEW r \in Requests, Await(r) PROVE [Lease!Next]_(Lease!vars)
  <2>1. QuietLease
    BY <1>4 DEF Await, InAcquire
  <2> QED
    BY <2>1, QuietMaps
<1>5. ASSUME NEW r \in Requests, BeginSwitch(r) PROVE [Lease!Next]_(Lease!vars)
  <2>1. ~switching /\ switching' /\ Holders \subseteq {r}
    BY <1>0, <1>5, DrainedLane DEF BeginSwitch, BeginRuntimeSwitch, InAcquire
  <2>2. Holders' = Holders /\ Switchers' = Switchers \cup {r}
    BY <1>5 DEF BeginSwitch, InAcquire
  <2>3. Switchers = {}
    BY <1>0, <2>1 DEF SwitchIsExclusive
  <2>4. Lease!StartChange(r)
    BY <2>1, <2>2, <2>3 DEF Lease!StartChange
  <2> QED
    BY <2>4 DEF Lease!Next, Lease!Procs
<1>6. ASSUME NEW r \in Requests, GiveUp(r) PROVE [Lease!Next]_(Lease!vars)
  <2>1. QuietLease
    BY <1>6 DEF GiveUp, ReturnToCaller
  <2> QED
    BY <2>1, QuietMaps
<1>7. ASSUME NEW r \in Requests, Preempt(r) PROVE [Lease!Next]_(Lease!vars)
  <2>1. QuietLease
    BY <1>7 DEF Preempt
  <2> QED
    BY <2>1, QuietMaps
<1>8. ASSUME NEW r \in Requests, LoadLost(r) PROVE [Lease!Next]_(Lease!vars)
  <2>1. QuietLease
    BY <1>8 DEF LoadLost
  <2> QED
    BY <2>1, QuietMaps
<1>9. ASSUME NEW r \in Requests, FinishSwitch(r) PROVE [Lease!Next]_(Lease!vars)
  <2>1. Switchers = {r} /\ r \notin Holders
    BY <1>0, <1>9 DEF FinishSwitch, SwitchIsExclusive
  <2>2. ~switching' /\ physical' = Want[r] /\ Want[r] \in Configs
    BY <1>9 DEF FinishSwitch, EndRuntimeSwitch, RecordLoad
  <2>3. Switchers' = {} /\ Holders' \in {Holders, Holders \cup {r}}
    BY <1>0, <1>9, <2>1 DEF FinishSwitch, ReturnToCaller
  <2>4. Lease!EndChange(r)
    BY <2>1, <2>2, <2>3 DEF Lease!EndChange, Serves
  <2> QED
    BY <2>4 DEF Lease!Next, Lease!Procs
<1>10. ASSUME NEW r \in Requests, AbandonSwitch(r) PROVE [Lease!Next]_(Lease!vars)
  <2>1. Switchers = {r}
    BY <1>0, <1>10 DEF AbandonSwitch, SwitchIsExclusive
  <2>2. Holders' = Holders /\ Switchers' = {}
    BY <1>0, <1>10, <2>1 DEF AbandonSwitch, ReturnToCaller
  <2>3. ~switching' /\ physical' \in Configs \cup {None}
    BY <1>0, <1>10 DEF AbandonSwitch, EndRuntimeSwitch, ClearRecord
  <2>4. Lease!EndChange(r)
    BY <2>1, <2>2, <2>3 DEF Lease!EndChange
  <2> QED
    BY <2>4 DEF Lease!Next, Lease!Procs
<1>11. ASSUME NEW r \in Requests, FinishReload(r) PROVE [Lease!Next]_(Lease!vars)
  <2>1. Switchers = {r}
    BY <1>0, <1>11 DEF FinishReload, SwitchIsExclusive
  <2>2. Holders' = Holders /\ Switchers' = {}
    BY <1>0, <1>11, <2>1 DEF FinishReload
  <2>3. ~switching' /\ physical' \in Configs \cup {None}
    BY <1>0, <1>11 DEF FinishReload, EndRuntimeSwitch, RecordLoad
  <2>4. Lease!EndChange(r)
    BY <2>1, <2>2, <2>3 DEF Lease!EndChange
  <2> QED
    BY <2>4 DEF Lease!Next, Lease!Procs
<1>12. ASSUME NEW r \in Requests, FailReload(r) PROVE [Lease!Next]_(Lease!vars)
  <2>1. Switchers = {r}
    BY <1>0, <1>12 DEF FailReload, SwitchIsExclusive
  <2>2. Holders' = Holders /\ Switchers' = {}
    BY <1>0, <1>12, <2>1 DEF FailReload
  <2>3. ~switching' /\ physical' \in Configs \cup {None}
    BY <1>0, <1>12 DEF FailReload, EndRuntimeSwitch, ClearRecord
  <2>4. Lease!EndChange(r)
    BY <2>1, <2>2, <2>3 DEF Lease!EndChange
  <2> QED
    BY <2>4 DEF Lease!Next, Lease!Procs
<1>13. ASSUME NEW r \in Requests, ReleaseLease(r) PROVE [Lease!Next]_(Lease!vars)
  <2>1. ~switching /\ Switchers = {}
    BY <1>0, <1>13, ServingOutsideSwitch DEF ReleaseLease
  <2>2. r \in Holders /\ Holders' = Holders \ {r} /\ Switchers' = Switchers
    BY <1>13 DEF ReleaseLease, ReturnToCaller
  <2>3. UNCHANGED <<physical, switching>>
    BY <1>13 DEF ReleaseLease
  <2>4. Lease!Drop(r)
    BY <2>1, <2>2, <2>3 DEF Lease!Drop
  <2> QED
    BY <2>4 DEF Lease!Next
<1>14. ASSUME NEW r \in Requests, AwaitReload(r) PROVE [Lease!Next]_(Lease!vars)
  <2>1. QuietLease
    BY <1>14 DEF AwaitReload, InRecovery
  <2> QED
    BY <2>1, QuietMaps
<1>15. ASSUME NEW r \in Requests, BeginReload(r) PROVE [Lease!Next]_(Lease!vars)
  <2>1. ~switching /\ switching' /\ Holders \subseteq {r}
    BY <1>0, <1>15, DrainedLane DEF BeginReload, BeginRuntimeSwitch, InRecovery, SoleUser
  <2>2. Holders' = Holders /\ Switchers' = Switchers \cup {r}
    BY <1>15 DEF BeginReload, InRecovery, SoleUser
  <2>3. Switchers = {}
    BY <1>0, <2>1 DEF SwitchIsExclusive
  <2>4. Lease!StartChange(r)
    BY <2>1, <2>2, <2>3 DEF Lease!StartChange
  <2> QED
    BY <2>4 DEF Lease!Next, Lease!Procs
<1>16. ASSUME NEW r \in Requests, GiveUpReload(r) PROVE [Lease!Next]_(Lease!vars)
  <2>1. QuietLease
    BY <1>16 DEF GiveUpReload
  <2> QED
    BY <2>1, QuietMaps
<1>17. ASSUME NEW u \in Unloaders, ChooseUnload(u) PROVE [Lease!Next]_(Lease!vars)
  <2>1. QuietLease
    BY <1>17 DEF ChooseUnload
  <2> QED
    BY <2>1, QuietMaps
<1>18. ASSUME NEW u \in Unloaders, RefuseClaim(u) PROVE [Lease!Next]_(Lease!vars)
  <2>1. QuietLease
    BY <1>18 DEF RefuseClaim, InClaim
  <2> QED
    BY <2>1, QuietMaps
<1>19. ASSUME NEW u \in Unloaders, AwaitClaim(u) PROVE [Lease!Next]_(Lease!vars)
  <2>1. QuietLease
    BY <1>19 DEF AwaitClaim, InClaim
  <2> QED
    BY <2>1, QuietMaps
<1>20. ASSUME NEW u \in Unloaders, ClaimIdle(u) PROVE [Lease!Next]_(Lease!vars)
  <2>1. ~switching /\ switching' /\ Holders \subseteq {u}
    BY <1>0, <1>20, DrainedLane DEF ClaimIdle, BeginRuntimeSwitch, InClaim
  <2>2. Holders' = Holders /\ Switchers' = Switchers \cup {u}
    BY <1>20 DEF ClaimIdle, InClaim
  <2>3. Switchers = {}
    BY <1>0, <2>1 DEF SwitchIsExclusive
  <2>4. Lease!StartChange(u)
    BY <2>1, <2>2, <2>3 DEF Lease!StartChange
  <2> QED
    BY <2>4 DEF Lease!Next, Lease!Procs
<1>21. ASSUME NEW u \in Unloaders, GiveUpClaim(u) PROVE [Lease!Next]_(Lease!vars)
  <2>1. QuietLease
    BY <1>21 DEF GiveUpClaim
  <2> QED
    BY <2>1, QuietMaps
<1>22. ASSUME NEW u \in Unloaders, FinishUnload(u) PROVE [Lease!Next]_(Lease!vars)
  <2>1. Switchers = {u}
    BY <1>0, <1>22 DEF FinishUnload, SwitchIsExclusive
  <2>2. Holders' = Holders /\ Switchers' = {}
    BY <1>0, <1>22, <2>1 DEF FinishUnload
  <2>3. ~switching' /\ physical' \in Configs \cup {None}
    BY <1>0, <1>22 DEF FinishUnload, EndRuntimeSwitch
  <2>4. Lease!EndChange(u)
    BY <2>1, <2>2, <2>3 DEF Lease!EndChange
  <2> QED
    BY <2>4 DEF Lease!Next, Lease!Procs
<1>23. CASE Crash
  <2>1. QuietLease
    BY <1>23 DEF Crash
  <2> QED
    BY <2>1, QuietMaps
<1>24. CASE UNCHANGED vars
  <2>1. QuietLease
    BY <1>24 DEF vars
  <2> QED
    BY <2>1, QuietMaps
<1> QED
  BY <1>1, <1>2, <1>3, <1>4, <1>5, <1>6, <1>7, <1>8, <1>9, <1>10, <1>11, <1>12,
     <1>13, <1>14, <1>15, <1>16, <1>17, <1>18, <1>19, <1>20, <1>21, <1>22, <1>23, <1>24
  DEF Next, RequestNext, UnloaderNext, Acquire, Load, Recover, Claim

\* The lane, with its tickets, broadcasts, counters, load attempts, crashes and
\* preemptions, implements the abstract lease: leases are shared on one config
\* that serves their holders, and whoever changes the config is alone.
THEOREM LaneImplementsLease == Spec => ImplementsLease
<1>1. Init => Lease!Init
  BY DEF Init, Lease!Init, Holders, Switchers, Holding, InSwitch, Procs
<1> QED
  BY RecordAlways, LeaseStep, <1>1, PTL DEF Spec, ImplementsLease, Lease!Spec

-----------------------------------------------------------------------------
(***************************************************************************)
(* The switch queue of a lane and its broadcast channel, for any finite    *)
(* set of requests and any unloaders: tickets are returned on every path,  *)
(* and nobody sleeps through the event that would let it go on.            *)
(*                                                                         *)
(* NoLostWakeup needs three facts besides the tickets: a waiter's smaller  *)
(* tickets belong to waiters (so a goroutine outside the queue changes     *)
(* nobody's turn), the record is sound (so that joining a sibling, which   *)
(* changes filename without closing the channel for a newcomer, changes    *)
(* for no sleeper what the lane can serve), and the counters are exact (so *)
(* that the release which does not close the channel leaves a lease).      *)
(***************************************************************************)

\* Smaller tickets are tickets in the queue.
AheadAreWaiters == \A p \in waiters : ahead[p] \subseteq waiters

\* A new queue has no tickets.
LEMMA InitTickets == Init => NoOrphanTicket /\ AheadAreWaiters
  BY DEF Init, NoOrphanTicket, AheadAreWaiters, InQueue, Procs

\* Every operation keeps tickets with their goroutines.
LEMMA TicketStep == TypeOK /\ NoOrphanTicket /\ [Next]_vars => NoOrphanTicket'
<1> SUFFICES ASSUME TypeOK, NoOrphanTicket, [Next]_vars PROVE NoOrphanTicket'
  OBVIOUS
<1> USE LaneAssumption
    DEF TypeOK, NoOrphanTicket, InQueue, Procs, Move, configVars, switchVars, userVars,
        queueVars, requestVars, unloadVars, backendVars
<1>1. ASSUME NEW r \in Requests, Arrive(r) PROVE NoOrphanTicket'
  BY <1>1 DEF Arrive
<1>2. ASSUME NEW r \in Requests, Reuse(r) PROVE NoOrphanTicket'
  BY <1>2 DEF Reuse, InAcquire, LeaveQueue, RemoveTicket
<1>3. ASSUME NEW r \in Requests, HandBack(r) PROVE NoOrphanTicket'
  BY <1>3 DEF HandBack, InAcquire, LeaveQueue, RemoveTicket, ReturnToCaller
<1>4. ASSUME NEW r \in Requests, Await(r) PROVE NoOrphanTicket'
  BY <1>4 DEF Await, InAcquire, JoinAndSleep
<1>5. ASSUME NEW r \in Requests, BeginSwitch(r) PROVE NoOrphanTicket'
  BY <1>5 DEF BeginSwitch, InAcquire, PassQueue, RemoveTicket, Notify
<1>6. ASSUME NEW r \in Requests, GiveUp(r) PROVE NoOrphanTicket'
  BY <1>6 DEF GiveUp, LeaveQueue, RemoveTicket, ReturnToCaller
<1>7. ASSUME NEW r \in Requests, Preempt(r) PROVE NoOrphanTicket'
  BY <1>7 DEF Preempt
<1>8. ASSUME NEW r \in Requests, LoadLost(r) PROVE NoOrphanTicket'
  BY <1>8 DEF LoadLost
<1>9. ASSUME NEW r \in Requests, FinishSwitch(r) PROVE NoOrphanTicket'
  BY <1>9 DEF FinishSwitch, Notify, ReturnToCaller
<1>10. ASSUME NEW r \in Requests, AbandonSwitch(r) PROVE NoOrphanTicket'
  BY <1>10 DEF AbandonSwitch, Notify, ReturnToCaller
<1>11. ASSUME NEW r \in Requests, FinishReload(r) PROVE NoOrphanTicket'
  BY <1>11 DEF FinishReload, Notify
<1>12. ASSUME NEW r \in Requests, FailReload(r) PROVE NoOrphanTicket'
  BY <1>12 DEF FailReload, Notify
<1>13. ASSUME NEW r \in Requests, ReleaseLease(r) PROVE NoOrphanTicket'
  BY <1>13 DEF ReleaseLease, ReturnToCaller
<1>14. ASSUME NEW r \in Requests, AwaitReload(r) PROVE NoOrphanTicket'
  BY <1>14 DEF AwaitReload, InRecovery, JoinAndSleep
<1>15. ASSUME NEW r \in Requests, BeginReload(r) PROVE NoOrphanTicket'
  BY <1>15 DEF BeginReload, InRecovery, PassQueue, RemoveTicket, Notify
<1>16. ASSUME NEW r \in Requests, GiveUpReload(r) PROVE NoOrphanTicket'
  BY <1>16 DEF GiveUpReload, LeaveQueue, RemoveTicket
<1>17. ASSUME NEW u \in Unloaders, ChooseUnload(u) PROVE NoOrphanTicket'
  BY <1>17 DEF ChooseUnload
<1>18. ASSUME NEW u \in Unloaders, RefuseClaim(u) PROVE NoOrphanTicket'
  BY <1>18 DEF RefuseClaim, InClaim, PassQueue, RemoveTicket, Notify
<1>19. ASSUME NEW u \in Unloaders, AwaitClaim(u) PROVE NoOrphanTicket'
  BY <1>19 DEF AwaitClaim, InClaim, JoinAndSleep
<1>20. ASSUME NEW u \in Unloaders, ClaimIdle(u) PROVE NoOrphanTicket'
  BY <1>20 DEF ClaimIdle, InClaim, PassQueue, RemoveTicket, Notify
<1>21. ASSUME NEW u \in Unloaders, GiveUpClaim(u) PROVE NoOrphanTicket'
  BY <1>21 DEF GiveUpClaim, LeaveQueue, RemoveTicket
<1>22. ASSUME NEW u \in Unloaders, FinishUnload(u) PROVE NoOrphanTicket'
  BY <1>22 DEF FinishUnload, Notify
<1>23. CASE Crash
  BY <1>23 DEF Crash
<1>24. CASE UNCHANGED vars
  BY <1>24 DEF vars
<1> QED
  BY <1>1, <1>2, <1>3, <1>4, <1>5, <1>6, <1>7, <1>8, <1>9, <1>10, <1>11, <1>12,
     <1>13, <1>14, <1>15, <1>16, <1>17, <1>18, <1>19, <1>20, <1>21, <1>22, <1>23, <1>24
  DEF Next, RequestNext, UnloaderNext, Acquire, Load, Recover, Claim

\* Every operation keeps the queue closed under smaller tickets.
LEMMA AheadStep == TypeOK /\ AheadAreWaiters /\ [Next]_vars => AheadAreWaiters'
<1> SUFFICES ASSUME TypeOK, AheadAreWaiters, [Next]_vars PROVE AheadAreWaiters'
  OBVIOUS
<1> USE DEF TypeOK, AheadAreWaiters, Procs, AheadOf, configVars, switchVars, userVars,
        queueVars, requestVars, unloadVars, backendVars
<1>1. ASSUME NEW r \in Requests, Arrive(r) PROVE AheadAreWaiters'
  BY <1>1 DEF Arrive
<1>2. ASSUME NEW r \in Requests, Reuse(r) PROVE AheadAreWaiters'
  BY <1>2 DEF Reuse, LeaveQueue, RemoveTicket
<1>3. ASSUME NEW r \in Requests, HandBack(r) PROVE AheadAreWaiters'
  BY <1>3 DEF HandBack, LeaveQueue, RemoveTicket
<1>4. ASSUME NEW r \in Requests, Await(r) PROVE AheadAreWaiters'
  BY <1>4 DEF Await, JoinAndSleep
<1>5. ASSUME NEW r \in Requests, BeginSwitch(r) PROVE AheadAreWaiters'
  BY <1>5 DEF BeginSwitch, PassQueue, RemoveTicket
<1>6. ASSUME NEW r \in Requests, GiveUp(r) PROVE AheadAreWaiters'
  BY <1>6 DEF GiveUp, LeaveQueue, RemoveTicket
<1>7. ASSUME NEW r \in Requests, Preempt(r) PROVE AheadAreWaiters'
  BY <1>7 DEF Preempt
<1>8. ASSUME NEW r \in Requests, LoadLost(r) PROVE AheadAreWaiters'
  BY <1>8 DEF LoadLost
<1>9. ASSUME NEW r \in Requests, FinishSwitch(r) PROVE AheadAreWaiters'
  BY <1>9 DEF FinishSwitch
<1>10. ASSUME NEW r \in Requests, AbandonSwitch(r) PROVE AheadAreWaiters'
  BY <1>10 DEF AbandonSwitch
<1>11. ASSUME NEW r \in Requests, FinishReload(r) PROVE AheadAreWaiters'
  BY <1>11 DEF FinishReload
<1>12. ASSUME NEW r \in Requests, FailReload(r) PROVE AheadAreWaiters'
  BY <1>12 DEF FailReload
<1>13. ASSUME NEW r \in Requests, ReleaseLease(r) PROVE AheadAreWaiters'
  BY <1>13 DEF ReleaseLease
<1>14. ASSUME NEW r \in Requests, AwaitReload(r) PROVE AheadAreWaiters'
  BY <1>14 DEF AwaitReload, JoinAndSleep
<1>15. ASSUME NEW r \in Requests, BeginReload(r) PROVE AheadAreWaiters'
  BY <1>15 DEF BeginReload, PassQueue, RemoveTicket
<1>16. ASSUME NEW r \in Requests, GiveUpReload(r) PROVE AheadAreWaiters'
  BY <1>16 DEF GiveUpReload, LeaveQueue, RemoveTicket
<1>17. ASSUME NEW u \in Unloaders, ChooseUnload(u) PROVE AheadAreWaiters'
  BY <1>17 DEF ChooseUnload
<1>18. ASSUME NEW u \in Unloaders, RefuseClaim(u) PROVE AheadAreWaiters'
  BY <1>18 DEF RefuseClaim, PassQueue, RemoveTicket
<1>19. ASSUME NEW u \in Unloaders, AwaitClaim(u) PROVE AheadAreWaiters'
  BY <1>19 DEF AwaitClaim, JoinAndSleep
<1>20. ASSUME NEW u \in Unloaders, ClaimIdle(u) PROVE AheadAreWaiters'
  BY <1>20 DEF ClaimIdle, PassQueue, RemoveTicket
<1>21. ASSUME NEW u \in Unloaders, GiveUpClaim(u) PROVE AheadAreWaiters'
  BY <1>21 DEF GiveUpClaim, LeaveQueue, RemoveTicket
<1>22. ASSUME NEW u \in Unloaders, FinishUnload(u) PROVE AheadAreWaiters'
  BY <1>22 DEF FinishUnload
<1>23. CASE Crash
  BY <1>23 DEF Crash
<1>24. CASE UNCHANGED vars
  BY <1>24 DEF vars
<1> QED
  BY <1>1, <1>2, <1>3, <1>4, <1>5, <1>6, <1>7, <1>8, <1>9, <1>10, <1>11, <1>12,
     <1>13, <1>14, <1>15, <1>16, <1>17, <1>18, <1>19, <1>20, <1>21, <1>22, <1>23, <1>24
  DEF Next, RequestNext, UnloaderNext, Acquire, Load, Recover, Claim

\* A ticket is in the queue exactly while its goroutine waits, on every exit
\* path (lease, hand-back, switch, deadline, refused claim): no ticket that
\* nobody holds blocks the later switches.
THEOREM NoTicketOrphaned == Spec => []NoOrphanTicket
<1> QED
  BY InitType, TypeStep, InitTickets, TicketStep, PTL DEF Spec

-----------------------------------------------------------------------------
(* Wakeups                                                                 *)

\* A step after which every sleeper of before still sleeps, and that changes
\* neither whose turn it is nor what can be served, nor drains the lane.
SameForSleepers ==
    /\ asleep' = asleep
    /\ waiters' = waiters
    /\ window' = window
    /\ switching' = switching
    /\ physical' = physical
    /\ users > 0 => users' > 0
    /\ \A p \in waiters : pc'[p] = pc[p] /\ ahead'[p] = ahead[p]

\* MatchesIsServes in the state after a step.
LEMMA MatchesIsServesAfter ==
    ASSUME TypeOK', RecordSound', NEW r \in Requests
    PROVE  Matches(r)' <=> Serves(physical', r)
<1>1. Want[r] \in Configs /\ Want[r] # None
  BY LaneAssumption
<1>2. physical' = None => ~Siblings(physical', Want[r])
  BY LaneAssumption DEF Siblings
<1> QED
  BY <1>1, <1>2 DEF Matches, Serves, Siblings, RecordSound

\* Such a step wakes nobody up and nobody needs to be.
LEMMA SleepersWait ==
    ASSUME TypeOK, TypeOK', RecordSound, RecordSound', NoOrphanTicket, AheadAreWaiters,
           NoLostWakeup, SameForSleepers
    PROVE  NoLostWakeup'
<1> SUFFICES ASSUME NEW p \in asleep', pc'[p] \in {"queued", "claimQueued"}
             PROVE  MustWait(p)'
  BY DEF NoLostWakeup
<1>1. p \in asleep /\ p \in waiters /\ p \in Procs /\ pc'[p] = pc[p] /\ ahead'[p] = ahead[p]
  BY DEF SameForSleepers, NoOrphanTicket, TypeOK
<1>2. MustWait(p)
  BY <1>1 DEF NoLostWakeup
<1>3. \A r \in Requests : Matches(r) <=> Matches(r)'
  BY MatchesIsServes, MatchesIsServesAfter DEF SameForSleepers
<1>4. \A q \in waiters : Satisfied(q) <=> Satisfied(q)'
  BY <1>3 DEF Satisfied, SameForSleepers
<1>5. AheadOf(p)' = AheadOf(p) /\ AheadOf(p) \subseteq waiters
  BY <1>1 DEF AheadOf, SameForSleepers, AheadAreWaiters
<1>6. MaySwitch(p) <=> MaySwitch(p)'
  BY <1>1, <1>4, <1>5 DEF MaySwitch
<1>7. AdmitsLease(p) <=> AdmitsLease(p)'
  BY <1>4, <1>5 DEF AdmitsLease, SameForSleepers
<1>8. p \in Requests => (MayLease(p) <=> MayLease(p)')
  BY <1>3, <1>7 DEF MayLease, SameForSleepers
<1>9. pc[p] = "queued" => p \in Requests
  BY <1>1 DEF TypeOK, UnloaderPC, Procs
<1> QED
  BY <1>1, <1>2, <1>3, <1>6, <1>8, <1>9 DEF MustWait, SameForSleepers

\* Whoever goes to sleep has a reason to, and takes nobody else's away.
LEMMA JoinersWait ==
    ASSUME TypeOK, NoOrphanTicket, AheadAreWaiters, NoLostWakeup,
           NEW p \in Procs, NEW to, Move(p, to), JoinAndSleep(p),
           UNCHANGED <<configVars, switchVars, userVars>>,
           p \in waiters => pc[p] = to,
           to = "queued" =>
               /\ p \in Requests
               /\ pc[p] # "reloadQueued"
               /\ ~MayLease(p)
               /\ Matches(p) \/ switching \/ users > 0 \/ ~MaySwitch(p),
           to = "claimQueued" =>
               /\ p \notin Requests
               /\ switching \/ users > 0 \/ ~MaySwitch(p)
    PROVE  NoLostWakeup'
<1> SUFFICES ASSUME NEW q \in asleep', pc'[q] \in {"queued", "claimQueued"}
             PROVE  MustWait(q)'
  BY DEF NoLostWakeup
<1>1. \A r \in Requests : Matches(r)' = Matches(r)
  BY DEF Matches, configVars
<1>2. waiters' = waiters \cup {p} /\ window' = window /\ asleep' = asleep \cup {p}
  BY DEF JoinAndSleep
<1>3. pc'[p] = to /\ \A w \in Procs : w # p => pc'[w] = pc[w]
  BY DEF Move, TypeOK
<1>4. \A w \in waiters : Satisfied(w)' = Satisfied(w)
  BY <1>1, <1>3 DEF Satisfied, TypeOK
<1>5. q \in Procs /\ (q # p => q \in asleep /\ q \in waiters)
  BY <1>2 DEF NoOrphanTicket, TypeOK
<1>6. AheadOf(q)' = AheadOf(q) /\ AheadOf(q) \subseteq waiters
  BY <1>2, <1>5 DEF AheadOf, JoinAndSleep, AheadAreWaiters, TypeOK
<1>7. Satisfied(q)' = Satisfied(q)
  BY <1>1, <1>3, <1>4, <1>5 DEF Satisfied
<1>8. MaySwitch(q)' = MaySwitch(q) /\ AdmitsLease(q)' = AdmitsLease(q)
  BY <1>2, <1>4, <1>6, <1>7 DEF MaySwitch, AdmitsLease
<1>9. pc'[q] = "queued" => q \in Requests /\ MayLease(q)' = MayLease(q)
  BY <1>1, <1>3, <1>5, <1>8 DEF MayLease, switchVars, TypeOK, UnloaderPC, Procs
<1>10. q # p => MustWait(q)
  BY <1>3, <1>5 DEF NoLostWakeup
<1> QED
  BY <1>1, <1>3, <1>5, <1>8, <1>9, <1>10 DEF MustWait, switchVars, userVars

\* Every operation keeps the sleepers asleep for a reason.
LEMMA WakeupStep ==
    RecordInv /\ NoOrphanTicket /\ AheadAreWaiters /\ NoLostWakeup /\ [Next]_vars
        => NoLostWakeup'
<1> SUFFICES ASSUME RecordInv, NoOrphanTicket, AheadAreWaiters, NoLostWakeup, [Next]_vars
             PROVE  NoLostWakeup'
  OBVIOUS
<1>0. /\ LaneInv /\ RecordSound /\ TypeOK /\ LeasesAccounted /\ SwitchIsExclusive
      /\ NoOrphanTicket /\ AheadAreWaiters /\ NoLostWakeup
      /\ TypeOK' /\ RecordSound'
  BY LaneStep, RecordStep, TypeStep DEF RecordInv, LaneInv
<1> USE LaneAssumption
    DEF TypeOK, NoOrphanTicket, InQueue, SameForSleepers, Procs, Move, configVars,
        switchVars, userVars,
        queueVars, requestVars, unloadVars, backendVars

<1>1. ASSUME NEW r \in Requests, Arrive(r) PROVE NoLostWakeup'
  <2>1. SameForSleepers
    BY <1>0, <1>1 DEF Arrive
  <2> QED
    BY <1>0, <2>1, SleepersWait
<1>2. ASSUME NEW r \in Requests, Reuse(r) PROVE NoLostWakeup'
  <2>1. CASE r \in waiters
    <3>1. asleep' = {}
      BY <1>2, <2>1 DEF Reuse, LeaveQueue
    <3> QED
      BY <3>1 DEF NoLostWakeup
  <2>2. CASE r \notin waiters
    <3>1. /\ waiters' = waiters \ {r} /\ window' = window \ {r} /\ asleep' = asleep
          /\ ahead' = [q \in Procs |-> IF q = r THEN {} ELSE ahead[q] \ {r}]
      BY <1>2, <2>2 DEF Reuse, LeaveQueue, RemoveTicket
    <3>2. waiters' = waiters /\ window' = window
      BY <1>0, <2>2, <3>1
    <3>3. \A p \in waiters : ahead'[p] = ahead[p]
      BY <1>0, <2>2, <3>1 DEF AheadAreWaiters
    <3>4. \A p \in waiters : pc'[p] = pc[p]
      BY <1>0, <1>2, <2>2 DEF Reuse
    <3>5. /\ switching' = switching /\ physical' = physical
          /\ users > 0 => users' > 0
      BY <1>0, <1>2 DEF Reuse, AddLease
    <3>6. SameForSleepers
      BY <3>1, <3>2, <3>3, <3>4, <3>5
    <3> QED
      BY <1>0, <3>6, SleepersWait
  <2> QED
    BY <2>1, <2>2
<1>3. ASSUME NEW r \in Requests, HandBack(r) PROVE NoLostWakeup'
  <2>1. CASE r \in waiters
    <3>1. asleep' = {}
      BY <1>3, <2>1 DEF HandBack, LeaveQueue
    <3> QED
      BY <3>1 DEF NoLostWakeup
  <2>2. CASE r \notin waiters
    <3>1. /\ waiters' = waiters \ {r} /\ window' = window \ {r} /\ asleep' = asleep
          /\ ahead' = [q \in Procs |-> IF q = r THEN {} ELSE ahead[q] \ {r}]
      BY <1>3, <2>2 DEF HandBack, LeaveQueue, RemoveTicket
    <3>2. waiters' = waiters /\ window' = window
      BY <1>0, <2>2, <3>1
    <3>3. \A p \in waiters : ahead'[p] = ahead[p]
      BY <1>0, <2>2, <3>1 DEF AheadAreWaiters
    <3>4. \A p \in waiters : pc'[p] = pc[p]
      BY <1>0, <1>3, <2>2 DEF HandBack, ReturnToCaller
    <3>5. /\ switching' = switching /\ physical' = physical
          /\ users > 0 => users' > 0
      BY <1>0, <1>3 DEF HandBack
    <3>6. SameForSleepers
      BY <3>1, <3>2, <3>3, <3>4, <3>5
    <3> QED
      BY <1>0, <3>6, SleepersWait
  <2> QED
    BY <2>1, <2>2
<1>4. ASSUME NEW r \in Requests, Await(r) PROVE NoLostWakeup'
  <2>1. Move(r, "queued") /\ JoinAndSleep(r) /\ UNCHANGED <<configVars, switchVars, userVars>>
    BY <1>4 DEF Await
  <2>2. r \in waiters => pc[r] = "queued"
    BY <1>0, <1>4 DEF Await, InAcquire
  <2> QED
    BY <1>0, <1>4, <2>1, <2>2, JoinersWait DEF Await, InAcquire
<1>5. ASSUME NEW r \in Requests, BeginSwitch(r) PROVE NoLostWakeup'
  <2>1. asleep' = {}
    BY <1>5 DEF BeginSwitch, PassQueue, Notify
  <2> QED
    BY <2>1 DEF NoLostWakeup
<1>6. ASSUME NEW r \in Requests, GiveUp(r) PROVE NoLostWakeup'
  <2>1. r \in waiters
    BY <1>0, <1>6 DEF GiveUp, NoOrphanTicket, InQueue, Procs
  <2>2. asleep' = {}
    BY <1>6, <2>1 DEF GiveUp, LeaveQueue
  <2> QED
    BY <2>2 DEF NoLostWakeup
<1>7. ASSUME NEW r \in Requests, Preempt(r) PROVE NoLostWakeup'
  <2>1. SameForSleepers
    BY <1>0, <1>7 DEF Preempt
  <2> QED
    BY <1>0, <2>1, SleepersWait
<1>8. ASSUME NEW r \in Requests, LoadLost(r) PROVE NoLostWakeup'
  <2>1. SameForSleepers
    BY <1>0, <1>8 DEF LoadLost
  <2> QED
    BY <1>0, <2>1, SleepersWait
<1>9. ASSUME NEW r \in Requests, FinishSwitch(r) PROVE NoLostWakeup'
  <2>1. asleep' = {}
    BY <1>9 DEF FinishSwitch, PassQueue, Notify
  <2> QED
    BY <2>1 DEF NoLostWakeup
<1>10. ASSUME NEW r \in Requests, AbandonSwitch(r) PROVE NoLostWakeup'
  <2>1. asleep' = {}
    BY <1>10 DEF AbandonSwitch, PassQueue, Notify
  <2> QED
    BY <2>1 DEF NoLostWakeup
<1>11. ASSUME NEW r \in Requests, FinishReload(r) PROVE NoLostWakeup'
  <2>1. asleep' = {}
    BY <1>11 DEF FinishReload, PassQueue, Notify
  <2> QED
    BY <2>1 DEF NoLostWakeup
<1>12. ASSUME NEW r \in Requests, FailReload(r) PROVE NoLostWakeup'
  <2>1. asleep' = {}
    BY <1>12 DEF FailReload, PassQueue, Notify
  <2> QED
    BY <2>1 DEF NoLostWakeup
<1>13. ASSUME NEW r \in Requests, ReleaseLease(r) PROVE NoLostWakeup'
  <2>1. r \in Holders /\ Holders \in SUBSET Requests
    BY <1>13 DEF ReleaseLease, Holders, Holding
  <2>2. users \in Nat \ {0}
    BY <1>0, <2>1, DropCounts DEF LeasesAccounted
  <2>3. CASE users = 1
    <3>1. asleep' = {}
      BY <1>13, <2>3 DEF ReleaseLease
    <3> QED
      BY <3>1 DEF NoLostWakeup
  <2>4. CASE users # 1
    <3>1. users' > 0
      BY <1>13, <2>2, <2>4 DEF ReleaseLease
    <3>2. SameForSleepers
      BY <1>0, <1>13, <2>4, <3>1 DEF ReleaseLease, ReturnToCaller
    <3> QED
      BY <1>0, <3>2, SleepersWait
  <2> QED
    BY <2>3, <2>4
<1>14. ASSUME NEW r \in Requests, AwaitReload(r) PROVE NoLostWakeup'
  <2>1. Move(r, "reloadQueued") /\ JoinAndSleep(r) /\ UNCHANGED <<configVars, switchVars, userVars>>
    BY <1>14 DEF AwaitReload
  <2>2. r \in waiters => pc[r] = "reloadQueued"
    BY <1>0, <1>14 DEF AwaitReload, InRecovery
  <2> QED
    BY <1>0, <1>14, <2>1, <2>2, JoinersWait DEF AwaitReload, InRecovery
<1>15. ASSUME NEW r \in Requests, BeginReload(r) PROVE NoLostWakeup'
  <2>1. asleep' = {}
    BY <1>15 DEF BeginReload, PassQueue, Notify
  <2> QED
    BY <2>1 DEF NoLostWakeup
<1>16. ASSUME NEW r \in Requests, GiveUpReload(r) PROVE NoLostWakeup'
  <2>1. r \in waiters
    BY <1>0, <1>16 DEF GiveUpReload, NoOrphanTicket, InQueue, Procs
  <2>2. asleep' = {}
    BY <1>16, <2>1 DEF GiveUpReload, LeaveQueue
  <2> QED
    BY <2>2 DEF NoLostWakeup
<1>17. ASSUME NEW u \in Unloaders, ChooseUnload(u) PROVE NoLostWakeup'
  <2>1. SameForSleepers
    BY <1>0, <1>17 DEF ChooseUnload
  <2> QED
    BY <1>0, <2>1, SleepersWait
<1>18. ASSUME NEW u \in Unloaders, RefuseClaim(u) PROVE NoLostWakeup'
  <2>1. asleep' = {}
    BY <1>18 DEF RefuseClaim, PassQueue, Notify
  <2> QED
    BY <2>1 DEF NoLostWakeup
<1>19. ASSUME NEW u \in Unloaders, AwaitClaim(u) PROVE NoLostWakeup'
  <2>1. Move(u, "claimQueued") /\ JoinAndSleep(u) /\ UNCHANGED <<configVars, switchVars, userVars>>
    BY <1>19 DEF AwaitClaim
  <2>2. u \in waiters => pc[u] = "claimQueued"
    BY <1>0, <1>19 DEF AwaitClaim, InClaim
  <2> QED
    BY <1>0, <1>19, <2>1, <2>2, JoinersWait DEF AwaitClaim, InClaim
<1>20. ASSUME NEW u \in Unloaders, ClaimIdle(u) PROVE NoLostWakeup'
  <2>1. asleep' = {}
    BY <1>20 DEF ClaimIdle, PassQueue, Notify
  <2> QED
    BY <2>1 DEF NoLostWakeup
<1>21. ASSUME NEW u \in Unloaders, GiveUpClaim(u) PROVE NoLostWakeup'
  <2>1. u \in waiters
    BY <1>0, <1>21 DEF GiveUpClaim, NoOrphanTicket, InQueue, Procs
  <2>2. asleep' = {}
    BY <1>21, <2>1 DEF GiveUpClaim, LeaveQueue
  <2> QED
    BY <2>2 DEF NoLostWakeup
<1>22. ASSUME NEW u \in Unloaders, FinishUnload(u) PROVE NoLostWakeup'
  <2>1. asleep' = {}
    BY <1>22 DEF FinishUnload, PassQueue, Notify
  <2> QED
    BY <2>1 DEF NoLostWakeup
<1>23. CASE Crash
  <2>1. SameForSleepers
    BY <1>0, <1>23 DEF Crash
  <2> QED
    BY <1>0, <2>1, SleepersWait
<1>24. CASE UNCHANGED vars
  <2>1. SameForSleepers
    BY <1>0, <1>24 DEF vars
  <2> QED
    BY <1>0, <2>1, SleepersWait
<1> QED
  BY <1>1, <1>2, <1>3, <1>4, <1>5, <1>6, <1>7, <1>8, <1>9, <1>10, <1>11, <1>12,
     <1>13, <1>14, <1>15, <1>16, <1>17, <1>18, <1>19, <1>20, <1>21, <1>22, <1>23, <1>24
  DEF Next, RequestNext, UnloaderNext, Acquire, Load, Recover, Claim

\* No goroutine in acquireUnlessPreempted or claimIdleRuntime sleeps on
\* state.changed when it could go on: whatever let it go on closed the channel.
THEOREM NoWakeupLost == Spec => []NoLostWakeup
<1>1. Init => NoLostWakeup
  BY DEF Init, NoLostWakeup
<1> QED
  BY InitType, TypeStep, RecordAlways, InitTickets, TicketStep, AheadStep, WakeupStep,
     <1>1, PTL DEF Spec

=============================================================================
