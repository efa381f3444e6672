------------------------- MODULE BackendFamilyProofs -------------------------
(***************************************************************************)
(* Theorems about BackendFamily for any finite set of requests and any     *)
(* sets of families and lanes: the invariants of the family switch, that   *)
(* no request has its family switched away, and that every lane keeps the  *)
(* promise of RuntimeLease.                                                *)
(*                                                                         *)
(* The argument goes through the drain.  FamilyInv says who may use a lane *)
(* (LaneUse) and what a switch has established by the time it stops the    *)
(* old family: no family lease is left (Drain), and, once every primary    *)
(* lane is claimed, no lane lease either, so that the only point at which  *)
(* mode changes is one where nobody runs on a primary lane.                *)
(***************************************************************************)
EXTENDS BackendFamily, FiniteSetTheorems, TLAPS

-----------------------------------------------------------------------------
(* Types and the count of family leases                                    *)

LeasedSet == {r \in Requests : pc[r] \in Leased}

\* TypeOK without the count of leases, which is a number only because it is
\* exact: a release never meets a count of zero.
ShapeOK ==
    /\ pc \in [Requests -> PCs]
    /\ mode \in Modes \cup {NoMode}
    /\ switching \in BOOLEAN
    /\ asleep \in SUBSET Requests
    /\ unloads \in [Requests -> SUBSET Lanes]
    /\ holders \in [Lanes -> SUBSET Requests]
    /\ exclusive \in [Lanes -> SUBSET Requests]

FlagsOK == loaded \in [Lanes -> BOOLEAN] /\ up \in [Lanes -> BOOLEAN]

\* The initial state has the right shape.
LEMMA InitShape == Init => ShapeOK /\ FlagsOK
<1>1. Init => ShapeOK
  BY FamilyAssumption DEF Init, ShapeOK, PCs
<1>2. Init => FlagsOK
  BY DEF Init, FlagsOK
<1> QED
  BY <1>1, <1>2

\* Every operation keeps the shape of the family and lane state.
LEMMA ShapeStep == ShapeOK /\ [Next]_vars => ShapeOK'
<1> SUFFICES ASSUME ShapeOK, [Next]_vars PROVE ShapeOK'
  OBVIOUS
<1> USE FamilyAssumption DEF ShapeOK, PCs, Switching, Leased, Holding, ModeOf, Move,
        familyVars, laneVars
<1>1. ASSUME NEW r \in Requests, TakeLease(r) PROVE ShapeOK'
  BY <1>1 DEF TakeLease, Ready
<1>2. ASSUME NEW r \in Requests, AwaitFamily(r) PROVE ShapeOK'
  BY <1>2 DEF AwaitFamily, Ready
<1>3. ASSUME NEW r \in Requests, BeginFamilySwitch(r) PROVE ShapeOK'
  BY <1>3 DEF BeginFamilySwitch, Ready
<1>4. ASSUME NEW r \in Requests, Started(r) PROVE ShapeOK'
  BY <1>4 DEF Started, EnterPolicy
<1>5. ASSUME NEW r \in Requests, StartFails(r) PROVE ShapeOK'
  BY <1>5 DEF StartFails, ReturnLease
<1>6. ASSUME NEW r \in Requests, AwaitDrain(r) PROVE ShapeOK'
  BY <1>6 DEF AwaitDrain
<1>7. ASSUME NEW r \in Requests, Drained(r) PROVE ShapeOK'
  BY <1>7 DEF Drained
<1>8. ASSUME NEW r \in Requests, NEW l \in Lanes, ClaimForStop(r, l) PROVE ShapeOK'
  BY <1>8 DEF ClaimForStop, Free, SetExclusive
<1>9. ASSUME NEW r \in Requests, StopFamily(r) PROVE ShapeOK'
  BY <1>9 DEF StopFamily, AllClaimed, Claims, ReleaseClaims
<1>10. ASSUME NEW r \in Requests, StopFamilyFails(r) PROVE ShapeOK'
  BY <1>10 DEF StopFamilyFails, ReleaseClaims, EndSwitch
<1>11. ASSUME NEW r \in Requests, FinishFamilySwitch(r) PROVE ShapeOK'
  <2>1. unloads' \in [Requests -> SUBSET Lanes]
    BY <1>11 DEF FinishFamilySwitch, EnterPolicy
  <2> QED
    BY <1>11, <2>1 DEF FinishFamilySwitch, EnterPolicy, EndSwitch
<1>12. ASSUME NEW r \in Requests, SwitchStartFails(r) PROVE ShapeOK'
  BY <1>12 DEF SwitchStartFails, EndSwitch
<1>13. ASSUME NEW r \in Requests, NEW l \in Lanes, ClaimForUnload(r, l) PROVE ShapeOK'
  BY <1>13 DEF ClaimForUnload, Free, SetExclusive
<1>14. ASSUME NEW r \in Requests, NEW l \in Lanes, FinishUnload(r, l) PROVE ShapeOK'
  BY <1>14 DEF FinishUnload, SetExclusive
<1>15. ASSUME NEW r \in Requests, PolicyEnforced(r) PROVE ShapeOK'
  BY <1>15 DEF PolicyEnforced, UnloadsDone, Claims
<1>16. ASSUME NEW r \in Requests, PolicyFails(r) PROVE ShapeOK'
  BY <1>16 DEF PolicyFails, UnloadsDone, Claims, ReturnLease
<1>17. ASSUME NEW r \in Requests, ReuseLane(r) PROVE ShapeOK'
  BY <1>17 DEF ReuseLane
<1>18. ASSUME NEW r \in Requests, BeginLoad(r) PROVE ShapeOK'
  BY <1>18 DEF BeginLoad, Free, SetExclusive
<1>19. ASSUME NEW r \in Requests, FinishLoad(r) PROVE ShapeOK'
  BY <1>19 DEF FinishLoad, SetExclusive
<1>20. ASSUME NEW r \in Requests, LoadFails(r) PROVE ShapeOK'
  BY <1>20 DEF LoadFails, SetExclusive, ReturnLease
<1>21. ASSUME NEW r \in Requests, ReturnFamily(r) PROVE ShapeOK'
  BY <1>21 DEF ReturnFamily, ReturnLease
<1>22. ASSUME NEW r \in Requests, BeginReload(r) PROVE ShapeOK'
  BY <1>22 DEF BeginReload, SetExclusive
<1>23. ASSUME NEW r \in Requests, EndReload(r) PROVE ShapeOK'
  BY <1>23 DEF EndReload, SetExclusive
<1>24. ASSUME NEW r \in Requests, Release(r) PROVE ShapeOK'
  BY <1>24 DEF Release
<1>25. ASSUME NEW r \in Requests, GiveUpFamily(r) PROVE ShapeOK'
  BY <1>25 DEF GiveUpFamily
<1>26. ASSUME NEW r \in Requests, AbandonFamilySwitch(r) PROVE ShapeOK'
  BY <1>26 DEF AbandonFamilySwitch, ReleaseClaims, EndSwitch
<1>27. ASSUME NEW r \in Requests, GiveUpLane(r) PROVE ShapeOK'
  BY <1>27 DEF GiveUpLane, ReturnLease
<1>28. ASSUME NEW r \in Requests, NEW l \in Lanes, GiveUpUnload(r, l) PROVE ShapeOK'
  BY <1>28 DEF GiveUpUnload
<1>29. CASE UNCHANGED vars
  BY <1>29 DEF vars
<1> QED
  BY <1>1, <1>2, <1>3, <1>4, <1>5, <1>6, <1>7, <1>8, <1>9, <1>10, <1>11, <1>12, <1>13,
     <1>14, <1>15, <1>16, <1>17, <1>18, <1>19, <1>20, <1>21, <1>22, <1>23, <1>24, <1>25,
     <1>26, <1>27, <1>28, <1>29
  DEF Next, LeaseFamily, StartFamily, SwitchFamily, EnforcePolicy, UseLane, GiveUp

\* Every operation keeps loaded and up Boolean.
LEMMA FlagsStep == FlagsOK /\ [Next]_vars => FlagsOK'
<1> SUFFICES ASSUME FlagsOK, [Next]_vars PROVE FlagsOK'
  OBVIOUS
<1> USE DEF FlagsOK, Move, familyVars, laneVars
<1>1. ASSUME NEW r \in Requests, TakeLease(r) PROVE FlagsOK'
  BY <1>1 DEF TakeLease
<1>2. ASSUME NEW r \in Requests, AwaitFamily(r) PROVE FlagsOK'
  BY <1>2 DEF AwaitFamily
<1>3. ASSUME NEW r \in Requests, BeginFamilySwitch(r) PROVE FlagsOK'
  BY <1>3 DEF BeginFamilySwitch
<1>4. ASSUME NEW r \in Requests, Started(r) PROVE FlagsOK'
  BY <1>4 DEF Started, StartHook
<1>5. ASSUME NEW r \in Requests, StartFails(r) PROVE FlagsOK'
  BY <1>5 DEF StartFails, StartHook
<1>6. ASSUME NEW r \in Requests, AwaitDrain(r) PROVE FlagsOK'
  BY <1>6 DEF AwaitDrain
<1>7. ASSUME NEW r \in Requests, Drained(r) PROVE FlagsOK'
  BY <1>7 DEF Drained
<1>8. ASSUME NEW r \in Requests, NEW l \in Lanes, ClaimForStop(r, l) PROVE FlagsOK'
  BY <1>8 DEF ClaimForStop
<1>9. ASSUME NEW r \in Requests, StopFamily(r) PROVE FlagsOK'
  BY <1>9 DEF StopFamily
<1>10. ASSUME NEW r \in Requests, StopFamilyFails(r) PROVE FlagsOK'
  BY <1>10 DEF StopFamilyFails
<1>11. ASSUME NEW r \in Requests, FinishFamilySwitch(r) PROVE FlagsOK'
  BY <1>11 DEF FinishFamilySwitch, StartHook
<1>12. ASSUME NEW r \in Requests, SwitchStartFails(r) PROVE FlagsOK'
  BY <1>12 DEF SwitchStartFails, StartHook
<1>13. ASSUME NEW r \in Requests, NEW l \in Lanes, ClaimForUnload(r, l) PROVE FlagsOK'
  BY <1>13 DEF ClaimForUnload
<1>14. ASSUME NEW r \in Requests, NEW l \in Lanes, FinishUnload(r, l) PROVE FlagsOK'
  BY <1>14 DEF FinishUnload
<1>15. ASSUME NEW r \in Requests, PolicyEnforced(r) PROVE FlagsOK'
  BY <1>15 DEF PolicyEnforced
<1>16. ASSUME NEW r \in Requests, PolicyFails(r) PROVE FlagsOK'
  BY <1>16 DEF PolicyFails
<1>17. ASSUME NEW r \in Requests, ReuseLane(r) PROVE FlagsOK'
  BY <1>17 DEF ReuseLane
<1>18. ASSUME NEW r \in Requests, BeginLoad(r) PROVE FlagsOK'
  BY <1>18 DEF BeginLoad
<1>19. ASSUME NEW r \in Requests, FinishLoad(r) PROVE FlagsOK'
  BY <1>19 DEF FinishLoad
<1>20. ASSUME NEW r \in Requests, LoadFails(r) PROVE FlagsOK'
  BY <1>20 DEF LoadFails
<1>21. ASSUME NEW r \in Requests, ReturnFamily(r) PROVE FlagsOK'
  BY <1>21 DEF ReturnFamily
<1>22. ASSUME NEW r \in Requests, BeginReload(r) PROVE FlagsOK'
  BY <1>22 DEF BeginReload
<1>23. ASSUME NEW r \in Requests, EndReload(r) PROVE FlagsOK'
  BY <1>23 DEF EndReload
<1>24. ASSUME NEW r \in Requests, Release(r) PROVE FlagsOK'
  BY <1>24 DEF Release
<1>25. ASSUME NEW r \in Requests, GiveUpFamily(r) PROVE FlagsOK'
  BY <1>25 DEF GiveUpFamily
<1>26. ASSUME NEW r \in Requests, AbandonFamilySwitch(r) PROVE FlagsOK'
  BY <1>26 DEF AbandonFamilySwitch
<1>27. ASSUME NEW r \in Requests, GiveUpLane(r) PROVE FlagsOK'
  BY <1>27 DEF GiveUpLane
<1>28. ASSUME NEW r \in Requests, NEW l \in Lanes, GiveUpUnload(r, l) PROVE FlagsOK'
  BY <1>28 DEF GiveUpUnload
<1>29. CASE UNCHANGED vars
  BY <1>29 DEF vars
<1> QED
  BY <1>1, <1>2, <1>3, <1>4, <1>5, <1>6, <1>7, <1>8, <1>9, <1>10, <1>11, <1>12, <1>13,
     <1>14, <1>15, <1>16, <1>17, <1>18, <1>19, <1>20, <1>21, <1>22, <1>23, <1>24, <1>25,
     <1>26, <1>27, <1>28, <1>29
  DEF Next, LeaseFamily, StartFamily, SwitchFamily, EnforcePolicy, UseLane, GiveUp

\* Only a request that enforces its unload policy has lanes left to unload.
UnloadsInPolicy ==
    \A r \in Requests : unloads[r] # {} => pc[r] \in {"policy", "policyFailed"}

\* Every operation keeps it.
LEMMA UnloadsStep == ShapeOK /\ UnloadsInPolicy /\ [Next]_vars => UnloadsInPolicy'
<1> SUFFICES ASSUME ShapeOK, UnloadsInPolicy, [Next]_vars PROVE UnloadsInPolicy'
  OBVIOUS
<1> USE DEF ShapeOK, UnloadsInPolicy, Move, familyVars, laneVars
<1>1. ASSUME NEW r \in Requests, TakeLease(r) PROVE UnloadsInPolicy'
  BY <1>1 DEF TakeLease, Ready
<1>2. ASSUME NEW r \in Requests, AwaitFamily(r) PROVE UnloadsInPolicy'
  BY <1>2 DEF AwaitFamily, Ready
<1>3. ASSUME NEW r \in Requests, BeginFamilySwitch(r) PROVE UnloadsInPolicy'
  BY <1>3 DEF BeginFamilySwitch, Ready
<1>4. ASSUME NEW r \in Requests, Started(r) PROVE UnloadsInPolicy'
  BY <1>4 DEF Started, EnterPolicy
<1>5. ASSUME NEW r \in Requests, StartFails(r) PROVE UnloadsInPolicy'
  BY <1>5 DEF StartFails
<1>6. ASSUME NEW r \in Requests, AwaitDrain(r) PROVE UnloadsInPolicy'
  BY <1>6 DEF AwaitDrain
<1>7. ASSUME NEW r \in Requests, Drained(r) PROVE UnloadsInPolicy'
  BY <1>7 DEF Drained
<1>8. ASSUME NEW r \in Requests, NEW l \in Lanes, ClaimForStop(r, l) PROVE UnloadsInPolicy'
  BY <1>8 DEF ClaimForStop
<1>9. ASSUME NEW r \in Requests, StopFamily(r) PROVE UnloadsInPolicy'
  BY <1>9 DEF StopFamily
<1>10. ASSUME NEW r \in Requests, StopFamilyFails(r) PROVE UnloadsInPolicy'
  BY <1>10 DEF StopFamilyFails
<1>11. ASSUME NEW r \in Requests, FinishFamilySwitch(r) PROVE UnloadsInPolicy'
  <2>1. PICK S \in SUBSET Policy[r] : unloads' = [unloads EXCEPT ![r] = S]
    BY <1>11 DEF FinishFamilySwitch, EnterPolicy
  <2> QED
    BY <1>11, <2>1 DEF FinishFamilySwitch, EnterPolicy
<1>12. ASSUME NEW r \in Requests, SwitchStartFails(r) PROVE UnloadsInPolicy'
  BY <1>12 DEF SwitchStartFails
<1>13. ASSUME NEW r \in Requests, NEW l \in Lanes, ClaimForUnload(r, l) PROVE UnloadsInPolicy'
  BY <1>13 DEF ClaimForUnload
<1>14. ASSUME NEW r \in Requests, NEW l \in Lanes, FinishUnload(r, l) PROVE UnloadsInPolicy'
  BY <1>14 DEF FinishUnload
<1>15. ASSUME NEW r \in Requests, PolicyEnforced(r) PROVE UnloadsInPolicy'
  BY <1>15 DEF PolicyEnforced, UnloadsDone
<1>16. ASSUME NEW r \in Requests, PolicyFails(r) PROVE UnloadsInPolicy'
  BY <1>16 DEF PolicyFails, UnloadsDone
<1>17. ASSUME NEW r \in Requests, ReuseLane(r) PROVE UnloadsInPolicy'
  BY <1>17 DEF ReuseLane
<1>18. ASSUME NEW r \in Requests, BeginLoad(r) PROVE UnloadsInPolicy'
  BY <1>18 DEF BeginLoad
<1>19. ASSUME NEW r \in Requests, FinishLoad(r) PROVE UnloadsInPolicy'
  BY <1>19 DEF FinishLoad
<1>20. ASSUME NEW r \in Requests, LoadFails(r) PROVE UnloadsInPolicy'
  BY <1>20 DEF LoadFails
<1>21. ASSUME NEW r \in Requests, ReturnFamily(r) PROVE UnloadsInPolicy'
  BY <1>21 DEF ReturnFamily
<1>22. ASSUME NEW r \in Requests, BeginReload(r) PROVE UnloadsInPolicy'
  BY <1>22 DEF BeginReload
<1>23. ASSUME NEW r \in Requests, EndReload(r) PROVE UnloadsInPolicy'
  BY <1>23 DEF EndReload
<1>24. ASSUME NEW r \in Requests, Release(r) PROVE UnloadsInPolicy'
  BY <1>24 DEF Release
<1>25. ASSUME NEW r \in Requests, GiveUpFamily(r) PROVE UnloadsInPolicy'
  BY <1>25 DEF GiveUpFamily
<1>26. ASSUME NEW r \in Requests, AbandonFamilySwitch(r) PROVE UnloadsInPolicy'
  BY <1>26 DEF AbandonFamilySwitch
<1>27. ASSUME NEW r \in Requests, GiveUpLane(r) PROVE UnloadsInPolicy'
  BY <1>27 DEF GiveUpLane
<1>28. ASSUME NEW r \in Requests, NEW l \in Lanes, GiveUpUnload(r, l) PROVE UnloadsInPolicy'
  BY <1>28 DEF GiveUpUnload
<1>29. CASE UNCHANGED vars
  BY <1>29 DEF vars
<1> QED
  BY <1>1, <1>2, <1>3, <1>4, <1>5, <1>6, <1>7, <1>8, <1>9, <1>10, <1>11, <1>12, <1>13,
     <1>14, <1>15, <1>16, <1>17, <1>18, <1>19, <1>20, <1>21, <1>22, <1>23, <1>24, <1>25,
     <1>26, <1>27, <1>28, <1>29
  DEF Next, LeaseFamily, StartFamily, SwitchFamily, EnforcePolicy, UseLane, GiveUp

\* takeLeaseLocked: one more lease is counted.
LEMMA TakenCounts ==
    ASSUME FamilyLeasesAccounted, NEW r \in Requests, r \notin LeasedSet,
           LeasedSet' = LeasedSet \cup {r}, leases' = leases + 1
    PROVE  FamilyLeasesAccounted'
<1>1. IsFiniteSet(LeasedSet)
  BY FamilyAssumption, FS_Subset DEF LeasedSet
<1>2. Cardinality(LeasedSet') = Cardinality(LeasedSet) + 1
  BY <1>1, FS_AddElement
<1> QED
  BY <1>2 DEF FamilyLeasesAccounted, LeasedSet

\* The release of a family lease: one lease less is counted.
LEMMA ReturnedCounts ==
    ASSUME FamilyLeasesAccounted, NEW r \in LeasedSet,
           LeasedSet' = LeasedSet \ {r}, leases' = leases - 1
    PROVE  FamilyLeasesAccounted'
<1>1. IsFiniteSet(LeasedSet)
  BY FamilyAssumption, FS_Subset DEF LeasedSet
<1>2. Cardinality(LeasedSet') = Cardinality(LeasedSet) - 1
  BY <1>1, FS_RemoveElement
<1> QED
  BY <1>2 DEF FamilyLeasesAccounted, LeasedSet

\* The count is a number, and zero exactly when nobody holds a family lease.
LEMMA LeaseCount ==
    ASSUME FamilyLeasesAccounted
    PROVE  /\ leases \in Nat
           /\ leases = 0 <=> LeasedSet = {}
<1>1. IsFiniteSet(LeasedSet)
  BY FamilyAssumption, FS_Subset DEF LeasedSet
<1>2. Cardinality(LeasedSet) \in Nat /\ (Cardinality(LeasedSet) = 0 <=> LeasedSet = {})
  BY <1>1, FS_CardinalityType, FS_EmptySet
<1> QED
  BY <1>2 DEF FamilyLeasesAccounted, LeasedSet

\* Every operation counts the leases it takes and returns.
LEMMA CountStep ==
    ShapeOK /\ UnloadsInPolicy /\ FamilyLeasesAccounted /\ [Next]_vars => FamilyLeasesAccounted'
<1> SUFFICES ASSUME ShapeOK, UnloadsInPolicy, FamilyLeasesAccounted, [Next]_vars
             PROVE  FamilyLeasesAccounted'
  OBVIOUS
<1>0. ShapeOK /\ UnloadsInPolicy /\ FamilyLeasesAccounted
  OBVIOUS
<1> USE DEF ShapeOK, LeasedSet, Leased, Move, familyVars, laneVars
<1>1. ASSUME NEW r \in Requests, TakeLease(r) PROVE FamilyLeasesAccounted'
  <2>1. r \notin LeasedSet /\ LeasedSet' = LeasedSet \cup {r} /\ leases' = leases + 1
    BY <1>0, <1>1 DEF TakeLease, Ready
  <2> QED
    BY <1>0, <2>1, TakenCounts
<1>2. ASSUME NEW r \in Requests, AwaitFamily(r) PROVE FamilyLeasesAccounted'
  <2>1. LeasedSet' = LeasedSet /\ leases' = leases
    BY <1>0, <1>2 DEF AwaitFamily, Ready
  <2> QED
    BY <2>1 DEF FamilyLeasesAccounted, LeasedSet
<1>3. ASSUME NEW r \in Requests, BeginFamilySwitch(r) PROVE FamilyLeasesAccounted'
  <2>1. LeasedSet' = LeasedSet /\ leases' = leases
    BY <1>0, <1>3 DEF BeginFamilySwitch, Ready
  <2> QED
    BY <2>1 DEF FamilyLeasesAccounted, LeasedSet
<1>4. ASSUME NEW r \in Requests, Started(r) PROVE FamilyLeasesAccounted'
  <2>1. LeasedSet' = LeasedSet /\ leases' = leases
    BY <1>0, <1>4 DEF Started, EnterPolicy
  <2> QED
    BY <2>1 DEF FamilyLeasesAccounted, LeasedSet
<1>5. ASSUME NEW r \in Requests, StartFails(r) PROVE FamilyLeasesAccounted'
  <2>1. r \in LeasedSet /\ LeasedSet' = LeasedSet \ {r} /\ leases' = leases - 1
    BY <1>0, <1>5 DEF StartFails, ReturnLease
  <2> QED
    BY <1>0, <2>1, ReturnedCounts
<1>6. ASSUME NEW r \in Requests, AwaitDrain(r) PROVE FamilyLeasesAccounted'
  <2>1. LeasedSet' = LeasedSet /\ leases' = leases
    BY <1>0, <1>6 DEF AwaitDrain
  <2> QED
    BY <2>1 DEF FamilyLeasesAccounted, LeasedSet
<1>7. ASSUME NEW r \in Requests, Drained(r) PROVE FamilyLeasesAccounted'
  <2>1. LeasedSet' = LeasedSet /\ leases' = leases
    BY <1>0, <1>7 DEF Drained
  <2> QED
    BY <2>1 DEF FamilyLeasesAccounted, LeasedSet
<1>8. ASSUME NEW r \in Requests, NEW l \in Lanes, ClaimForStop(r, l) PROVE FamilyLeasesAccounted'
  <2>1. LeasedSet' = LeasedSet /\ leases' = leases
    BY <1>0, <1>8 DEF ClaimForStop
  <2> QED
    BY <2>1 DEF FamilyLeasesAccounted, LeasedSet
<1>9. ASSUME NEW r \in Requests, StopFamily(r) PROVE FamilyLeasesAccounted'
  <2>1. LeasedSet' = LeasedSet /\ leases' = leases
    BY <1>0, <1>9 DEF StopFamily
  <2> QED
    BY <2>1 DEF FamilyLeasesAccounted, LeasedSet
<1>10. ASSUME NEW r \in Requests, StopFamilyFails(r) PROVE FamilyLeasesAccounted'
  <2>1. LeasedSet' = LeasedSet /\ leases' = leases
    BY <1>0, <1>10 DEF StopFamilyFails, EndSwitch
  <2> QED
    BY <2>1 DEF FamilyLeasesAccounted, LeasedSet
<1>11. ASSUME NEW r \in Requests, FinishFamilySwitch(r) PROVE FamilyLeasesAccounted'
  <2>1. r \notin LeasedSet /\ LeasedSet' = LeasedSet \cup {r} /\ leases' = leases + 1
    BY <1>0, <1>11 DEF FinishFamilySwitch, EnterPolicy
  <2> QED
    BY <1>0, <2>1, TakenCounts
<1>12. ASSUME NEW r \in Requests, SwitchStartFails(r) PROVE FamilyLeasesAccounted'
  <2>1. LeasedSet' = LeasedSet /\ leases' = leases
    BY <1>0, <1>12 DEF SwitchStartFails, EndSwitch
  <2> QED
    BY <2>1 DEF FamilyLeasesAccounted, LeasedSet
<1>13. ASSUME NEW r \in Requests, NEW l \in Lanes, ClaimForUnload(r, l) PROVE FamilyLeasesAccounted'
  <2>1. LeasedSet' = LeasedSet /\ leases' = leases
    BY <1>0, <1>13 DEF ClaimForUnload
  <2> QED
    BY <2>1 DEF FamilyLeasesAccounted, LeasedSet
<1>14. ASSUME NEW r \in Requests, NEW l \in Lanes, FinishUnload(r, l) PROVE FamilyLeasesAccounted'
  <2>1. LeasedSet' = LeasedSet /\ leases' = leases
    BY <1>0, <1>14 DEF FinishUnload
  <2> QED
    BY <2>1 DEF FamilyLeasesAccounted, LeasedSet
<1>15. ASSUME NEW r \in Requests, PolicyEnforced(r) PROVE FamilyLeasesAccounted'
  <2>1. LeasedSet' = LeasedSet /\ leases' = leases
    BY <1>0, <1>15 DEF PolicyEnforced
  <2> QED
    BY <2>1 DEF FamilyLeasesAccounted, LeasedSet
<1>16. ASSUME NEW r \in Requests, PolicyFails(r) PROVE FamilyLeasesAccounted'
  <2>1. r \in LeasedSet /\ LeasedSet' = LeasedSet \ {r} /\ leases' = leases - 1
    BY <1>0, <1>16 DEF PolicyFails, ReturnLease
  <2> QED
    BY <1>0, <2>1, ReturnedCounts
<1>17. ASSUME NEW r \in Requests, ReuseLane(r) PROVE FamilyLeasesAccounted'
  <2>1. LeasedSet' = LeasedSet /\ leases' = leases
    BY <1>0, <1>17 DEF ReuseLane
  <2> QED
    BY <2>1 DEF FamilyLeasesAccounted, LeasedSet
<1>18. ASSUME NEW r \in Requests, BeginLoad(r) PROVE FamilyLeasesAccounted'
  <2>1. LeasedSet' = LeasedSet /\ leases' = leases
    BY <1>0, <1>18 DEF BeginLoad
  <2> QED
    BY <2>1 DEF FamilyLeasesAccounted, LeasedSet
<1>19. ASSUME NEW r \in Requests, FinishLoad(r) PROVE FamilyLeasesAccounted'
  <2>1. LeasedSet' = LeasedSet /\ leases' = leases
    BY <1>0, <1>19 DEF FinishLoad
  <2> QED
    BY <2>1 DEF FamilyLeasesAccounted, LeasedSet
<1>20. ASSUME NEW r \in Requests, LoadFails(r) PROVE FamilyLeasesAccounted'
  <2>1. r \in LeasedSet /\ LeasedSet' = LeasedSet \ {r} /\ leases' = leases - 1
    BY <1>0, <1>20 DEF LoadFails, ReturnLease
  <2> QED
    BY <1>0, <2>1, ReturnedCounts
<1>21. ASSUME NEW r \in Requests, ReturnFamily(r) PROVE FamilyLeasesAccounted'
  <2>1. r \in LeasedSet /\ LeasedSet' = LeasedSet \ {r} /\ leases' = leases - 1
    BY <1>0, <1>21 DEF ReturnFamily, ReturnLease
  <2> QED
    BY <1>0, <2>1, ReturnedCounts
<1>22. ASSUME NEW r \in Requests, BeginReload(r) PROVE FamilyLeasesAccounted'
  <2>1. LeasedSet' = LeasedSet /\ leases' = leases
    BY <1>0, <1>22 DEF BeginReload
  <2> QED
    BY <2>1 DEF FamilyLeasesAccounted, LeasedSet
<1>23. ASSUME NEW r \in Requests, EndReload(r) PROVE FamilyLeasesAccounted'
  <2>1. LeasedSet' = LeasedSet /\ leases' = leases
    BY <1>0, <1>23 DEF EndReload
  <2> QED
    BY <2>1 DEF FamilyLeasesAccounted, LeasedSet
<1>24. ASSUME NEW r \in Requests, Release(r) PROVE FamilyLeasesAccounted'
  <2>1. LeasedSet' = LeasedSet /\ leases' = leases
    BY <1>0, <1>24 DEF Release
  <2> QED
    BY <2>1 DEF FamilyLeasesAccounted, LeasedSet
<1>25. ASSUME NEW r \in Requests, GiveUpFamily(r) PROVE FamilyLeasesAccounted'
  <2>1. LeasedSet' = LeasedSet /\ leases' = leases
    BY <1>0, <1>25 DEF GiveUpFamily
  <2> QED
    BY <2>1 DEF FamilyLeasesAccounted, LeasedSet
<1>26. ASSUME NEW r \in Requests, AbandonFamilySwitch(r) PROVE FamilyLeasesAccounted'
  <2>1. LeasedSet' = LeasedSet /\ leases' = leases
    BY <1>0, <1>26 DEF AbandonFamilySwitch, EndSwitch
  <2> QED
    BY <2>1 DEF FamilyLeasesAccounted, LeasedSet
<1>27. ASSUME NEW r \in Requests, GiveUpLane(r) PROVE FamilyLeasesAccounted'
  <2>1. r \in LeasedSet /\ LeasedSet' = LeasedSet \ {r} /\ leases' = leases - 1
    BY <1>0, <1>27 DEF GiveUpLane, ReturnLease
  <2> QED
    BY <1>0, <2>1, ReturnedCounts
<1>28. ASSUME NEW r \in Requests, NEW l \in Lanes, GiveUpUnload(r, l) PROVE FamilyLeasesAccounted'
  <2>1. LeasedSet' = LeasedSet /\ leases' = leases
    BY <1>0, <1>28 DEF GiveUpUnload, UnloadsInPolicy
  <2> QED
    BY <2>1 DEF FamilyLeasesAccounted, LeasedSet
<1>29. CASE UNCHANGED vars
  <2>1. LeasedSet' = LeasedSet /\ leases' = leases
    BY <1>29 DEF vars
  <2> QED
    BY <2>1 DEF FamilyLeasesAccounted, LeasedSet
<1> QED
  BY <1>1, <1>2, <1>3, <1>4, <1>5, <1>6, <1>7, <1>8, <1>9, <1>10, <1>11, <1>12, <1>13,
     <1>14, <1>15, <1>16, <1>17, <1>18, <1>19, <1>20, <1>21, <1>22, <1>23, <1>24, <1>25,
     <1>26, <1>27, <1>28, <1>29
  DEF Next, LeaseFamily, StartFamily, SwitchFamily, EnforcePolicy, UseLane, GiveUp

-----------------------------------------------------------------------------
(* One switch at a time, and who may use a lane                            *)

OneSwitch ==
    /\ \A r, s \in Requests : pc[r] \in Switching /\ pc[s] \in Switching => r = s
    /\ switching <=> \E r \in Requests : pc[r] \in Switching

\* Every operation keeps the flag and the goroutine that switches together.
LEMMA OneSwitchStep ==
    ShapeOK /\ UnloadsInPolicy /\ OneSwitch /\ [Next]_vars => OneSwitch'
<1> SUFFICES ASSUME ShapeOK, UnloadsInPolicy, OneSwitch, [Next]_vars PROVE OneSwitch'
  OBVIOUS
<1> USE DEF ShapeOK, OneSwitch, Switching, Move, familyVars, laneVars
<1>1. ASSUME NEW r \in Requests, TakeLease(r) PROVE OneSwitch'
  BY <1>1 DEF TakeLease, Ready
<1>2. ASSUME NEW r \in Requests, AwaitFamily(r) PROVE OneSwitch'
  BY <1>2 DEF AwaitFamily, Ready
<1>3. ASSUME NEW r \in Requests, BeginFamilySwitch(r) PROVE OneSwitch'
  BY <1>3 DEF BeginFamilySwitch, Ready
<1>4. ASSUME NEW r \in Requests, Started(r) PROVE OneSwitch'
  BY <1>4 DEF Started, EnterPolicy
<1>5. ASSUME NEW r \in Requests, StartFails(r) PROVE OneSwitch'
  BY <1>5 DEF StartFails
<1>6. ASSUME NEW r \in Requests, AwaitDrain(r) PROVE OneSwitch'
  BY <1>6 DEF AwaitDrain
<1>7. ASSUME NEW r \in Requests, Drained(r) PROVE OneSwitch'
  BY <1>7 DEF Drained
<1>8. ASSUME NEW r \in Requests, NEW l \in Lanes, ClaimForStop(r, l) PROVE OneSwitch'
  BY <1>8 DEF ClaimForStop
<1>9. ASSUME NEW r \in Requests, StopFamily(r) PROVE OneSwitch'
  BY <1>9 DEF StopFamily
<1>10. ASSUME NEW r \in Requests, StopFamilyFails(r) PROVE OneSwitch'
  BY <1>10 DEF StopFamilyFails, EndSwitch
<1>11. ASSUME NEW r \in Requests, FinishFamilySwitch(r) PROVE OneSwitch'
  BY <1>11 DEF FinishFamilySwitch, EndSwitch, EnterPolicy
<1>12. ASSUME NEW r \in Requests, SwitchStartFails(r) PROVE OneSwitch'
  BY <1>12 DEF SwitchStartFails, EndSwitch
<1>13. ASSUME NEW r \in Requests, NEW l \in Lanes, ClaimForUnload(r, l) PROVE OneSwitch'
  BY <1>13 DEF ClaimForUnload
<1>14. ASSUME NEW r \in Requests, NEW l \in Lanes, FinishUnload(r, l) PROVE OneSwitch'
  BY <1>14 DEF FinishUnload
<1>15. ASSUME NEW r \in Requests, PolicyEnforced(r) PROVE OneSwitch'
  BY <1>15 DEF PolicyEnforced
<1>16. ASSUME NEW r \in Requests, PolicyFails(r) PROVE OneSwitch'
  BY <1>16 DEF PolicyFails
<1>17. ASSUME NEW r \in Requests, ReuseLane(r) PROVE OneSwitch'
  BY <1>17 DEF ReuseLane
<1>18. ASSUME NEW r \in Requests, BeginLoad(r) PROVE OneSwitch'
  BY <1>18 DEF BeginLoad
<1>19. ASSUME NEW r \in Requests, FinishLoad(r) PROVE OneSwitch'
  BY <1>19 DEF FinishLoad
<1>20. ASSUME NEW r \in Requests, LoadFails(r) PROVE OneSwitch'
  BY <1>20 DEF LoadFails
<1>21. ASSUME NEW r \in Requests, ReturnFamily(r) PROVE OneSwitch'
  BY <1>21 DEF ReturnFamily
<1>22. ASSUME NEW r \in Requests, BeginReload(r) PROVE OneSwitch'
  BY <1>22 DEF BeginReload
<1>23. ASSUME NEW r \in Requests, EndReload(r) PROVE OneSwitch'
  BY <1>23 DEF EndReload
<1>24. ASSUME NEW r \in Requests, Release(r) PROVE OneSwitch'
  BY <1>24 DEF Release
<1>25. ASSUME NEW r \in Requests, GiveUpFamily(r) PROVE OneSwitch'
  BY <1>25 DEF GiveUpFamily
<1>26. ASSUME NEW r \in Requests, AbandonFamilySwitch(r) PROVE OneSwitch'
  BY <1>26 DEF AbandonFamilySwitch, EndSwitch
<1>27. ASSUME NEW r \in Requests, GiveUpLane(r) PROVE OneSwitch'
  BY <1>27 DEF GiveUpLane
<1>28. ASSUME NEW r \in Requests, NEW l \in Lanes, GiveUpUnload(r, l) PROVE OneSwitch'
  BY <1>28 DEF GiveUpUnload, UnloadsInPolicy
<1>29. CASE UNCHANGED vars
  BY <1>29 DEF vars
<1> QED
  BY <1>1, <1>2, <1>3, <1>4, <1>5, <1>6, <1>7, <1>8, <1>9, <1>10, <1>11, <1>12, <1>13,
     <1>14, <1>15, <1>16, <1>17, <1>18, <1>19, <1>20, <1>21, <1>22, <1>23, <1>24, <1>25,
     <1>26, <1>27, <1>28, <1>29
  DEF Next, LeaseFamily, StartFamily, SwitchFamily, EnforcePolicy, UseLane, GiveUp

LaneUse ==
    /\ \A l \in Lanes, r \in Requests :
        r \in holders[l] <=> l = LaneOf[r] /\ pc[r] \in Holding
    /\ \A l \in Lanes : \A r, s \in exclusive[l] : r = s
    /\ \A l \in Lanes : \A r \in exclusive[l] :
        \/ pc[r] \in {"claiming", "policy", "policyFailed"}
        \/ pc[r] \in {"loading", "reloading"} /\ l = LaneOf[r]
    /\ \A r \in Requests :
        pc[r] \in {"loading", "reloading"} => r \in exclusive[LaneOf[r]]
    /\ \A l \in Lanes : exclusive[l] # {} => holders[l] \subseteq exclusive[l]

\* Every operation keeps leases and claims of a lane with their goroutines.
LEMMA LaneUseStep ==
    ShapeOK /\ UnloadsInPolicy /\ LaneUse /\ [Next]_vars => LaneUse'
<1> SUFFICES ASSUME ShapeOK, UnloadsInPolicy, LaneUse, [Next]_vars PROVE LaneUse'
  OBVIOUS
<1> USE FamilyAssumption DEF ShapeOK, LaneUse, Holding, Move, familyVars, laneVars
<1>1. ASSUME NEW r \in Requests, TakeLease(r) PROVE LaneUse'
  BY <1>1 DEF TakeLease, Ready
<1>2. ASSUME NEW r \in Requests, AwaitFamily(r) PROVE LaneUse'
  BY <1>2 DEF AwaitFamily, Ready
<1>3. ASSUME NEW r \in Requests, BeginFamilySwitch(r) PROVE LaneUse'
  BY <1>3 DEF BeginFamilySwitch, Ready
<1>4. ASSUME NEW r \in Requests, Started(r) PROVE LaneUse'
  BY <1>4 DEF Started, EnterPolicy
<1>5. ASSUME NEW r \in Requests, StartFails(r) PROVE LaneUse'
  BY <1>5 DEF StartFails
<1>6. ASSUME NEW r \in Requests, AwaitDrain(r) PROVE LaneUse'
  BY <1>6 DEF AwaitDrain
<1>7. ASSUME NEW r \in Requests, Drained(r) PROVE LaneUse'
  BY <1>7 DEF Drained
<1>8. ASSUME NEW r \in Requests, NEW l \in Lanes, ClaimForStop(r, l) PROVE LaneUse'
  BY <1>8 DEF ClaimForStop, Free, SetExclusive
<1>9. ASSUME NEW r \in Requests, StopFamily(r) PROVE LaneUse'
  BY <1>9 DEF StopFamily, Claims, ReleaseClaims
<1>10. ASSUME NEW r \in Requests, StopFamilyFails(r) PROVE LaneUse'
  BY <1>10 DEF StopFamilyFails, ReleaseClaims
<1>11. ASSUME NEW r \in Requests, FinishFamilySwitch(r) PROVE LaneUse'
  BY <1>11 DEF FinishFamilySwitch, EnterPolicy
<1>12. ASSUME NEW r \in Requests, SwitchStartFails(r) PROVE LaneUse'
  BY <1>12 DEF SwitchStartFails
<1>13. ASSUME NEW r \in Requests, NEW l \in Lanes, ClaimForUnload(r, l) PROVE LaneUse'
  BY <1>13 DEF ClaimForUnload, Free, SetExclusive, UnloadsInPolicy
<1>14. ASSUME NEW r \in Requests, NEW l \in Lanes, FinishUnload(r, l) PROVE LaneUse'
  BY <1>14 DEF FinishUnload, SetExclusive
<1>15. ASSUME NEW r \in Requests, PolicyEnforced(r) PROVE LaneUse'
  BY <1>15 DEF PolicyEnforced, UnloadsDone, Claims
<1>16. ASSUME NEW r \in Requests, PolicyFails(r) PROVE LaneUse'
  BY <1>16 DEF PolicyFails, UnloadsDone, Claims
<1>17. ASSUME NEW r \in Requests, ReuseLane(r) PROVE LaneUse'
  BY <1>17 DEF ReuseLane
<1>18. ASSUME NEW r \in Requests, BeginLoad(r) PROVE LaneUse'
  BY <1>18 DEF BeginLoad, Free, SetExclusive
<1>19. ASSUME NEW r \in Requests, FinishLoad(r) PROVE LaneUse'
  <2>1. /\ pc[r] = "loading" /\ pc' = [pc EXCEPT ![r] = "granted"]
        /\ exclusive' = [exclusive EXCEPT ![LaneOf[r]] = {}]
        /\ holders' = [holders EXCEPT ![LaneOf[r]] = holders[LaneOf[r]] \cup {r}]
    BY <1>19 DEF FinishLoad, SetExclusive
  <2>2. LaneOf[r] \in Lanes /\ exclusive[LaneOf[r]] = {r}
    BY <2>1
  <2>3. \A k \in Lanes : exclusive'[k] = IF k = LaneOf[r] THEN {} ELSE exclusive[k]
    BY <2>1
  <2>4. \A k \in Lanes, s \in Requests :
            s \in holders'[k] <=> k = LaneOf[s] /\ pc'[s] \in Holding
    BY <2>1, <2>2
  <2> QED
    BY <2>1, <2>2, <2>3, <2>4
<1>20. ASSUME NEW r \in Requests, LoadFails(r) PROVE LaneUse'
  <2>1. /\ pc[r] = "loading" /\ pc' = [pc EXCEPT ![r] = "idle"]
        /\ exclusive' = [exclusive EXCEPT ![LaneOf[r]] = {}]
        /\ holders' = holders
    BY <1>20 DEF LoadFails, SetExclusive
  <2>2. LaneOf[r] \in Lanes /\ exclusive[LaneOf[r]] = {r}
    BY <2>1
  <2>3. \A k \in Lanes : exclusive'[k] = IF k = LaneOf[r] THEN {} ELSE exclusive[k]
    BY <2>1
  <2>4. \A k \in Lanes, s \in Requests :
            s \in holders'[k] <=> k = LaneOf[s] /\ pc'[s] \in Holding
    BY <2>1, <2>2
  <2> QED
    BY <2>1, <2>2, <2>3, <2>4
<1>21. ASSUME NEW r \in Requests, ReturnFamily(r) PROVE LaneUse'
  BY <1>21 DEF ReturnFamily
<1>22. ASSUME NEW r \in Requests, BeginReload(r) PROVE LaneUse'
  BY <1>22 DEF BeginReload, SetExclusive
<1>23. ASSUME NEW r \in Requests, EndReload(r) PROVE LaneUse'
  BY <1>23 DEF EndReload, SetExclusive
<1>24. ASSUME NEW r \in Requests, Release(r) PROVE LaneUse'
  BY <1>24 DEF Release
<1>25. ASSUME NEW r \in Requests, GiveUpFamily(r) PROVE LaneUse'
  BY <1>25 DEF GiveUpFamily
<1>26. ASSUME NEW r \in Requests, AbandonFamilySwitch(r) PROVE LaneUse'
  BY <1>26 DEF AbandonFamilySwitch, ReleaseClaims
<1>27. ASSUME NEW r \in Requests, GiveUpLane(r) PROVE LaneUse'
  BY <1>27 DEF GiveUpLane
<1>28. ASSUME NEW r \in Requests, NEW l \in Lanes, GiveUpUnload(r, l) PROVE LaneUse'
  BY <1>28 DEF GiveUpUnload, UnloadsInPolicy
<1>29. CASE UNCHANGED vars
  BY <1>29 DEF vars
<1> QED
  BY <1>1, <1>2, <1>3, <1>4, <1>5, <1>6, <1>7, <1>8, <1>9, <1>10, <1>11, <1>12, <1>13,
     <1>14, <1>15, <1>16, <1>17, <1>18, <1>19, <1>20, <1>21, <1>22, <1>23, <1>24, <1>25,
     <1>26, <1>27, <1>28, <1>29
  DEF Next, LeaseFamily, StartFamily, SwitchFamily, EnforcePolicy, UseLane, GiveUp

-----------------------------------------------------------------------------
(* What a switch has drained                                               *)

Drain ==
    \A r \in Requests :
        /\ pc[r] \in {"claiming", "switchStarting"} => LeasedSet = {}
        /\ pc[r] = "switchStarting" =>
            /\ \A s \in Requests : pc[s] \in Holding => LaneOf[s] \notin Primary
            /\ \A l \in Primary : ~up[l]

\* A primary process that is up belongs to the current family.
PrimaryUp == \A l \in Primary : up[l] => LaneMode[l] = mode

FamilyUse == Drain /\ PrimaryUp /\ UsersRunOnCurrentFamily

\* Every operation keeps users and processes with the current family.
LEMMA FamilyUseStep ==
    ASSUME ShapeOK, FlagsOK, UnloadsInPolicy, FamilyLeasesAccounted, OneSwitch, LaneUse,
           FamilyUse, [Next]_vars
    PROVE  FamilyUse'
<1>0. /\ ShapeOK /\ FlagsOK /\ UnloadsInPolicy /\ FamilyLeasesAccounted /\ OneSwitch
      /\ LaneUse /\ Drain /\ PrimaryUp /\ UsersRunOnCurrentFamily
  BY DEF FamilyUse
<1> USE FamilyAssumption DEF ShapeOK, FlagsOK, Switching, Leased, Holding, Move,
        familyVars, laneVars
<1>1. ASSUME NEW r \in Requests, TakeLease(r) PROVE FamilyUse'
  BY <1>0, <1>1 DEF TakeLease, Ready, OneSwitch, FamilyUse, Drain, PrimaryUp,
     UsersRunOnCurrentFamily, LeasedSet, ModeOf
<1>2. ASSUME NEW r \in Requests, AwaitFamily(r) PROVE FamilyUse'
  BY <1>0, <1>2 DEF AwaitFamily, Ready, OneSwitch, FamilyUse, Drain, PrimaryUp,
     UsersRunOnCurrentFamily, LeasedSet, ModeOf
<1>3. ASSUME NEW r \in Requests, BeginFamilySwitch(r) PROVE FamilyUse'
  BY <1>0, <1>3 DEF BeginFamilySwitch, Ready, OneSwitch, FamilyUse, Drain, PrimaryUp,
     UsersRunOnCurrentFamily, LeasedSet, ModeOf
<1>4. ASSUME NEW r \in Requests, Started(r) PROVE FamilyUse'
  BY <1>0, <1>4 DEF Started, StartHook, EnterPolicy, PrimaryLanes, OneSwitch, FamilyUse,
     Drain, PrimaryUp, UsersRunOnCurrentFamily, LeasedSet, ModeOf
<1>5. ASSUME NEW r \in Requests, StartFails(r) PROVE FamilyUse'
  BY <1>0, <1>5 DEF StartFails, StartHook, PrimaryLanes, OneSwitch, FamilyUse, Drain,
     PrimaryUp, UsersRunOnCurrentFamily, LeasedSet, ModeOf
<1>6. ASSUME NEW r \in Requests, AwaitDrain(r) PROVE FamilyUse'
  BY <1>0, <1>6 DEF AwaitDrain, OneSwitch, FamilyUse, Drain, PrimaryUp,
     UsersRunOnCurrentFamily, LeasedSet, ModeOf
<1>7. ASSUME NEW r \in Requests, Drained(r) PROVE FamilyUse'
  <2>1. LeasedSet = {}
    BY <1>0, <1>7, LeaseCount DEF Drained
  <2>2. mode = NoMode =>
            /\ \A s \in Requests : pc[s] \in Holding => LaneOf[s] \notin Primary
            /\ \A k \in Primary : ~up[k]
    BY <1>0 DEF UsersRunOnCurrentFamily, PrimaryUp, ModeOf
  <2> QED
    BY <1>0, <1>7, <2>1, <2>2 DEF Drained, FamilyUse, Drain, PrimaryUp,
       UsersRunOnCurrentFamily, LeasedSet
<1>8. ASSUME NEW r \in Requests, NEW l \in Lanes, ClaimForStop(r, l) PROVE FamilyUse'
  BY <1>0, <1>8 DEF ClaimForStop, OneSwitch, FamilyUse, Drain, PrimaryUp,
     UsersRunOnCurrentFamily, LeasedSet, ModeOf
<1>9. ASSUME NEW r \in Requests, StopFamily(r) PROVE FamilyUse'
  <2>1. \A s \in Requests : pc[s] \in Holding => LaneOf[s] \notin Primary
    <3> SUFFICES ASSUME NEW s \in Requests, pc[s] \in Holding, LaneOf[s] \in Primary PROVE FALSE
      OBVIOUS
    <3>1. LaneOf[s] \in PrimaryLanes(mode)
      BY <1>0 DEF UsersRunOnCurrentFamily, PrimaryLanes, ModeOf
    <3>2. r \in exclusive[LaneOf[s]] /\ s \in holders[LaneOf[s]]
      BY <1>0, <1>9, <3>1 DEF StopFamily, AllClaimed, Claims, LaneUse
    <3>3. s = r
      BY <1>0, <3>2 DEF LaneUse
    <3> QED
      BY <1>9, <3>3 DEF StopFamily
  <2>2. \A k \in Primary : ~up'[k]
    BY <1>0, <1>9 DEF StopFamily, PrimaryLanes, PrimaryUp
  <2>3. /\ pc' = [pc EXCEPT ![r] = "switchStarting"] /\ pc[r] = "claiming"
        /\ mode' = mode
    BY <1>9 DEF StopFamily
  <2> QED
    BY <1>0, <2>1, <2>2, <2>3 DEF FamilyUse, Drain, PrimaryUp, UsersRunOnCurrentFamily,
       LeasedSet
<1>10. ASSUME NEW r \in Requests, StopFamilyFails(r) PROVE FamilyUse'
  BY <1>0, <1>10 DEF StopFamilyFails, EndSwitch, PrimaryLanes, OneSwitch, FamilyUse,
     Drain, PrimaryUp, UsersRunOnCurrentFamily, LeasedSet, ModeOf
<1>11. ASSUME NEW r \in Requests, FinishFamilySwitch(r) PROVE FamilyUse'
  BY <1>0, <1>11 DEF FinishFamilySwitch, StartHook, EndSwitch, EnterPolicy, PrimaryLanes,
     OneSwitch, FamilyUse, Drain, PrimaryUp, UsersRunOnCurrentFamily, LeasedSet, ModeOf
<1>12. ASSUME NEW r \in Requests, SwitchStartFails(r) PROVE FamilyUse'
  BY <1>0, <1>12 DEF SwitchStartFails, StartHook, EndSwitch, PrimaryLanes, OneSwitch,
     FamilyUse, Drain, PrimaryUp, UsersRunOnCurrentFamily, LeasedSet, ModeOf
<1>13. ASSUME NEW r \in Requests, NEW l \in Lanes, ClaimForUnload(r, l) PROVE FamilyUse'
  BY <1>0, <1>13 DEF ClaimForUnload, OneSwitch, FamilyUse, Drain, PrimaryUp,
     UsersRunOnCurrentFamily, LeasedSet, ModeOf
<1>14. ASSUME NEW r \in Requests, NEW l \in Lanes, FinishUnload(r, l) PROVE FamilyUse'
  BY <1>0, <1>14 DEF FinishUnload, OneSwitch, FamilyUse, Drain, PrimaryUp,
     UsersRunOnCurrentFamily, LeasedSet, ModeOf
<1>15. ASSUME NEW r \in Requests, PolicyEnforced(r) PROVE FamilyUse'
  BY <1>0, <1>15 DEF PolicyEnforced, OneSwitch, FamilyUse, Drain, PrimaryUp,
     UsersRunOnCurrentFamily, LeasedSet, ModeOf
<1>16. ASSUME NEW r \in Requests, PolicyFails(r) PROVE FamilyUse'
  BY <1>0, <1>16 DEF PolicyFails, OneSwitch, FamilyUse, Drain, PrimaryUp,
     UsersRunOnCurrentFamily, LeasedSet, ModeOf
<1>17. ASSUME NEW r \in Requests, ReuseLane(r) PROVE FamilyUse'
  BY <1>0, <1>17 DEF ReuseLane, OneSwitch, FamilyUse, Drain, PrimaryUp,
     UsersRunOnCurrentFamily, LeasedSet, ModeOf
<1>18. ASSUME NEW r \in Requests, BeginLoad(r) PROVE FamilyUse'
  BY <1>0, <1>18 DEF BeginLoad, OneSwitch, FamilyUse, Drain, PrimaryUp,
     UsersRunOnCurrentFamily, LeasedSet, ModeOf
<1>19. ASSUME NEW r \in Requests, FinishLoad(r) PROVE FamilyUse'
  BY <1>0, <1>19 DEF FinishLoad, OneSwitch, FamilyUse, Drain, PrimaryUp,
     UsersRunOnCurrentFamily, LeasedSet, ModeOf
<1>20. ASSUME NEW r \in Requests, LoadFails(r) PROVE FamilyUse'
  BY <1>0, <1>20 DEF LoadFails, OneSwitch, FamilyUse, Drain, PrimaryUp,
     UsersRunOnCurrentFamily, LeasedSet, ModeOf
<1>21. ASSUME NEW r \in Requests, ReturnFamily(r) PROVE FamilyUse'
  BY <1>0, <1>21 DEF ReturnFamily, OneSwitch, FamilyUse, Drain, PrimaryUp,
     UsersRunOnCurrentFamily, LeasedSet, ModeOf
<1>22. ASSUME NEW r \in Requests, BeginReload(r) PROVE FamilyUse'
  BY <1>0, <1>22 DEF BeginReload, OneSwitch, FamilyUse, Drain, PrimaryUp,
     UsersRunOnCurrentFamily, LeasedSet, ModeOf
<1>23. ASSUME NEW r \in Requests, EndReload(r) PROVE FamilyUse'
  BY <1>0, <1>23 DEF EndReload, OneSwitch, FamilyUse, Drain, PrimaryUp,
     UsersRunOnCurrentFamily, LeasedSet, ModeOf
<1>24. ASSUME NEW r \in Requests, Release(r) PROVE FamilyUse'
  BY <1>0, <1>24 DEF Release, OneSwitch, FamilyUse, Drain, PrimaryUp,
     UsersRunOnCurrentFamily, LeasedSet, ModeOf
<1>25. ASSUME NEW r \in Requests, GiveUpFamily(r) PROVE FamilyUse'
  BY <1>0, <1>25 DEF GiveUpFamily, OneSwitch, FamilyUse, Drain, PrimaryUp,
     UsersRunOnCurrentFamily, LeasedSet, ModeOf
<1>26. ASSUME NEW r \in Requests, AbandonFamilySwitch(r) PROVE FamilyUse'
  BY <1>0, <1>26 DEF AbandonFamilySwitch, EndSwitch, OneSwitch, FamilyUse, Drain,
     PrimaryUp, UsersRunOnCurrentFamily, LeasedSet, ModeOf
<1>27. ASSUME NEW r \in Requests, GiveUpLane(r) PROVE FamilyUse'
  BY <1>0, <1>27 DEF GiveUpLane, OneSwitch, FamilyUse, Drain, PrimaryUp,
     UsersRunOnCurrentFamily, LeasedSet, ModeOf
<1>28. ASSUME NEW r \in Requests, NEW l \in Lanes, GiveUpUnload(r, l) PROVE FamilyUse'
  BY <1>0, <1>28 DEF GiveUpUnload, UnloadsInPolicy, OneSwitch, FamilyUse, Drain,
     PrimaryUp, UsersRunOnCurrentFamily, LeasedSet, ModeOf
<1>29. CASE UNCHANGED vars
  BY <1>0, <1>29 DEF vars, OneSwitch, FamilyUse, Drain, PrimaryUp,
     UsersRunOnCurrentFamily, LeasedSet, ModeOf
<1> QED
  BY <1>1, <1>2, <1>3, <1>4, <1>5, <1>6, <1>7, <1>8, <1>9, <1>10, <1>11, <1>12, <1>13,
     <1>14, <1>15, <1>16, <1>17, <1>18, <1>19, <1>20, <1>21, <1>22, <1>23, <1>24, <1>25,
     <1>26, <1>27, <1>28, <1>29
  DEF Next, LeaseFamily, StartFamily, SwitchFamily, EnforcePolicy, UseLane, GiveUp

-----------------------------------------------------------------------------
(* Sleepers                                                                *)

\* Whoever sleeps on the family's channel waits for a drain or for a switch.
SleepersInWait ==
    \A r \in asleep :
        /\ pc[r] \in {"draining", "waitFamily"}
        /\ IF pc[r] = "draining" THEN leases > 0 ELSE switching

\* Every operation that ends such a wait closes the channel.
LEMMA SleepStep ==
    ASSUME ShapeOK, UnloadsInPolicy, FamilyLeasesAccounted, SleepersInWait, [Next]_vars
    PROVE  SleepersInWait'
<1>0. /\ ShapeOK /\ UnloadsInPolicy /\ FamilyLeasesAccounted /\ SleepersInWait
      /\ leases \in Nat
  BY LeaseCount
<1> USE DEF ShapeOK, SleepersInWait, Move, familyVars, laneVars
<1>1. ASSUME NEW r \in Requests, TakeLease(r) PROVE SleepersInWait'
  BY <1>0, <1>1 DEF TakeLease, Ready
<1>2. ASSUME NEW r \in Requests, AwaitFamily(r) PROVE SleepersInWait'
  BY <1>0, <1>2 DEF AwaitFamily, Ready
<1>3. ASSUME NEW r \in Requests, BeginFamilySwitch(r) PROVE SleepersInWait'
  BY <1>0, <1>3 DEF BeginFamilySwitch, Ready
<1>4. ASSUME NEW r \in Requests, Started(r) PROVE SleepersInWait'
  BY <1>0, <1>4 DEF Started, EnterPolicy
<1>5. ASSUME NEW r \in Requests, StartFails(r) PROVE SleepersInWait'
  <2>1. r \in LeasedSet
    BY <1>0, <1>5 DEF StartFails, LeasedSet, Leased
  <2>2. leases \in Nat \ {0}
    BY <1>0, <2>1, LeaseCount
  <2> QED
    BY <1>0, <1>5, <2>2 DEF StartFails, ReturnLease
<1>6. ASSUME NEW r \in Requests, AwaitDrain(r) PROVE SleepersInWait'
  BY <1>0, <1>6 DEF AwaitDrain
<1>7. ASSUME NEW r \in Requests, Drained(r) PROVE SleepersInWait'
  BY <1>0, <1>7 DEF Drained
<1>8. ASSUME NEW r \in Requests, NEW l \in Lanes, ClaimForStop(r, l) PROVE SleepersInWait'
  BY <1>0, <1>8 DEF ClaimForStop
<1>9. ASSUME NEW r \in Requests, StopFamily(r) PROVE SleepersInWait'
  BY <1>0, <1>9 DEF StopFamily
<1>10. ASSUME NEW r \in Requests, StopFamilyFails(r) PROVE SleepersInWait'
  BY <1>0, <1>10 DEF StopFamilyFails, EndSwitch
<1>11. ASSUME NEW r \in Requests, FinishFamilySwitch(r) PROVE SleepersInWait'
  BY <1>0, <1>11 DEF FinishFamilySwitch, EndSwitch, EnterPolicy
<1>12. ASSUME NEW r \in Requests, SwitchStartFails(r) PROVE SleepersInWait'
  BY <1>0, <1>12 DEF SwitchStartFails, EndSwitch
<1>13. ASSUME NEW r \in Requests, NEW l \in Lanes, ClaimForUnload(r, l) PROVE SleepersInWait'
  BY <1>0, <1>13 DEF ClaimForUnload
<1>14. ASSUME NEW r \in Requests, NEW l \in Lanes, FinishUnload(r, l) PROVE SleepersInWait'
  BY <1>0, <1>14 DEF FinishUnload
<1>15. ASSUME NEW r \in Requests, PolicyEnforced(r) PROVE SleepersInWait'
  BY <1>0, <1>15 DEF PolicyEnforced
<1>16. ASSUME NEW r \in Requests, PolicyFails(r) PROVE SleepersInWait'
  <2>1. r \in LeasedSet
    BY <1>0, <1>16 DEF PolicyFails, LeasedSet, Leased
  <2>2. leases \in Nat \ {0}
    BY <1>0, <2>1, LeaseCount
  <2> QED
    BY <1>0, <1>16, <2>2 DEF PolicyFails, ReturnLease
<1>17. ASSUME NEW r \in Requests, ReuseLane(r) PROVE SleepersInWait'
  BY <1>0, <1>17 DEF ReuseLane
<1>18. ASSUME NEW r \in Requests, BeginLoad(r) PROVE SleepersInWait'
  BY <1>0, <1>18 DEF BeginLoad
<1>19. ASSUME NEW r \in Requests, FinishLoad(r) PROVE SleepersInWait'
  BY <1>0, <1>19 DEF FinishLoad
<1>20. ASSUME NEW r \in Requests, LoadFails(r) PROVE SleepersInWait'
  <2>1. r \in LeasedSet
    BY <1>0, <1>20 DEF LoadFails, LeasedSet, Leased
  <2>2. leases \in Nat \ {0}
    BY <1>0, <2>1, LeaseCount
  <2> QED
    BY <1>0, <1>20, <2>2 DEF LoadFails, ReturnLease
<1>21. ASSUME NEW r \in Requests, ReturnFamily(r) PROVE SleepersInWait'
  <2>1. r \in LeasedSet
    BY <1>0, <1>21 DEF ReturnFamily, LeasedSet, Leased
  <2>2. leases \in Nat \ {0}
    BY <1>0, <2>1, LeaseCount
  <2> QED
    BY <1>0, <1>21, <2>2 DEF ReturnFamily, ReturnLease
<1>22. ASSUME NEW r \in Requests, BeginReload(r) PROVE SleepersInWait'
  BY <1>0, <1>22 DEF BeginReload
<1>23. ASSUME NEW r \in Requests, EndReload(r) PROVE SleepersInWait'
  BY <1>0, <1>23 DEF EndReload
<1>24. ASSUME NEW r \in Requests, Release(r) PROVE SleepersInWait'
  BY <1>0, <1>24 DEF Release
<1>25. ASSUME NEW r \in Requests, GiveUpFamily(r) PROVE SleepersInWait'
  BY <1>0, <1>25 DEF GiveUpFamily
<1>26. ASSUME NEW r \in Requests, AbandonFamilySwitch(r) PROVE SleepersInWait'
  BY <1>0, <1>26 DEF AbandonFamilySwitch, EndSwitch
<1>27. ASSUME NEW r \in Requests, GiveUpLane(r) PROVE SleepersInWait'
  <2>1. r \in LeasedSet
    BY <1>0, <1>27 DEF GiveUpLane, LeasedSet, Leased
  <2>2. leases \in Nat \ {0}
    BY <1>0, <2>1, LeaseCount
  <2> QED
    BY <1>0, <1>27, <2>2 DEF GiveUpLane, ReturnLease
<1>28. ASSUME NEW r \in Requests, NEW l \in Lanes, GiveUpUnload(r, l) PROVE SleepersInWait'
  BY <1>0, <1>28 DEF GiveUpUnload, UnloadsInPolicy
<1>29. CASE UNCHANGED vars
  BY <1>0, <1>29 DEF vars
<1> QED
  BY <1>1, <1>2, <1>3, <1>4, <1>5, <1>6, <1>7, <1>8, <1>9, <1>10, <1>11, <1>12, <1>13,
     <1>14, <1>15, <1>16, <1>17, <1>18, <1>19, <1>20, <1>21, <1>22, <1>23, <1>24, <1>25,
     <1>26, <1>27, <1>28, <1>29
  DEF Next, LeaseFamily, StartFamily, SwitchFamily, EnforcePolicy, UseLane, GiveUp

-----------------------------------------------------------------------------
(* The family switch is safe                                               *)

FamilyInv ==
    /\ ShapeOK /\ FlagsOK /\ UnloadsInPolicy /\ FamilyLeasesAccounted
    /\ OneSwitch /\ LaneUse /\ FamilyUse /\ SleepersInWait

\* The initial state satisfies the inductive invariant.
LEMMA InitFamily == Init => FamilyInv
<1> SUFFICES ASSUME Init PROVE FamilyInv
  OBVIOUS
<1>1. ShapeOK /\ FlagsOK
  BY InitShape
<1>2. LeasedSet = {}
  BY DEF Init, LeasedSet, Leased
<1>3. FamilyLeasesAccounted
  BY <1>2, FS_EmptySet DEF Init, FamilyLeasesAccounted, LeasedSet
<1>4. UnloadsInPolicy /\ OneSwitch /\ LaneUse /\ SleepersInWait
  BY FamilyAssumption
  DEF Init, UnloadsInPolicy, OneSwitch, LaneUse, SleepersInWait, Switching, Holding
<1>5. FamilyUse
  BY FamilyAssumption
  DEF Init, FamilyUse, Drain, PrimaryUp, UsersRunOnCurrentFamily, Leased, Holding
<1> QED
  BY <1>1, <1>3, <1>4, <1>5 DEF FamilyInv

\* The inductive invariant holds in every reachable state.
LEMMA FamilyAlways == Spec => []FamilyInv
<1>1. FamilyInv /\ [Next]_vars => FamilyInv'
  BY ShapeStep, FlagsStep, UnloadsStep, CountStep, OneSwitchStep, LaneUseStep,
     FamilyUseStep, SleepStep DEF FamilyInv
<1> QED
  BY InitFamily, <1>1, PTL DEF Spec

\* Through drains, claims, failed starts, failed stops and abandoned switches:
\* the lease count is exact, the primary processes of one family only are up,
\* every claim on a lane belongs to a goroutine that returns it, one switch is
\* under way at a time, and nobody sleeps through what it waits for.
THEOREM FamilySwitchSafe == Spec => []FamilySafe
<1>1. FamilyInv => FamilySafe
  <2> SUFFICES ASSUME FamilyInv PROVE FamilySafe
    OBVIOUS
  <2>1. TypeOK
    BY LeaseCount DEF FamilyInv, ShapeOK, FlagsOK, TypeOK
  <2>2. OneFamilyUp
    BY DEF FamilyInv, FamilyUse, PrimaryUp, OneFamilyUp
  <2>3. \A r \in Requests :
            Claims(r) # {} =>
                pc[r] \in {"claiming", "policy", "policyFailed", "loading", "reloading"}
    BY DEF FamilyInv, LaneUse, Claims
  <2>4. NoOrphanClaim
    BY <2>3 DEF FamilyInv, OneSwitch, NoOrphanClaim
  <2>5. FamilyNoLostWakeup
    BY DEF FamilyInv, SleepersInWait, FamilyNoLostWakeup
  <2> QED
    BY <2>1, <2>2, <2>4, <2>5 DEF FamilyInv, FamilySafe
<1> QED
  BY FamilyAlways, <1>1, PTL

\* A request that holds a family lease, or a lease on a primary lane, runs on
\* the family that is current: no switch takes the backend from under it, also
\* after it returned its family lease (the deferred releaseFamily).
THEOREM FamilyStays == Spec => []UsersRunOnCurrentFamily
<1>1. FamilyInv => UsersRunOnCurrentFamily
  BY DEF FamilyInv, FamilyUse
<1> QED
  BY FamilyAlways, <1>1, PTL


-----------------------------------------------------------------------------
(* Every lane keeps the promise of RuntimeLease                            *)

LaneKept(k) == Lane(k)!Next \/ UNCHANGED Lane(k)!vars

\* Every operation is, for every lane, a step of the abstract lease or none.
LEMMA LaneKeptStep ==
    ASSUME FamilyInv, [Next]_vars, NEW k \in Lanes
    PROVE  LaneKept(k)
<1>0. ShapeOK /\ FlagsOK /\ LaneUse
  BY DEF FamilyInv
<1> USE FamilyAssumption DEF ShapeOK, FlagsOK, Holding, Move, familyVars, laneVars
<1>1. ASSUME NEW r \in Requests, TakeLease(r) PROVE LaneKept(k)
  <2>1. UNCHANGED <<holders, exclusive, loaded>>
    BY <1>1 DEF TakeLease
  <2> QED
    BY <2>1 DEF LaneKept, Lane!vars
<1>2. ASSUME NEW r \in Requests, AwaitFamily(r) PROVE LaneKept(k)
  <2>1. UNCHANGED <<holders, exclusive, loaded>>
    BY <1>2 DEF AwaitFamily
  <2> QED
    BY <2>1 DEF LaneKept, Lane!vars
<1>3. ASSUME NEW r \in Requests, BeginFamilySwitch(r) PROVE LaneKept(k)
  <2>1. UNCHANGED <<holders, exclusive, loaded>>
    BY <1>3 DEF BeginFamilySwitch
  <2> QED
    BY <2>1 DEF LaneKept, Lane!vars
<1>4. ASSUME NEW r \in Requests, Started(r) PROVE LaneKept(k)
  <2>1. UNCHANGED <<holders, exclusive, loaded>>
    BY <1>4 DEF Started
  <2> QED
    BY <2>1 DEF LaneKept, Lane!vars
<1>5. ASSUME NEW r \in Requests, StartFails(r) PROVE LaneKept(k)
  <2>1. UNCHANGED <<holders, exclusive, loaded>>
    BY <1>5 DEF StartFails
  <2> QED
    BY <2>1 DEF LaneKept, Lane!vars
<1>6. ASSUME NEW r \in Requests, AwaitDrain(r) PROVE LaneKept(k)
  <2>1. UNCHANGED <<holders, exclusive, loaded>>
    BY <1>6 DEF AwaitDrain
  <2> QED
    BY <2>1 DEF LaneKept, Lane!vars
<1>7. ASSUME NEW r \in Requests, Drained(r) PROVE LaneKept(k)
  <2>1. UNCHANGED <<holders, exclusive, loaded>>
    BY <1>7 DEF Drained
  <2> QED
    BY <2>1 DEF LaneKept, Lane!vars
<1>8. ASSUME NEW r \in Requests, NEW l \in Lanes, ClaimForStop(r, l) PROVE LaneKept(k)
  <2>1. CASE k = l
    <3>1. Lane(k)!StartChange(r)
      BY <1>0, <1>8, <2>1 DEF ClaimForStop, Free, SetExclusive, Lane!StartChange, AnyServes
    <3> QED
      BY <3>1 DEF LaneKept, Lane!Next, Lane!Procs
  <2>2. CASE k # l
    <3>1. UNCHANGED <<holders[k], exclusive[k], loaded[k]>>
      BY <1>0, <1>8, <2>2 DEF ClaimForStop, Free, SetExclusive
    <3> QED
      BY <3>1 DEF LaneKept, Lane!vars
  <2> QED
    BY <2>1, <2>2
<1>9. ASSUME NEW r \in Requests, StopFamily(r) PROVE LaneKept(k)
  <2>1. /\ exclusive'[k] = exclusive[k] \ {r}
        /\ holders'[k] = holders[k] /\ loaded'[k] = loaded[k]
    BY <1>9 DEF StopFamily, ReleaseClaims
  <2>2. CASE r \in exclusive[k]
    <3>1. exclusive[k] = {r}
      BY <1>0, <2>2 DEF LaneUse
    <3>2. Lane(k)!EndChange(r)
      BY <1>0, <2>1, <3>1 DEF Lane!EndChange
    <3> QED
      BY <3>2 DEF LaneKept, Lane!Next, Lane!Procs
  <2>3. CASE r \notin exclusive[k]
    <3>1. UNCHANGED <<holders[k], exclusive[k], loaded[k]>>
      BY <2>1, <2>3
    <3> QED
      BY <3>1 DEF LaneKept, Lane!vars
  <2> QED
    BY <2>2, <2>3
<1>10. ASSUME NEW r \in Requests, StopFamilyFails(r) PROVE LaneKept(k)
  <2>1. /\ exclusive'[k] = exclusive[k] \ {r}
        /\ holders'[k] = holders[k] /\ loaded'[k] = loaded[k]
    BY <1>10 DEF StopFamilyFails, ReleaseClaims
  <2>2. CASE r \in exclusive[k]
    <3>1. exclusive[k] = {r}
      BY <1>0, <2>2 DEF LaneUse
    <3>2. Lane(k)!EndChange(r)
      BY <1>0, <2>1, <3>1 DEF Lane!EndChange
    <3> QED
      BY <3>2 DEF LaneKept, Lane!Next, Lane!Procs
  <2>3. CASE r \notin exclusive[k]
    <3>1. UNCHANGED <<holders[k], exclusive[k], loaded[k]>>
      BY <2>1, <2>3
    <3> QED
      BY <3>1 DEF LaneKept, Lane!vars
  <2> QED
    BY <2>2, <2>3
<1>11. ASSUME NEW r \in Requests, FinishFamilySwitch(r) PROVE LaneKept(k)
  <2>1. UNCHANGED <<holders, exclusive, loaded>>
    BY <1>11 DEF FinishFamilySwitch
  <2> QED
    BY <2>1 DEF LaneKept, Lane!vars
<1>12. ASSUME NEW r \in Requests, SwitchStartFails(r) PROVE LaneKept(k)
  <2>1. UNCHANGED <<holders, exclusive, loaded>>
    BY <1>12 DEF SwitchStartFails
  <2> QED
    BY <2>1 DEF LaneKept, Lane!vars
<1>13. ASSUME NEW r \in Requests, NEW l \in Lanes, ClaimForUnload(r, l) PROVE LaneKept(k)
  <2>1. CASE k = l
    <3>1. Lane(k)!StartChange(r)
      BY <1>0, <1>13, <2>1 DEF ClaimForUnload, Free, SetExclusive, Lane!StartChange,
         AnyServes
    <3> QED
      BY <3>1 DEF LaneKept, Lane!Next, Lane!Procs
  <2>2. CASE k # l
    <3>1. UNCHANGED <<holders[k], exclusive[k], loaded[k]>>
      BY <1>0, <1>13, <2>2 DEF ClaimForUnload, Free, SetExclusive
    <3> QED
      BY <3>1 DEF LaneKept, Lane!vars
  <2> QED
    BY <2>1, <2>2
<1>14. ASSUME NEW r \in Requests, NEW l \in Lanes, FinishUnload(r, l) PROVE LaneKept(k)
  <2>1. CASE k = l
    <3>1. Lane(k)!EndChange(r)
      BY <1>0, <1>14, <2>1 DEF FinishUnload, SetExclusive, Lane!EndChange, AnyServes
    <3> QED
      BY <3>1 DEF LaneKept, Lane!Next, Lane!Procs
  <2>2. CASE k # l
    <3>1. UNCHANGED <<holders[k], exclusive[k], loaded[k]>>
      BY <1>0, <1>14, <2>2 DEF FinishUnload, SetExclusive
    <3> QED
      BY <3>1 DEF LaneKept, Lane!vars
  <2> QED
    BY <2>1, <2>2
<1>15. ASSUME NEW r \in Requests, PolicyEnforced(r) PROVE LaneKept(k)
  <2>1. UNCHANGED <<holders, exclusive, loaded>>
    BY <1>15 DEF PolicyEnforced
  <2> QED
    BY <2>1 DEF LaneKept, Lane!vars
<1>16. ASSUME NEW r \in Requests, PolicyFails(r) PROVE LaneKept(k)
  <2>1. UNCHANGED <<holders, exclusive, loaded>>
    BY <1>16 DEF PolicyFails
  <2> QED
    BY <2>1 DEF LaneKept, Lane!vars
<1>17. ASSUME NEW r \in Requests, ReuseLane(r) PROVE LaneKept(k)
  <2>1. CASE k = LaneOf[r]
    <3>1. Lane(k)!Grant(r)
      BY <1>0, <1>17, <2>1 DEF ReuseLane, Lane!Grant, AnyServes
    <3> QED
      BY <3>1 DEF LaneKept, Lane!Next, Lane!Procs
  <2>2. CASE k # LaneOf[r]
    <3>1. UNCHANGED <<holders[k], exclusive[k], loaded[k]>>
      BY <1>0, <1>17, <2>2 DEF ReuseLane
    <3> QED
      BY <3>1 DEF LaneKept, Lane!vars
  <2> QED
    BY <2>1, <2>2
<1>18. ASSUME NEW r \in Requests, BeginLoad(r) PROVE LaneKept(k)
  <2>1. CASE k = LaneOf[r]
    <3>1. Lane(k)!StartChange(r)
      BY <1>0, <1>18, <2>1 DEF BeginLoad, Free, SetExclusive, Lane!StartChange, AnyServes
    <3> QED
      BY <3>1 DEF LaneKept, Lane!Next, Lane!Procs
  <2>2. CASE k # LaneOf[r]
    <3>1. UNCHANGED <<holders[k], exclusive[k], loaded[k]>>
      BY <1>0, <1>18, <2>2 DEF BeginLoad, Free, SetExclusive
    <3> QED
      BY <3>1 DEF LaneKept, Lane!vars
  <2> QED
    BY <2>1, <2>2
<1>19. ASSUME NEW r \in Requests, FinishLoad(r) PROVE LaneKept(k)
  <2>1. CASE k = LaneOf[r]
    <3>1. Lane(k)!EndChange(r)
      BY <1>0, <1>19, <2>1 DEF FinishLoad, SetExclusive, LaneUse, Lane!EndChange, AnyServes
    <3> QED
      BY <3>1 DEF LaneKept, Lane!Next, Lane!Procs
  <2>2. CASE k # LaneOf[r]
    <3>1. UNCHANGED <<holders[k], exclusive[k], loaded[k]>>
      BY <1>0, <1>19, <2>2 DEF FinishLoad, SetExclusive, LaneUse
    <3> QED
      BY <3>1 DEF LaneKept, Lane!vars
  <2> QED
    BY <2>1, <2>2
<1>20. ASSUME NEW r \in Requests, LoadFails(r) PROVE LaneKept(k)
  <2>1. CASE k = LaneOf[r]
    <3>1. exclusive[k] = {r}
      BY <1>0, <1>20, <2>1 DEF LoadFails, LaneUse
    <3>2. exclusive'[k] = {} /\ holders'[k] = holders[k]
      BY <1>0, <1>20, <2>1 DEF LoadFails, SetExclusive
    <3>3. loaded'[k] \in BOOLEAN
      BY <1>0, <1>20, <2>1 DEF LoadFails
    <3>4. Lane(k)!EndChange(r)
      BY <3>1, <3>2, <3>3 DEF Lane!EndChange
    <3> QED
      BY <3>4 DEF LaneKept, Lane!Next, Lane!Procs
  <2>2. CASE k # LaneOf[r]
    <3>1. UNCHANGED <<holders[k], exclusive[k], loaded[k]>>
      BY <1>0, <1>20, <2>2 DEF LoadFails, SetExclusive
    <3> QED
      BY <3>1 DEF LaneKept, Lane!vars
  <2> QED
    BY <2>1, <2>2
<1>21. ASSUME NEW r \in Requests, ReturnFamily(r) PROVE LaneKept(k)
  <2>1. UNCHANGED <<holders, exclusive, loaded>>
    BY <1>21 DEF ReturnFamily
  <2> QED
    BY <2>1 DEF LaneKept, Lane!vars
<1>22. ASSUME NEW r \in Requests, BeginReload(r) PROVE LaneKept(k)
  <2>1. CASE k = LaneOf[r]
    <3>1. Lane(k)!StartChange(r)
      BY <1>0, <1>22, <2>1 DEF BeginReload, SetExclusive, Lane!StartChange, AnyServes
    <3> QED
      BY <3>1 DEF LaneKept, Lane!Next, Lane!Procs
  <2>2. CASE k # LaneOf[r]
    <3>1. UNCHANGED <<holders[k], exclusive[k], loaded[k]>>
      BY <1>0, <1>22, <2>2 DEF BeginReload, SetExclusive
    <3> QED
      BY <3>1 DEF LaneKept, Lane!vars
  <2> QED
    BY <2>1, <2>2
<1>23. ASSUME NEW r \in Requests, EndReload(r) PROVE LaneKept(k)
  <2>1. CASE k = LaneOf[r]
    <3>1. exclusive[k] = {r}
      BY <1>0, <1>23, <2>1 DEF EndReload, LaneUse
    <3>2. exclusive'[k] = {} /\ holders'[k] = holders[k]
      BY <1>0, <1>23, <2>1 DEF EndReload, SetExclusive
    <3>3. loaded'[k] \in BOOLEAN
      BY <1>0, <1>23, <2>1 DEF EndReload
    <3>4. Lane(k)!EndChange(r)
      BY <3>1, <3>2, <3>3 DEF Lane!EndChange
    <3> QED
      BY <3>4 DEF LaneKept, Lane!Next, Lane!Procs
  <2>2. CASE k # LaneOf[r]
    <3>1. UNCHANGED <<holders[k], exclusive[k], loaded[k]>>
      BY <1>0, <1>23, <2>2 DEF EndReload, SetExclusive
    <3> QED
      BY <3>1 DEF LaneKept, Lane!vars
  <2> QED
    BY <2>1, <2>2
<1>24. ASSUME NEW r \in Requests, Release(r) PROVE LaneKept(k)
  <2>1. CASE k = LaneOf[r]
    <3>1. Lane(k)!Drop(r)
      BY <1>0, <1>24, <2>1 DEF Release, LaneUse, Lane!Drop, AnyServes
    <3> QED
      BY <3>1 DEF LaneKept, Lane!Next, Lane!Procs
  <2>2. CASE k # LaneOf[r]
    <3>1. UNCHANGED <<holders[k], exclusive[k], loaded[k]>>
      BY <1>0, <1>24, <2>2 DEF Release, LaneUse
    <3> QED
      BY <3>1 DEF LaneKept, Lane!vars
  <2> QED
    BY <2>1, <2>2
<1>25. ASSUME NEW r \in Requests, GiveUpFamily(r) PROVE LaneKept(k)
  <2>1. UNCHANGED <<holders, exclusive, loaded>>
    BY <1>25 DEF GiveUpFamily
  <2> QED
    BY <2>1 DEF LaneKept, Lane!vars
<1>26. ASSUME NEW r \in Requests, AbandonFamilySwitch(r) PROVE LaneKept(k)
  <2>1. /\ exclusive'[k] = exclusive[k] \ {r}
        /\ holders'[k] = holders[k] /\ loaded'[k] = loaded[k]
    BY <1>26 DEF AbandonFamilySwitch, ReleaseClaims
  <2>2. CASE r \in exclusive[k]
    <3>1. exclusive[k] = {r}
      BY <1>0, <2>2 DEF LaneUse
    <3>2. Lane(k)!EndChange(r)
      BY <1>0, <2>1, <3>1 DEF Lane!EndChange
    <3> QED
      BY <3>2 DEF LaneKept, Lane!Next, Lane!Procs
  <2>3. CASE r \notin exclusive[k]
    <3>1. UNCHANGED <<holders[k], exclusive[k], loaded[k]>>
      BY <2>1, <2>3
    <3> QED
      BY <3>1 DEF LaneKept, Lane!vars
  <2> QED
    BY <2>2, <2>3
<1>27. ASSUME NEW r \in Requests, GiveUpLane(r) PROVE LaneKept(k)
  <2>1. UNCHANGED <<holders, exclusive, loaded>>
    BY <1>27 DEF GiveUpLane
  <2> QED
    BY <2>1 DEF LaneKept, Lane!vars
<1>28. ASSUME NEW r \in Requests, NEW l \in Lanes, GiveUpUnload(r, l) PROVE LaneKept(k)
  <2>1. UNCHANGED <<holders, exclusive, loaded>>
    BY <1>28 DEF GiveUpUnload
  <2> QED
    BY <2>1 DEF LaneKept, Lane!vars
<1>29. CASE UNCHANGED vars
  <2>1. UNCHANGED <<holders, exclusive, loaded>>
    BY <1>29 DEF vars
  <2> QED
    BY <2>1 DEF LaneKept, Lane!vars
<1> QED
  BY <1>1, <1>2, <1>3, <1>4, <1>5, <1>6, <1>7, <1>8, <1>9, <1>10, <1>11, <1>12, <1>13,
     <1>14, <1>15, <1>16, <1>17, <1>18, <1>19, <1>20, <1>21, <1>22, <1>23, <1>24, <1>25,
     <1>26, <1>27, <1>28, <1>29
  DEF Next, LeaseFamily, StartFamily, SwitchFamily, EnforcePolicy, UseLane, GiveUp

\* Whatever requests, family switches and unload policies do to a lane, its
\* leases and claims follow the promise that RuntimeLane is shown to implement.
THEOREM LanesPromised == Spec => LanesKeepPromise
<1>1. Init => \A l \in Lanes : Lane(l)!Init
  BY DEF Init, Lane!Init
<1>2. FamilyInv /\ [Next]_vars
        => [\A l \in Lanes : Lane(l)!Next \/ UNCHANGED Lane(l)!vars]_vars
  BY LaneKeptStep DEF LaneKept
<1> QED
  BY FamilyAlways, <1>1, <1>2, PTL DEF Spec, LanesKeepPromise
=============================================================================
