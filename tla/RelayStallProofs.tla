-------------------------- MODULE RelayStallProofs --------------------------
(***************************************************************************)
(* Proofs about RelayStall, for any finite set of requests and any number  *)
(* of expired timers.  EntryInv is the inductive invariant: it ties the    *)
(* entry of the helper to the handlers that have yet to settle it.         *)
(***************************************************************************)
EXTENDS RelayStall, TLAPS

(* noteProgressLocked on an entry that is in the map deletes it, or keeps   *)
(* its unanswered requests and arms its timer.                             *)
LEMMA NoteProgress ==
    ASSUME NEW e \in [watched : BOOLEAN, unanswered : SUBSET Requests,
                      progress : Nat, armed : BOOLEAN]
    PROVE  /\ noteProgressLocked(e)
                 \in [watched : BOOLEAN, unanswered : SUBSET Requests,
                      progress : Nat, armed : BOOLEAN]
           /\ noteProgressLocked(e).unanswered = e.unanswered
           /\ e.unanswered = {} => noteProgressLocked(e) = Absent
           /\ e.unanswered # {} => /\ noteProgressLocked(e).armed
                                   /\ noteProgressLocked(e).watched = e.watched
<1>1. CASE e.unanswered = {}
  BY <1>1 DEF noteProgressLocked, Absent
<1>2. CASE e.unanswered # {}
  <2>1. noteProgressLocked(e) = [e EXCEPT !.progress = @ + 1, !.armed = TRUE]
    BY <1>2 DEF noteProgressLocked
  <2>2. noteProgressLocked(e)
          = [watched |-> e.watched, unanswered |-> e.unanswered,
             progress |-> e.progress + 1, armed |-> TRUE]
    BY <2>1
  <2> QED
    BY <1>2, <2>2
<1> QED
  BY <1>1, <1>2

(* Every step of the relay handlers, the expired timers and the helper     *)
(* keeps the types of the watch's state.                                   *)
LEMMA TypeStep == TypeOK /\ [Next]_vars => TypeOK'
<1> SUFFICES ASSUME TypeOK, [Next]_vars
             PROVE  TypeOK'
  OBVIOUS
<1> USE DEF TypeOK
<1>1. ASSUME NEW r \in Requests, Begin(r)
      PROVE  TypeOK'
  <2> DEFINE e == [entry EXCEPT !.watched = TRUE, !.unanswered = @ \cup {r}]
  <2>1. e \in [watched : BOOLEAN, unanswered : SUBSET Requests,
               progress : Nat, armed : BOOLEAN]
    OBVIOUS
  <2>2. entry' = noteProgressLocked(e)
    BY <1>1 DEF Begin
  <2> QED
    BY <1>1, <2>1, <2>2, NoteProgress DEF Begin
<1>2. ASSUME NEW r \in Requests, settle(r)
      PROVE  entry' \in [watched : BOOLEAN, unanswered : SUBSET Requests,
                         progress : Nat, armed : BOOLEAN]
  <2> DEFINE e == [entry EXCEPT !.unanswered = @ \ {r}]
  <2>1. e \in [watched : BOOLEAN, unanswered : SUBSET Requests,
               progress : Nat, armed : BOOLEAN]
    OBVIOUS
  <2> QED
    BY <1>2, <2>1, NoteProgress DEF settle
<1>3. ASSUME NEW r \in Requests, Respond(r) \/ Refuse(r) \/ OwnerLeaves(r)
      PROVE  TypeOK'
  BY <1>3 DEF Respond, Refuse, OwnerLeaves
<1>4. ASSUME NEW r \in Requests, Answered(r) \/ End(r)
      PROVE  TypeOK'
  BY <1>4, <1>2 DEF Answered, End, Cancelled
<1>5. ASSUME NEW x \in Expiries, Fire(x) \/ ReadProgress(x) \/ Ask(x)
      PROVE  TypeOK'
  <2>1. CASE Fire(x)
    BY <2>1 DEF Fire
  <2>2. CASE ReadProgress(x)
    <3>1. PICK v \in [at : {"none", "fired", "asking", "told"}, before : Nat,
                      working : BOOLEAN, asked : SUBSET Requests] :
             expiry' = [expiry EXCEPT ![x] = v]
      BY <2>2 DEF ReadProgress, Dormant
    <3> QED
      BY <2>2, <3>1 DEF ReadProgress
  <2>3. CASE Ask(x)
    <3>1. PICK working \in BOOLEAN :
             expiry' = [expiry EXCEPT ![x].at = "told", ![x].working = working]
      BY <2>3 DEF Ask
    <3> DEFINE told == [expiry EXCEPT ![x].at = "told"]
    <3>2. told \in [Expiries -> [at : {"none", "fired", "asking", "told"},
                                 before : Nat, working : BOOLEAN,
                                 asked : SUBSET Requests]]
      OBVIOUS
    <3>3. expiry' = [told EXCEPT ![x].working = working]
      BY <3>1
    <3> HIDE DEF told
    <3>4. expiry' \in [Expiries -> [at : {"none", "fired", "asking", "told"},
                                    before : Nat, working : BOOLEAN,
                                    asked : SUBSET Requests]]
      BY <3>2, <3>3
    <3> QED
      BY <2>3, <3>4 DEF Ask
  <2> QED
    BY <1>5, <2>1, <2>2, <2>3
<1>6. ASSUME NEW x \in Expiries, Conclude(x)
      PROVE  TypeOK'
  <2>1. expiry' \in [Expiries -> [at : {"none", "fired", "asking", "told"},
                                  before : Nat, working : BOOLEAN,
                                  asked : SUBSET Requests]]
    BY <1>6 DEF Conclude, Dormant
  <2>2. entry' \in [watched : BOOLEAN, unanswered : SUBSET Requests,
                    progress : Nat, armed : BOOLEAN]
    BY <1>6 DEF Conclude
  <2>3. cause' \in [Requests -> {"none", "owner", "stalled", "done"}]
    BY <1>6 DEF Conclude, Cancelled
  <2> QED
    BY <1>6, <2>1, <2>2, <2>3 DEF Conclude
<1>7. CASE Hang \/ Quiescent \/ UNCHANGED vars
  BY <1>7 DEF Hang, Quiescent, vars
<1> QED
  BY <1>1, <1>3, <1>4, <1>5, <1>6, <1>7 DEF Next, Handle, Expire

(* The watch's variables keep their types: in particular only requests of  *)
(* this helper are ever unanswered in its entry.                           *)
THEOREM RelayTypeCorrect == Spec => []TypeOK
<1>1. Init => TypeOK
  BY DEF Init, TypeOK, Absent, Dormant
<1> QED
  BY <1>1, TypeStep, PTL DEF Spec

-----------------------------------------------------------------------------
(* Every handler that has settled its request keeps the entry consistent:  *)
(* Answered and End remove the request and delete an entry they empty.     *)
LEMMA SettleKeepsEntry ==
    ASSUME TypeOK, EntryInv, NEW r \in Requests, settle(r),
           pc[r] \in {"responded", "streaming", "refused"},
           pc' = [pc EXCEPT ![r] = pc'[r]],
           \A q \in Requests \ {r} : cause'[q] = cause[q],
           pc'[r] \in {"streaming", "ended"},
           UNCHANGED expiry
    PROVE  EntryInv'
<1> DEFINE e == [entry EXCEPT !.unanswered = @ \ {r}]
<1>1. e \in [watched : BOOLEAN, unanswered : SUBSET Requests,
             progress : Nat, armed : BOOLEAN]
  BY DEF TypeOK
<1>2. /\ e.unanswered = entry.unanswered \ {r}
      /\ e.watched = entry.watched
  BY DEF TypeOK
<1>3. \A q \in Requests \ {r} : pc'[q] = pc[q]
  BY DEF TypeOK
<1>4. entry'.unanswered = entry.unanswered \ {r}
  BY <1>1, <1>2, NoteProgress DEF settle, EntryInv, Absent
<1>5. \A q \in entry'.unanswered : pc'[q] \in {"forwarding", "responded", "refused"}
  BY <1>3, <1>4 DEF EntryInv, TypeOK
<1>6. CASE entry'.unanswered = {}
  <2>1. entry' = Absent
    BY <1>1, <1>2, <1>4, <1>6, NoteProgress DEF settle, EntryInv
  <2>2. \A q \in Requests : ~(pc'[q] = "forwarding" /\ cause'[q] = "none")
    BY <1>3, <1>4, <1>6 DEF EntryInv
  <2> QED
    BY <2>1, <2>2 DEF EntryInv, Absent
<1>7. CASE entry'.unanswered # {}
  <2>1. PICK q \in entry'.unanswered : TRUE
    BY <1>7
  <2>2. q \in Requests /\ pc'[q] \notin {"idle", "ended"}
    BY <2>1, <1>4, <1>5 DEF TypeOK
  <2>3. entry'.armed /\ entry'.watched
    BY <1>1, <1>2, <1>4, <1>7, NoteProgress DEF settle, EntryInv, Absent
  <2>4. \A p \in Requests : pc'[p] = "forwarding" /\ cause'[p] = "none"
                               => p \in entry'.unanswered
    BY <1>3, <1>4 DEF EntryInv
  <2> QED
    BY <1>5, <2>2, <2>3, <2>4 DEF EntryInv
<1> QED
  BY <1>6, <1>7

(* EntryInv is inductive: one step per operation of the relay and of the   *)
(* watch.                                                                  *)
LEMMA EntryStep == TypeOK /\ EntryInv /\ [Next]_vars => EntryInv'
<1> SUFFICES ASSUME TypeOK, EntryInv, [Next]_vars
             PROVE  EntryInv'
  OBVIOUS
<1>1. ASSUME NEW r \in Requests, Begin(r)
      PROVE  EntryInv'
  <2> DEFINE e == [entry EXCEPT !.watched = TRUE, !.unanswered = @ \cup {r}]
  <2>1. /\ e \in [watched : BOOLEAN, unanswered : SUBSET Requests,
                  progress : Nat, armed : BOOLEAN]
        /\ e.watched
        /\ e.unanswered = entry.unanswered \cup {r}
    BY DEF TypeOK
  <2>2. entry' = noteProgressLocked(e)
    BY <1>1 DEF Begin
  <2>3. /\ entry'.unanswered = entry.unanswered \cup {r}
        /\ entry'.armed
        /\ entry'.watched
    BY <2>1, <2>2, NoteProgress
  <2>4. pc'[r] = "forwarding" /\ \A q \in Requests \ {r} : pc'[q] = pc[q]
    BY <1>1 DEF Begin, TypeOK
  <2>5. UNCHANGED cause
    BY <1>1 DEF Begin
  <2> QED
    BY <2>3, <2>4, <2>5 DEF EntryInv, TypeOK
<1>2. ASSUME NEW r \in Requests, Respond(r) \/ Refuse(r)
      PROVE  EntryInv'
  <2>1. /\ pc'[r] \in {"responded", "refused"}
        /\ \A q \in Requests \ {r} : pc'[q] = pc[q]
        /\ UNCHANGED <<cause, entry, expiry>>
    BY <1>2 DEF Respond, Refuse, TypeOK
  <2>2. SomeExpiry' = SomeExpiry
    BY <2>1 DEF SomeExpiry
  <2> QED
    BY <2>1, <2>2 DEF EntryInv, TypeOK
<1>3. ASSUME NEW r \in Requests, Answered(r)
      PROVE  EntryInv'
  <2>1. pc'[r] = "streaming" /\ pc[r] = "responded"
    BY <1>3 DEF Answered, TypeOK
  <2> QED
    BY <1>3, <2>1, SettleKeepsEntry DEF Answered
<1>4. ASSUME NEW r \in Requests, End(r)
      PROVE  EntryInv'
  <2>1. pc'[r] = "ended" /\ pc[r] \in {"streaming", "refused"}
    BY <1>4 DEF End, TypeOK
  <2>2. \A q \in Requests \ {r} : cause'[q] = cause[q]
    BY <1>4 DEF End, TypeOK
  <2> QED
    BY <1>4, <2>1, <2>2, SettleKeepsEntry DEF End
<1>5. ASSUME NEW r \in Requests, OwnerLeaves(r)
      PROVE  EntryInv'
  <2>1. /\ UNCHANGED <<pc, entry, expiry>>
        /\ \A q \in Requests : cause'[q] = "none" => cause[q] = "none"
    BY <1>5 DEF OwnerLeaves, TypeOK
  <2>2. SomeExpiry' = SomeExpiry
    BY <2>1 DEF SomeExpiry
  <2> QED
    BY <2>1, <2>2 DEF EntryInv
<1>6. ASSUME NEW x \in Expiries, Fire(x)
      PROVE  EntryInv'
  <2>1. SomeExpiry'
    BY <1>6 DEF Fire, SomeExpiry, TypeOK
  <2>2. /\ UNCHANGED <<pc, cause>>
        /\ entry.watched
        /\ entry'.watched /\ entry'.unanswered = entry.unanswered
    BY <1>6 DEF Fire, TypeOK, EntryInv, Absent
  <2> QED
    BY <2>1, <2>2 DEF EntryInv
<1>7. ASSUME NEW x \in Expiries, ReadProgress(x)
      PROVE  EntryInv'
  <2>1. UNCHANGED <<pc, cause, entry>>
    BY <1>7 DEF ReadProgress
  <2>2. entry.unanswered # {} => SomeExpiry'
    BY <1>7 DEF ReadProgress, SomethingWaits, SomeExpiry, TypeOK, EntryInv, Absent
  <2> QED
    BY <2>1, <2>2 DEF EntryInv
<1>8. ASSUME NEW x \in Expiries, Ask(x)
      PROVE  EntryInv'
  <2>1. UNCHANGED <<pc, cause, entry>>
    BY <1>8 DEF Ask
  <2>2. SomeExpiry'
    BY <1>8 DEF Ask, SomeExpiry, TypeOK
  <2> QED
    BY <2>1, <2>2 DEF EntryInv
<1>9. ASSUME NEW x \in Expiries, Conclude(x)
      PROVE  EntryInv'
  <2>1. UNCHANGED pc
    BY <1>9 DEF Conclude
  <2>2. CASE ~SomethingWaits /\ UNCHANGED <<entry, cause>>
    BY <2>1, <2>2 DEF EntryInv, SomethingWaits, Absent
  <2>3. CASE SomethingWaits /\ entry' = [entry EXCEPT !.armed = TRUE] /\ UNCHANGED cause
    <3>1. entry'.armed /\ entry'.watched /\ entry'.unanswered = entry.unanswered
      BY <2>3 DEF TypeOK, SomethingWaits
    <3>2. entry.watched /\ UNCHANGED cause
      BY <2>3 DEF SomethingWaits
    <3> QED
      BY <2>1, <3>1, <3>2 DEF EntryInv
  <2>4. CASE /\ SomethingWaits
             /\ cause' = [r \in Requests |-> IF r \in entry.unanswered
                                             THEN Cancelled(cause[r], "stalled")
                                             ELSE cause[r]]
             /\ entry' = [entry EXCEPT !.unanswered = {}]
    <3>1. entry'.watched /\ entry'.unanswered = {} /\ entry.watched
      BY <2>4 DEF TypeOK, SomethingWaits
    <3>2. \A r \in Requests : ~(pc[r] = "forwarding" /\ cause'[r] = "none")
      BY <2>4 DEF EntryInv, Cancelled
    <3> QED
      BY <2>1, <3>1, <3>2 DEF EntryInv
  <2> QED
    BY <1>9, <2>2, <2>3, <2>4 DEF Conclude
<1>10. CASE Hang \/ Quiescent \/ UNCHANGED vars
  <2>1. UNCHANGED <<pc, cause, entry, expiry>>
    BY <1>10 DEF Hang, Quiescent, vars
  <2>2. SomeExpiry' = SomeExpiry
    BY <2>1 DEF SomeExpiry
  <2> QED
    BY <2>1, <2>2 DEF EntryInv
<1> QED
  BY <1>1, <1>2, <1>3, <1>4, <1>5, <1>6, <1>7, <1>8, <1>9, <1>10
     DEF Next, Handle, Expire

(* The entry is consistent in every reachable state. *)
LEMMA EntryAlways == Spec => [](TypeOK /\ EntryInv)
<1>1. Init => TypeOK /\ EntryInv
  BY DEF Init, TypeOK, EntryInv, Absent, Dormant
<1> QED
  BY <1>1, TypeStep, EntryStep, PTL DEF Spec

(* A request the helper holds is always in the entry, with a timer or an    *)
(* expired timer's goroutine to look at it, for any number of requests and *)
(* of timers that expire at once.                                          *)
THEOREM InFlightWatched == Spec => []InFlightIsWatched
<1>1. TypeOK /\ EntryInv => InFlightIsWatched
  BY DEF EntryInv, InFlightIsWatched, TypeOK
<1> QED
  BY <1>1, EntryAlways, PTL

(* The helper's entry is gone once all of its relay handlers have returned. *)
THEOREM EntryReleased == Spec => []NoOrphanEntry
<1>1. EntryInv => NoOrphanEntry
  BY DEF EntryInv, NoOrphanEntry
<1> QED
  BY <1>1, EntryAlways, PTL

(* No expired timer cancels a response the relay has reported as answered. *)
THEOREM AnsweredSafe == Spec => AnsweredIsSafe
<1>1. TypeOK /\ EntryInv /\ [Next]_vars
        => [\A r \in Requests :
              pc[r] \in {"streaming", "ended"} /\ cause[r] # "stalled"
                 => cause'[r] # "stalled"]_vars
  <2> SUFFICES ASSUME TypeOK, EntryInv, Next,
                      NEW r \in Requests,
                      pc[r] \in {"streaming", "ended"}, cause[r] # "stalled"
               PROVE  cause'[r] # "stalled"
    BY DEF vars
  <2>1. r \notin entry.unanswered
    BY DEF EntryInv
  <2>2. ASSUME NEW q \in Requests, Handle(q)
        PROVE  cause'[r] # "stalled"
    BY <2>2 DEF Handle, Begin, Respond, Refuse, Answered, End, OwnerLeaves,
                Cancelled, TypeOK
  <2>3. ASSUME NEW x \in Expiries, Expire(x)
        PROVE  cause'[r] # "stalled"
    BY <2>1, <2>3 DEF Expire, Fire, ReadProgress, Ask, Conclude
  <2>4. CASE Hang \/ Quiescent
    BY <2>4 DEF Hang, Quiescent, vars
  <2> QED
    BY <2>2, <2>3, <2>4 DEF Next
<1> QED
  BY <1>1, EntryAlways, PTL DEF Spec, AnsweredIsSafe
=============================================================================
