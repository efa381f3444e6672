----------------------------- MODULE RelayStall -----------------------------
(***************************************************************************)
(* The master's relay of lent requests to one helper, and the watch that   *)
(* takes them back from a helper that went quiet: relayStallWatch of       *)
(* internal/proxy/offload_relay_stall.go, with the relaying part of        *)
(* handleNodeOffloadRequest (offload_handlers.go).                         *)
(*                                                                         *)
(* The watch keeps one entry per helper: the requests it has not answered, *)
(* a count of changes to them, and a timer every change restarts.  When    *)
(* the timer expires the watch reads the count, asks the helper without    *)
(* its mutex whether it still works on borrowed requests, and cancels them *)
(* all if the helper does not and the count is what it was.  An entry is   *)
(* deleted when nothing is unanswered.  Entries of different helpers share *)
(* nothing but the mutex, so the module has one helper.                    *)
(*                                                                         *)
(* A critical section of watch.mu is one step.  An expired timer runs in a *)
(* goroutine of its own, which may wait for the mutex while requests begin *)
(* and end.  How long the stall timeout is does not matter: an armed timer *)
(* may expire at any moment.                                               *)
(***************************************************************************)
EXTENDS Naturals

CONSTANTS
    Requests,   \* the requests relayed to the helper
    Expiries    \* bound: goroutines of expired timers alive at once

ASSUME RelayAssumption == Expiries # {}

VARIABLES
    pc,         \* where handleNodeOffloadRequest is, for each request
    cause,      \* the cause of each relay context, "none" while it is alive
    entry,      \* watch.helpers[helperNodeID]
    expiry,     \* the goroutines that run expired
    helper      \* the helper node: external

vars == <<pc, cause, entry, expiry, helper>>

-----------------------------------------------------------------------------
(***************************************************************************)
(* The watch                                                               *)
(***************************************************************************)

(* The helper is not in the map. *)
Absent == [watched |-> FALSE, unanswered |-> {}, progress |-> 0, armed |-> FALSE]

(* asked is a history variable: what was unanswered when the helper was    *)
(* asked.                                                                  *)
Dormant == [at |-> "none", before |-> 0, working |-> FALSE, asked |-> {}]

(* Mutant: the emptied entry stays in the map. *)
KeepEmptyEntry(e) == [e EXCEPT !.progress = @ + 1, !.armed = e.unanswered # {}]

(* The last unanswered request deletes the entry and stops its timer, any  *)
(* other change restarts the timer.                                        *)
noteProgressLocked(e) ==
    IF e.unanswered = {}
    THEN Absent
    ELSE [e EXCEPT !.progress = @ + 1, !.armed = TRUE]

(* Mutant: the request stays among the unanswered ones. *)
SettleKeepsRequest(r) ==
    entry' = IF entry.watched THEN noteProgressLocked(entry) ELSE entry

settle(r) ==
    entry' = IF entry.watched
             THEN noteProgressLocked([entry EXCEPT !.unanswered = @ \ {r}])
             ELSE entry

(* expired found something to ask the helper about. *)
SomethingWaits == entry.watched /\ entry.unanswered # {}

Cancelled(c, why) == IF c = "none" THEN why ELSE c

-----------------------------------------------------------------------------
(***************************************************************************)
(* The relay                                                               *)
(***************************************************************************)

Init ==
    /\ pc = [r \in Requests |-> "idle"]
    /\ cause = [r \in Requests |-> "none"]
    /\ entry = Absent
    /\ expiry = [x \in Expiries |-> Dormant]
    /\ helper = "up"

(* The lease names a helper that is reachable: the request is watched and  *)
(* sent.                                                                   *)
Begin(r) ==
    /\ pc[r] = "idle"
    /\ pc' = [pc EXCEPT ![r] = "forwarding"]
    /\ entry' = noteProgressLocked([entry EXCEPT !.watched = TRUE,
                                                 !.unanswered = @ \cup {r}])
    /\ UNCHANGED <<cause, expiry, helper>>

(* The response of the helper begins, whatever its status. *)
Respond(r) ==
    /\ pc[r] = "forwarding"
    /\ helper = "up"
    /\ cause[r] = "none"
    /\ pc' = [pc EXCEPT ![r] = "responded"]
    /\ UNCHANGED <<cause, entry, expiry, helper>>

(* The transport fails by itself, or because the relay's context ended; the *)
(* owner is refused with offload_returned.                                 *)
Refuse(r) ==
    /\ pc[r] = "forwarding"
    /\ pc' = [pc EXCEPT ![r] = "refused"]
    /\ UNCHANGED <<cause, entry, expiry, helper>>

Answered(r) ==
    /\ pc[r] = "responded"
    /\ pc' = [pc EXCEPT ![r] = "streaming"]
    /\ settle(r)
    /\ UNCHANGED <<cause, expiry, helper>>

(* The handler returns: the response is written, or cut off with an error, *)
(* or was a refusal.                                                       *)
End(r) ==
    /\ pc[r] \in {"streaming", "refused"}
    /\ pc' = [pc EXCEPT ![r] = "ended"]
    /\ settle(r)
    /\ cause' = [cause EXCEPT ![r] = Cancelled(@, "done")]
    /\ UNCHANGED <<expiry, helper>>

(* The owner gives up or disappears: the context of its request ends, and  *)
(* the relay's with it.                                                    *)
OwnerLeaves(r) ==
    /\ pc[r] \in {"forwarding", "responded", "streaming"}
    /\ cause[r] = "none"
    /\ cause' = [cause EXCEPT ![r] = "owner"]
    /\ UNCHANGED <<pc, entry, expiry, helper>>

-----------------------------------------------------------------------------
(***************************************************************************)
(* An expired timer                                                        *)
(***************************************************************************)

Fire(x) ==
    /\ entry.armed
    /\ expiry[x].at = "none"
    /\ expiry' = [expiry EXCEPT ![x].at = "fired"]
    /\ entry' = [entry EXCEPT !.armed = FALSE]
    /\ UNCHANGED <<pc, cause, helper>>

(* The first critical section of expired. *)
ReadProgress(x) ==
    /\ expiry[x].at = "fired"
    /\ expiry' = [expiry EXCEPT ![x] =
                    IF SomethingWaits
                    THEN [at |-> "asking", before |-> entry.progress,
                          working |-> FALSE, asked |-> entry.unanswered]
                    ELSE Dormant]
    /\ UNCHANGED <<pc, cause, entry, helper>>

(* helperRunsBorrowedWork: a helper that is up may run borrowed work of    *)
(* anyone or none, or fail to answer; one that hangs does not answer.      *)
Ask(x) ==
    /\ expiry[x].at = "asking"
    /\ \E working \in IF helper = "up" THEN BOOLEAN ELSE {FALSE} :
          expiry' = [expiry EXCEPT ![x].at = "told", ![x].working = working]
    /\ UNCHANGED <<pc, cause, entry, helper>>

(* Mutant: any count that did not go back spares the helper. *)
AlwaysSpared(x) == expiry[x].working \/ entry.progress >= expiry[x].before

(* The helper works, or something changed while it was asked. *)
Spared(x) == expiry[x].working \/ entry.progress # expiry[x].before

(* Mutant: the timer of a helper that works is not restarted. *)
ConcludeWithoutReset(x) ==
    /\ expiry[x].at = "told"
    /\ expiry' = [expiry EXCEPT ![x] = Dormant]
    /\ IF SomethingWaits /\ ~Spared(x)
       THEN /\ cause' = [r \in Requests |->
                           IF r \in entry.unanswered
                           THEN Cancelled(cause[r], "stalled")
                           ELSE cause[r]]
            /\ entry' = [entry EXCEPT !.unanswered = {}]
       ELSE UNCHANGED <<entry, cause>>
    /\ UNCHANGED <<pc, helper>>

(* The second critical section of expired: what it looks up now may be a   *)
(* new entry for the helper.                                               *)
Conclude(x) ==
    /\ expiry[x].at = "told"
    /\ expiry' = [expiry EXCEPT ![x] = Dormant]
    /\ \/ /\ ~SomethingWaits
          /\ UNCHANGED <<entry, cause>>
       \/ /\ SomethingWaits
          /\ Spared(x)
          /\ entry' = [entry EXCEPT !.armed = TRUE]
          /\ UNCHANGED cause
       \/ /\ SomethingWaits
          /\ ~Spared(x)
          /\ cause' = [r \in Requests |->
                         IF r \in entry.unanswered
                         THEN Cancelled(cause[r], "stalled")
                         ELSE cause[r]]
          /\ entry' = [entry EXCEPT !.unanswered = {}]
    /\ UNCHANGED <<pc, helper>>

(* The helper stops working and answering for good. *)
Hang ==
    /\ helper = "up"
    /\ helper' = "hung"
    /\ UNCHANGED <<pc, cause, entry, expiry>>

-----------------------------------------------------------------------------
(* All requests are over and no timer runs. *)
Quiescent ==
    /\ \A r \in Requests : pc[r] = "ended"
    /\ \A x \in Expiries : expiry[x].at = "none"
    /\ UNCHANGED vars

Handle(r) ==
    \/ Begin(r) \/ Respond(r) \/ Refuse(r) \/ Answered(r) \/ End(r)
    \/ OwnerLeaves(r)

Expire(x) == Fire(x) \/ ReadProgress(x) \/ Ask(x) \/ Conclude(x)

Next ==
    \/ \E r \in Requests : Handle(r)
    \/ \E x \in Expiries : Expire(x)
    \/ Hang
    \/ Quiescent

Spec == Init /\ [][Next]_vars

(* Timers expire, goroutines are scheduled, a call whose context ended     *)
(* returns.  Nothing makes a helper answer or an owner stay.               *)
Fairness ==
    /\ \A r \in Requests :
          /\ WF_vars(Refuse(r) /\ cause[r] # "none")
          /\ WF_vars(Answered(r))
          /\ WF_vars(End(r))
    /\ WF_vars(\E x \in Expiries : Fire(x))
    /\ \A x \in Expiries : WF_vars(ReadProgress(x) \/ Ask(x) \/ Conclude(x))

LiveSpec == Spec /\ Fairness

-----------------------------------------------------------------------------
(***************************************************************************)
(* Properties                                                              *)
(***************************************************************************)

TypeOK ==
    /\ pc \in [Requests -> {"idle", "forwarding", "responded", "refused",
                            "streaming", "ended"}]
    /\ cause \in [Requests -> {"none", "owner", "stalled", "done"}]
    /\ entry \in [watched : BOOLEAN, unanswered : SUBSET Requests,
                  progress : Nat, armed : BOOLEAN]
    /\ expiry \in [Expiries -> [at : {"none", "fired", "asking", "told"},
                                before : Nat, working : BOOLEAN,
                                asked : SUBSET Requests]]
    /\ helper \in {"up", "hung"}

(* A goroutine that will look at the entry again is under way. *)
SomeExpiry == \E x \in Expiries : expiry[x].at # "none"

(* A request the helper still holds is never forgotten: it is in the       *)
(* entry of its helper, and a timer or an expired timer's goroutine        *)
(* will look at it, whatever requests ended, timers fired and entries      *)
(* were deleted and made again meanwhile.                                  *)
InFlightIsWatched ==
    \A r \in Requests :
       pc[r] = "forwarding" /\ cause[r] = "none"
          => /\ r \in entry.unanswered
             /\ entry.armed \/ SomeExpiry

(* The entry does not outlive its requests: once every relay handler has   *)
(* returned the helper is not in the map and no timer is armed, also       *)
(* after a reclaim, which empties the entry but leaves it in the map.      *)
NoOrphanEntry ==
    (\A r \in Requests : pc[r] \in {"idle", "ended"}) => entry = Absent

(* A response that the relay has reported as answered is not cut off by    *)
(* the watch: from Answered on, no expired timer cancels it.               *)
AnsweredIsSafe ==
    [][\A r \in Requests :
          pc[r] \in {"streaming", "ended"} /\ cause[r] # "stalled"
             => cause'[r] # "stalled"]_vars

(* A helper that hangs keeps no request: every request relayed to it is    *)
(* ended, however the timers, the questions and other requests interleave. *)
HungLosesAll ==
    \A r \in Requests :
       helper = "hung" /\ pc[r] = "forwarding" ~> pc[r] = "ended"

(* Only what did not change is taken back (docs/wiki/Cluster-Routing.md):  *)
(* a request that is cancelled as stalled was already waiting when the     *)
(* helper was asked.                                                       *)
ReclaimedWereAsked ==
    [][\A r \in Requests :
          cause[r] = "none" /\ cause'[r] = "stalled"
             => \E x \in Expiries :
                   expiry[x].at = "told" /\ r \in expiry[x].asked]_vars

-----------------------------------------------------------------------------
(* The entry holds exactly requests whose handler has yet to settle them,   *)
(* and is in the map only while some handler will. The inductive            *)
(* strengthening of the invariants.                                         *)
EntryInv ==
    /\ ~entry.watched => entry = Absent
    /\ \A r \in entry.unanswered : pc[r] \in {"forwarding", "responded", "refused"}
    /\ entry.watched => \E r \in Requests : pc[r] \notin {"idle", "ended"}
    /\ entry.unanswered # {} => entry.armed \/ SomeExpiry
    /\ \A r \in Requests : pc[r] = "forwarding" /\ cause[r] = "none"
                              => r \in entry.unanswered
=============================================================================
