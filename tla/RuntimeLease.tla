---------------------------- MODULE RuntimeLease ----------------------------
(***************************************************************************)
(* What a runtime lane promises to its callers, without tickets, sleeping, *)
(* counters or load attempts: leases on one loaded config are shared, and  *)
(* whoever changes what is loaded has the lane to itself.  The only lease  *)
(* that may survive a change is the one of the goroutine that makes it (a  *)
(* recovery reload).  RuntimeLane implements this module.                  *)
(***************************************************************************)
CONSTANTS
    Requests,         \* goroutines that may hold a lease
    Unloaders,        \* goroutines that only take the lane exclusively
    Configs,
    None,             \* nothing is (known to be) loaded
    CanServe(_, _)    \* CanServe(c, r): a backend with c loaded serves r

VARIABLES
    loaded,           \* the config leases are granted on
    holders,          \* requests with a lease
    exclusive         \* the goroutine that is changing the config, if any

vars == <<loaded, holders, exclusive>>

Procs == Requests \cup Unloaders

Init == loaded = None /\ holders = {} /\ exclusive = {}

Grant(r) ==
    /\ exclusive = {}
    /\ loaded \in Configs
    /\ CanServe(loaded, r)
    /\ holders' = holders \cup {r}
    /\ UNCHANGED <<loaded, exclusive>>

Drop(r) ==
    /\ exclusive = {}
    /\ r \in holders
    /\ holders' = holders \ {r}
    /\ UNCHANGED <<loaded, exclusive>>

StartChange(p) ==
    /\ exclusive = {}
    /\ holders \subseteq {p}
    /\ exclusive' = {p}
    /\ loaded' = None
    /\ UNCHANGED holders

\* The change leaves nothing loaded, or a config; a request that made the
\* change may leave it with a lease, on a config that serves it.
EndChange(p) ==
    /\ exclusive = {p}
    /\ exclusive' = {}
    /\ loaded' \in Configs \cup {None}
    /\ \/ UNCHANGED holders
       \/ /\ p \in Requests
          /\ loaded' \in Configs
          /\ CanServe(loaded', p)
          /\ holders' = holders \cup {p}

Next ==
    \/ \E r \in Requests : Grant(r) \/ Drop(r)
    \/ \E p \in Procs : StartChange(p) \/ EndChange(p)

Spec == Init /\ [][Next]_vars
=============================================================================
