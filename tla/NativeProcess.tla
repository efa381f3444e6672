---------------------------- MODULE NativeProcess ----------------------------
(***************************************************************************)
(* The managers of llama-server, sd-server and whisper-server processes    *)
(* (internal/native/manager.go) with what they share: the port allocator   *)
(* (portalloc), the endpoints (backendendpoint), stopping and killing      *)
(* (processcontrol) and the wait for health (healthwait).  A manager's     *)
(* lifecycle lock serialises its calls; the processes, and other programs  *)
(* that take ports, move on their own.                                     *)
(***************************************************************************)
EXTENDS Naturals, FiniteSets, Sequences

CONSTANTS NpManagers,    \* the managers
          NpPinned,      \* manager -> its configured port, 0 for a dynamic endpoint
          NpPorts,       \* ports the kernel hands out
          NpConfigs,     \* config files
          NpMaxChildren, \* processes ever started
          NpMaxCalls,    \* calls of each manager
          NpMaxSquats    \* ports taken by other programs

VARIABLES np,    \* per manager: port, file (currentFilename), cmd, and the call in progress
          npch,  \* processes started: [of, cfg, port, alive, bound, killed]
          npres, \* ports reserved in the allocator
          npext  \* ports other programs hold, and those they ever held

npvars == <<np, npch, npres, npext>>

None == "none"
maxPortAttempts == 3
Dynamic(m) == NpPinned[m] = 0

Listener(p) == {k \in DOMAIN npch : npch[k].alive /\ npch[k].bound /\ npch[k].port = p}
Bound(p) == p \in npext.now \/ Listener(p) # {}
\* healthy: whatever answers on the endpoint's port counts.
healthy(m) == np[m].port # 0 /\ Bound(np[m].port)
CheckAvailable(p) == ~Bound(p)

Idle(s) == [s EXCEPT !.pc = "idle", !.attempt = 0, !.want = None, !.child = 0]
Return(m) == [np EXCEPT ![m] = Idle(@)]
Goto(m, pc) == [np EXCEPT ![m].pc = pc]

-----------------------------------------------------------------------------
(***************************************************************************)
(* The endpoint: a reserved port is sticky while it can be bound           *)
(***************************************************************************)
\* allocator.Reserve: a port that can be bound now and that no endpoint of this router has.
Allocatable(res) == {p \in NpPorts : ~Bound(p) /\ p \notin res}
Release(m) == IF Dynamic(m) THEN npres \ {np[m].port} ELSE npres
AfterRelease(m) == IF Dynamic(m) THEN 0 ELSE np[m].port
\* endpoint.Reserve keeps the port, takes another one, or fails and has none: the (port,
\* reserved set) pairs it can end with, without and with its error.
Keeps(m) == ~Dynamic(m) \/ (np[m].port # 0 /\ CheckAvailable(np[m].port))
Reserved(m) ==
    IF Keeps(m) THEN {<<np[m].port, npres>>}
    ELSE {<<p, Release(m) \cup {p}>> : p \in Allocatable(Release(m))}
Unreserved(m) == IF Keeps(m) THEN {} ELSE {<<AfterRelease(m), Release(m)>>}

-----------------------------------------------------------------------------
(***************************************************************************)
(* ReloadConfig, Restart and Unload up to the stop of the old process      *)
(***************************************************************************)
Call(m, next) ==
    /\ np[m].pc = "idle" /\ np[m].calls < NpMaxCalls /\ ~np[m].closed
    /\ \/ \E r \in Unreserved(m) :
            /\ np' = [np EXCEPT ![m].port = r[1], ![m].calls = @ + 1]
            /\ npres' = r[2]
       \/ \E r \in Reserved(m) :
            /\ np' = [np EXCEPT ![m] = [next EXCEPT !.port = r[1], !.calls = @ + 1, !.pc = "arguments"]]
            /\ npres' = r[2]
    /\ UNCHANGED <<npch, npext>>
ReloadConfig(m, f) ==
    /\ ~(np[m].file = f /\ np[m].cmd # 0 /\ healthy(m))
    /\ Call(m, [np[m] EXCEPT !.want = f])
Restart(m) == np[m].file # None /\ Call(m, [np[m] EXCEPT !.want = np[m].file])

\* LaunchArguments: the config file may be missing or invalid at this moment.
LaunchArguments(m) ==
    /\ np[m].pc = "arguments"
    /\ \/ np' = Goto(m, "stop")
       \/ np' = Return(m)
    /\ UNCHANGED <<npch, npres, npext>>

Unload(m, closing) ==
    /\ np[m].pc = "idle" /\ ~np[m].closed /\ (closing \/ np[m].calls < NpMaxCalls)
    /\ np' = [np EXCEPT ![m].file = None, ![m].want = None, ![m].pc = "stop",
                        ![m].calls = IF closing THEN @ ELSE @ + 1, ![m].closed = closing]
    /\ UNCHANGED <<npch, npres, npext>>

-----------------------------------------------------------------------------
(***************************************************************************)
(* Stopping                                                                *)
(***************************************************************************)
\* stopLocked forgets the process before it interrupts it.
stopLocked(m) ==
    /\ np[m].pc = "stop"
    /\ np' = [np EXCEPT ![m].cmd = 0, ![m].child = np[m].cmd,
                        ![m].pc = IF np[m].cmd = 0 THEN "stopped" ELSE "stopping"]
    /\ UNCHANGED <<npch, npres, npext>>

Killed(k) == [npch EXCEPT ![k].killed = TRUE]
\* processcontrol.Stop: the process exits in its grace period; or it is killed, and the call
\* goes on when it exits or after five seconds; or the caller's context ends, and it is killed.
StopExited(m) ==
    /\ np[m].pc = "stopping" /\ ~npch[np[m].child].alive
    /\ np' = [np EXCEPT ![m].pc = "stopped", ![m].child = 0] /\ UNCHANGED <<npch, npres, npext>>
StopTimedOut(m) ==
    /\ np[m].pc = "stopping" /\ npch' = Killed(np[m].child)
    /\ np' = [np EXCEPT ![m].pc = "stopped", ![m].child = 0] /\ UNCHANGED <<npres, npext>>
\* The call ends; a manager torn down for good also gives its port back, even if its stop
\* was cut short.
Leave(m) == /\ np' = [np EXCEPT ![m] = [Idle(@) EXCEPT !.port = IF np[m].closed THEN AfterRelease(m) ELSE np[m].port]]
            /\ npres' = IF np[m].closed THEN Release(m) ELSE npres
\* Mutant: a stop whose caller is gone leaves the process to itself.
StopCancelledQuietly(m) ==
    /\ np[m].pc = "stopping"
    /\ Leave(m) /\ UNCHANGED <<npch, npext>>
StopCancelled(m) ==
    /\ np[m].pc = "stopping" /\ npch' = Killed(np[m].child)
    /\ Leave(m) /\ UNCHANGED npext

\* Unload ends here.
StopDone(m) ==
    /\ np[m].pc = "stopped"
    /\ IF np[m].want # None THEN np' = Goto(m, "release") /\ UNCHANGED npres ELSE Leave(m)
    /\ UNCHANGED <<npch, npext>>

-----------------------------------------------------------------------------
(***************************************************************************)
(* Starting                                                                *)
(***************************************************************************)
\* WaitForRelease: until the port can be bound again, or an error after ten seconds.
WaitForRelease(m) ==
    /\ np[m].pc = "release"
    /\ np' = IF np[m].port = 0 \/ CheckAvailable(np[m].port) THEN Goto(m, "spawn") ELSE Return(m)
    /\ UNCHANGED <<npch, npres, npext>>

\* One attempt: reserve, check, build the arguments again, start; each may fail.
spawnLocked(m) ==
    /\ np[m].pc = "spawn"
    /\ \/ \E r \in Reserved(m) \cup Unreserved(m) :
            /\ np' = [np EXCEPT ![m] = [Idle(@) EXCEPT !.port = r[1]]]
            /\ npres' = r[2] /\ UNCHANGED npch
       \/ \E r \in Reserved(m) :
            /\ CheckAvailable(r[1]) /\ Len(npch) < NpMaxChildren
            /\ npch' = Append(npch, [of |-> m, cfg |-> np[m].want, port |-> r[1],
                                     alive |-> TRUE, bound |-> FALSE, killed |-> FALSE])
            /\ np' = [np EXCEPT ![m].port = r[1], ![m].cmd = Len(npch) + 1, ![m].file = np[m].want,
                                ![m].attempt = @ + 1, ![m].answered = 0, ![m].pc = "wait"]
            /\ npres' = r[2]
    /\ UNCHANGED npext

\* waitHealthy: the port answers; the process exited, which on a dynamic endpoint is worth
\* another port; or the deadline or the context ended.
BecomesHealthy(m) ==
    /\ np[m].pc = "wait" /\ healthy(m)
    /\ np' = [Return(m) EXCEPT ![m].answered = IF Listener(np[m].port) = {} THEN np[m].cmd
                                               ELSE CHOOSE k \in Listener(np[m].port) : TRUE]
    /\ UNCHANGED <<npch, npres, npext>>
Forgotten(m) == [np[m] EXCEPT !.cmd = 0, !.file = None]
StartExited(m) ==
    /\ np[m].pc = "wait" /\ ~npch[np[m].cmd].alive
    /\ IF Dynamic(m) /\ np[m].attempt < maxPortAttempts
       THEN np' = [np EXCEPT ![m] = [Forgotten(m) EXCEPT !.port = 0, !.pc = "spawn"]] /\ npres' = Release(m)
       ELSE np' = [np EXCEPT ![m] = Idle(Forgotten(m))] /\ UNCHANGED npres
    /\ UNCHANGED <<npch, npext>>
StartTimedOut(m) ==
    /\ np[m].pc = "wait" /\ npch' = Killed(np[m].cmd)
    /\ np' = [np EXCEPT ![m] = Idle(Forgotten(m))]
    /\ UNCHANGED <<npres, npext>>

-----------------------------------------------------------------------------
(***************************************************************************)
(* Processes and other programs                                            *)
(***************************************************************************)
\* A process binds its port, or exits because it cannot; a killed one does neither but exit.
Bind(k) == /\ npch[k].alive /\ ~npch[k].bound /\ ~npch[k].killed
           /\ npch' = IF Bound(npch[k].port) THEN [npch EXCEPT ![k].alive = FALSE]
                                             ELSE [npch EXCEPT ![k].bound = TRUE]
           /\ UNCHANGED <<np, npres, npext>>
Exit(k) == npch[k].alive /\ npch' = [npch EXCEPT ![k].alive = FALSE] /\ UNCHANGED <<np, npres, npext>>
Squat(p) == /\ ~Bound(p) /\ Cardinality(npext.ever) < NpMaxSquats
            /\ npext' = [now |-> npext.now \cup {p}, ever |-> npext.ever \cup {p}]
            /\ UNCHANGED <<np, npch, npres>>

Init == /\ np = [m \in NpManagers |-> [port |-> NpPinned[m], file |-> None, cmd |-> 0, pc |-> "idle", want |-> None,
                                       child |-> 0, attempt |-> 0, answered |-> 0, calls |-> 0, closed |-> FALSE]]
        /\ npch = <<>> /\ npres = {} /\ npext = [now |-> {}, ever |-> {}]

\* What the managers are configured with: no two share a pinned port, and the kernel hands
\* out none of those (the allocator does not know them).
NpInputs == /\ 0 \notin NpPorts
            /\ \A m \in NpManagers : NpPinned[m] \notin NpPorts
            /\ \A m, n \in NpManagers : NpPinned[m] = NpPinned[n] /\ NpPinned[m] # 0 => m = n

ManagerStep(m) == \/ LaunchArguments(m) \/ stopLocked(m) \/ StopExited(m) \/ StopTimedOut(m) \/ StopCancelled(m)
                  \/ StopDone(m) \/ WaitForRelease(m) \/ spawnLocked(m) \/ BecomesHealthy(m)
                  \/ StartExited(m) \/ StartTimedOut(m)

Next == \/ \E m \in NpManagers : \/ ManagerStep(m) \/ Restart(m)
                                 \/ \E f \in NpConfigs : ReloadConfig(m, f)
                                 \/ \E closing \in BOOLEAN : Unload(m, closing)
        \/ \E k \in DOMAIN npch : Bind(k) \/ Exit(k)
        \/ \E p \in NpPorts : Squat(p)

Spec == Init /\ [][Next]_npvars

-----------------------------------------------------------------------------
\* A process the manager no longer knows is one it is still stopping or has killed: nothing
\* that holds memory or a port is forgotten, whichever way a stop or a start fails.
ForgottenIsKilled ==
    \A k \in DOMAIN npch : npch[k].alive =>
        LET m == npch[k].of IN
        np[m].cmd = k \/ npch[k].killed \/ (np[m].pc = "stopping" /\ np[m].child = k)

\* Two endpoints never carry the same port, though each gives its port back and takes others.
PortsDistinct ==
    \A m, n \in NpManagers : m # n /\ np[m].port # 0 => np[m].port # np[n].port

\* The process that answered the health probe is the one the manager started, unless a
\* program outside the router holds the port.
AnsweredByOwn ==
    \A m \in NpManagers : np[m].pc = "idle" /\ np[m].cmd # 0 /\ np[m].answered # 0 /\ npext.ever = {}
        => np[m].answered = np[m].cmd /\ npch[np[m].cmd].cfg = np[m].file

ProcessSafe == ForgottenIsKilled /\ PortsDistinct /\ AnsweredByOwn

\* A configuration that is refused leaves the running backend as it was: still at the
\* address the router uses for it.
RefusedKeepsBackend ==
    \A m \in NpManagers : np[m].pc = "idle" /\ np[m].cmd # 0 /\ npch[np[m].cmd].alive
        => npch[np[m].cmd].port = np[m].port
=============================================================================
