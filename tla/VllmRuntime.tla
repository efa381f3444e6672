---------------------------- MODULE VllmRuntime ----------------------------
(***************************************************************************)
(* One vLLM runtime kind (internal/vllm/runtime.go, backend.go): the       *)
(* registry entry of its child process, the child processes themselves,    *)
(* the shared Unix socket path, and the calls that load, unload and        *)
(* restart it: the backend's ReloadConfig, Unload and Restart, which its   *)
(* lane serialises, SetLaunchOptions, which nothing serialises, and Close. *)
(***************************************************************************)
EXTENDS Naturals, FiniteSets, Sequences

CONSTANTS VrConfigs,     \* model config files
          VrMaxChildren, \* child processes ever started
          VrMaxOps       \* calls by each caller

VARIABLES vr,     \* the Manager: reg (child or 0), closed, opts; the Backend: filename
          vchild, \* children: alive, running (status.Running), healthy, cfg, opts, failed (stop)
          vsock,  \* the child listening on the socket path, 0 if there is no socket
          vcall   \* the caller's call in progress

vrvars == <<vr, vchild, vsock, vcall>>

\* The lane, whose leases serialise ReloadConfig, Unload and Restart; the administrator; Close.
VrCallers == {"backend", "options", "close"}
NoConfig == "none"
Idle == [pc |-> "idle", cfg |-> NoConfig, child |-> 0, opts |-> 0, then |-> "return"]

Go(c, pc) == vcall' = [vcall EXCEPT ![c].pc = pc]
Return(c) == vcall' = [vcall EXCEPT ![c] = [Idle EXCEPT !.opts = vcall[c].opts]]
Registered(k) == vr.reg = k /\ k # 0
Stopped(ch, k) == [ch EXCEPT ![k].alive = FALSE, ![k].healthy = FALSE]

-----------------------------------------------------------------------------
(***************************************************************************)
(* Load                                                                    *)
(***************************************************************************)
\* The first critical section and prepareRuntimeLoad: reuse a running runtime of the same
\* config, refuse another config, forget a dead one.
prepareRuntimeLoad(c) ==
    /\ vcall[c].pc = "load"
    /\ LET dead == vr.reg # 0 /\ vchild[vr.reg].cfg = vcall[c].cfg /\ ~vchild[vr.reg].running IN
       IF ~vr.closed /\ (vr.reg = 0 \/ dead)
       THEN /\ vr' = [vr EXCEPT !.reg = 0]
            /\ vsock' = IF dead THEN 0 ELSE vsock
            /\ Go(c, "verify") /\ UNCHANGED vchild
       ELSE /\ vr' = IF vr.reg # 0 /\ vchild[vr.reg].cfg = vcall[c].cfg /\ ~vr.closed /\ vcall[c].then = "reload"
                     THEN [vr EXCEPT !.filename = vcall[c].cfg] ELSE vr
            /\ Return(c) /\ UNCHANGED <<vchild, vsock>>

\* Model config, policy and snapshot digests are checked without the lock; any may refuse.
VerifySnapshot(c) ==
    /\ vcall[c].pc = "verify"
    /\ (Go(c, "start") \/ Return(c)) /\ UNCHANGED <<vr, vchild, vsock>>

\* The stale socket is removed and the child starts with the launch options of this moment.
StartChild(c) ==
    /\ vcall[c].pc = "start"
    /\ \/ Len(vchild) >= VrMaxChildren /\ Return(c) /\ UNCHANGED <<vr, vchild, vsock>>
       \/ /\ Len(vchild) < VrMaxChildren
          /\ vsock' = 0
          /\ vchild' = Append(vchild, [alive |-> TRUE, running |-> TRUE, healthy |-> FALSE,
                                       cfg |-> vcall[c].cfg, opts |-> vr.opts, failed |-> FALSE])
          /\ vcall' = [vcall EXCEPT ![c].pc = "register", ![c].child = Len(vchild) + 1]
          /\ UNCHANGED vr

\* Under the lock again: a manager closed meanwhile, or another load that won, is a conflict
\* and the child is stopped by the call that started it.
Register(c) ==
    /\ vcall[c].pc = "register"
    /\ IF vr.closed \/ vr.reg # 0
       THEN vchild' = Stopped(vchild, vcall[c].child) /\ Return(c) /\ UNCHANGED <<vr, vsock>>
       ELSE vr' = [vr EXCEPT !.reg = vcall[c].child] /\ Go(c, "wait") /\ UNCHANGED <<vchild, vsock>>
\* waitForRuntimeSocket: any live listener on the path answers the probe; otherwise the
\* entry that is gone or exited, the context or the deadline ends the wait with an error,
\* which stops the child and removes its own entry.
waitForRuntimeSocket(c) ==
    /\ vcall[c].pc = "wait"
    /\ \/ /\ vsock # 0 /\ vchild[vsock].alive
          /\ vchild' = IF Registered(vcall[c].child) THEN [vchild EXCEPT ![vcall[c].child].healthy = TRUE] ELSE vchild
          /\ vr' = IF vcall[c].then = "reload" THEN [vr EXCEPT !.filename = vcall[c].cfg] ELSE vr
          /\ Return(c)
       \/ /\ vchild' = Stopped(vchild, vcall[c].child)
          /\ Go(c, "unregister") /\ UNCHANGED vr
    /\ UNCHANGED vsock
Unregister(c) ==
    /\ vcall[c].pc = "unregister"
    /\ vr' = IF Registered(vcall[c].child) THEN [vr EXCEPT !.reg = 0] ELSE vr
    /\ Return(c) /\ UNCHANGED <<vchild, vsock>>

-----------------------------------------------------------------------------
(***************************************************************************)
(* Unload, and the calls built from both                                   *)
(***************************************************************************)
\* The entry is deleted under the lock, the child stopped and the socket removed after it.
Unload(c) ==
    /\ vcall[c].pc = "unload"
    /\ IF vr.reg = 0
       THEN IF vcall[c].then # "return" THEN Go(c, "load") /\ UNCHANGED vr
            ELSE Return(c) /\ vr' = IF c = "backend" THEN [vr EXCEPT !.filename = NoConfig] ELSE vr
       ELSE /\ vr' = [vr EXCEPT !.reg = 0]
            /\ vcall' = [vcall EXCEPT ![c].pc = "stop", ![c].child = vr.reg]
    /\ UNCHANGED <<vchild, vsock>>

\* processcontrol.Stop kills the group after its grace period; it fails when the context
\* ends first, the caller's or the ten seconds Close gives itself, and the socket is removed
\* either way.
StopChild(c) ==
    /\ vcall[c].pc = "stop"
    /\ vsock' = 0
    /\ \/ /\ vchild' = Stopped(vchild, vcall[c].child)
          /\ IF vcall[c].then # "return" THEN Go(c, "load") ELSE Return(c)
          /\ vr' = IF c = "backend" /\ vcall[c].then = "return" THEN [vr EXCEPT !.filename = NoConfig] ELSE vr
       \/ /\ vchild' = [vchild EXCEPT ![vcall[c].child].failed = TRUE]
          /\ Return(c) /\ UNCHANGED vr

Enter(c, pc, cfg, then) ==
    /\ vcall[c].pc = "idle" /\ vcall[c].opts < VrMaxOps
    /\ vcall' = [vcall EXCEPT ![c] = [pc |-> pc, cfg |-> cfg, child |-> 0, opts |-> @.opts + 1, then |-> then]]

\* ReloadConfig: nothing to do for the healthy file already loaded; else unload the former
\* file, if any, and load.
ReloadConfig(cfg) ==
    /\ ~(vr.filename = cfg /\ vr.reg # 0 /\ vchild[vr.reg].running /\ vsock # 0 /\ vchild[vsock].alive)
    /\ Enter("backend", IF vr.filename # NoConfig THEN "unload" ELSE "load", cfg, "reload")
    /\ UNCHANGED <<vr, vchild, vsock>>
BackendUnload == Enter("backend", "unload", NoConfig, "return") /\ UNCHANGED <<vr, vchild, vsock>>

\* Restart reads the entry, then unloads whatever is registered and loads the config it read.
Restart ==
    /\ vr.reg # 0 /\ Enter("backend", "unload", vchild[vr.reg].cfg, "restart")
    /\ UNCHANGED <<vr, vchild, vsock>>

\* SetLaunchOptions: persist the new options, then unload the registered runtime.
SetLaunchOptions ==
    /\ ~vr.closed /\ Enter("options", "unload", NoConfig, "return")
    /\ vr' = [vr EXCEPT !.opts = @ + 1] /\ UNCHANGED <<vchild, vsock>>

\* Close takes every entry under the lock and stops the children outside it.
Close ==
    /\ ~vr.closed /\ vcall["close"].pc = "idle"
    /\ vr' = [vr EXCEPT !.closed = TRUE, !.reg = 0]
    /\ vcall' = [vcall EXCEPT !["close"] = IF vr.reg = 0 THEN Idle ELSE [Idle EXCEPT !.pc = "stop", !.child = vr.reg]]
    /\ UNCHANGED <<vchild, vsock>>

-----------------------------------------------------------------------------
(***************************************************************************)
(* The child processes                                                     *)
(***************************************************************************)
Bind(k) == /\ vchild[k].alive /\ vsock = 0 /\ ~vchild[k].healthy
           /\ vsock' = k /\ UNCHANGED <<vr, vchild, vcall>>
Die(k) == /\ vchild[k].alive
          /\ vchild' = [vchild EXCEPT ![k].alive = FALSE] /\ UNCHANGED <<vr, vsock, vcall>>
\* watchRuntime: only the registered process has its status changed.
watchRuntime(k) ==
    /\ ~vchild[k].alive /\ vchild[k].running /\ Registered(k)
    /\ vchild' = [vchild EXCEPT ![k].running = FALSE, ![k].healthy = FALSE]
    /\ UNCHANGED <<vr, vsock, vcall>>
\* Runtime: a probe refreshes the health of the entry it read.
Runtime == /\ vr.reg # 0 /\ vchild[vr.reg].running
           /\ vchild' = [vchild EXCEPT ![vr.reg].healthy = (vsock # 0 /\ vchild[vsock].alive)]
           /\ UNCHANGED <<vr, vsock, vcall>>

CallStep(c) == \/ prepareRuntimeLoad(c) \/ VerifySnapshot(c) \/ StartChild(c) \/ Register(c)
               \/ waitForRuntimeSocket(c) \/ Unregister(c) \/ Unload(c) \/ StopChild(c)

Init == /\ vr = [reg |-> 0, closed |-> FALSE, opts |-> 0, filename |-> NoConfig]
        /\ vchild = <<>> /\ vsock = 0
        /\ vcall = [c \in VrCallers |-> Idle]

Next == \/ \E c \in VrCallers : CallStep(c)
        \/ \E cfg \in VrConfigs : ReloadConfig(cfg)
        \/ BackendUnload \/ Restart \/ SetLaunchOptions \/ Close \/ Runtime
        \/ \E k \in DOMAIN vchild : Bind(k) \/ Die(k) \/ watchRuntime(k)

Spec == Init /\ [][Next]_vrvars

-----------------------------------------------------------------------------
\* Every live child is registered, in the hands of a call that will register or stop it,
\* or one whose stop was reported as failed.
NoOrphanChild ==
    \A k \in DOMAIN vchild : vchild[k].alive =>
        \/ Registered(k) \/ vchild[k].failed
        \/ \E c \in VrCallers : vcall[c].child = k /\ vcall[c].pc \in {"register", "stop", "wait", "unregister"}

\* At most one live child is not on its way out: the accelerator is never given twice.
OneRuntime ==
    Cardinality({k \in DOMAIN vchild : vchild[k].alive /\ ~vchild[k].failed
                 /\ ~\E c \in VrCallers : vcall[c].child = k /\ vcall[c].pc \in {"register", "stop", "wait"}}) <= 1

\* Once Close has returned, no call can leave a runtime behind it.
ClosedLeavesNothing ==
    vr.closed /\ (\A c \in VrCallers : vcall[c].pc = "idle") =>
        \A k \in DOMAIN vchild : vchild[k].alive => vchild[k].failed

\* A runtime the backend believes it loaded and that is registered runs that config.
LoadedIsRequested ==
    vr.filename # NoConfig /\ vr.reg # 0 /\ vcall["backend"].pc = "idle" => vchild[vr.reg].cfg = vr.filename

VllmRuntimeSafe == NoOrphanChild /\ OneRuntime /\ ClosedLeavesNothing /\ LoadedIsRequested

=============================================================================
