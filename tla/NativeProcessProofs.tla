------------------------- MODULE NativeProcessProofs -------------------------
(***************************************************************************)
(* The managers of backend processes: whichever way a stop or a start      *)
(* fails, and however the processes bind, exit and lose their ports, no    *)
(* process is forgotten unless it was killed, no two endpoints carry one   *)
(* port, and while no other program takes ports the health probe is        *)
(* answered by the process it asks about.                                  *)
(*                                                                         *)
(* The last needs most.  A probe is answered by whoever listens on the     *)
(* port, so the invariant says who may come to listen: a process that has  *)
(* not bound its port and was not killed is the one its manager waits for, *)
(* at the port its manager has, and managers have different ports.         *)
(***************************************************************************)
EXTENDS NativeProcess, SequenceTheorems, TLAPS

(* ------------------------- the inductive invariant ----------------------- *)
Fields == {"port", "file", "cmd", "pc", "want", "child", "attempt", "answered", "calls", "closed"}
Proc == {"of", "cfg", "port", "alive", "bound", "killed"}
IsSeq(s) == s \in Seq({s[i] : i \in DOMAIN s})

Shape ==
    /\ DOMAIN np = NpManagers /\ \A m \in NpManagers : DOMAIN np[m] = Fields
    /\ IsSeq(npch) /\ \A k \in DOMAIN npch : DOMAIN npch[k] = Proc /\ npch[k].of \in NpManagers
    /\ npext.now \subseteq npext.ever

\* The process a manager has, or stops, is its own; it has none from the stop to the start;
\* and the one it has runs the file it names, unless an unload has begun.
Own(m) ==
    /\ np[m].cmd # 0 => np[m].cmd \in DOMAIN npch /\ npch[np[m].cmd].of = m
    /\ np[m].pc = "wait" => np[m].cmd # 0
    /\ np[m].pc = "stopping" => np[m].child \in DOMAIN npch /\ npch[np[m].child].of = m
    /\ np[m].pc \in {"stopping", "stopped", "release", "spawn"} => np[m].cmd = 0
    /\ np[m].cmd # 0 /\ np[m].pc \in {"idle", "arguments", "wait"} => npch[np[m].cmd].cfg = np[m].file

\* A dynamic endpoint has no port or one that the allocator reserved for it.
Holds(m) ==
    IF Dynamic(m) THEN np[m].port = 0 \/ np[m].port \in npres \cap NpPorts ELSE np[m].port = NpPinned[m]

\* Who may come to listen, who listens where a manager waits, and who has answered.
MayBind == \A k \in DOMAIN npch :
    npch[k].alive /\ ~npch[k].bound /\ ~npch[k].killed =>
        LET m == npch[k].of IN np[m].cmd = k /\ np[m].pc = "wait" /\ npch[k].port = np[m].port
Listens == \A m \in NpManagers : np[m].pc = "wait" => np[m].port # 0 /\ Listener(np[m].port) \subseteq {np[m].cmd}
Answers == \A m \in NpManagers :
    np[m].pc \in {"idle", "arguments"} /\ np[m].cmd # 0 /\ np[m].answered # 0 => np[m].answered = np[m].cmd
Undisturbed == npext.ever = {} => MayBind /\ Listens /\ Answers

IInv == /\ Shape /\ (\A m \in NpManagers : Own(m)) /\ (\A m \in NpManagers : Holds(m))
        /\ PortsDistinct /\ ForgottenIsKilled /\ Undisturbed

(* --------------------------------- steps --------------------------------- *)
\* Only manager m moves, and it remains a manager.
Moves(m) ==
    /\ DOMAIN np' = NpManagers /\ DOMAIN np'[m] = Fields
    /\ \A n \in NpManagers : n # m => np'[n] = np[n]

\* What may happen to its port.
PortMoves(m) ==
    \/ np'[m].port = np[m].port /\ npres' = npres
    \/ <<np'[m].port, npres'>> \in Reserved(m) \cup Unreserved(m)
    \/ np'[m].port = AfterRelease(m) /\ npres' = Release(m)

\* A process is at most killed.
Marks ==
    /\ DOMAIN npch' = DOMAIN npch /\ IsSeq(npch')
    /\ \A k \in DOMAIN npch :
         /\ DOMAIN npch'[k] = Proc
         /\ npch'[k].of = npch[k].of /\ npch'[k].cfg = npch[k].cfg /\ npch'[k].port = npch[k].port
         /\ npch'[k].alive <=> npch[k].alive
         /\ npch'[k].bound <=> npch[k].bound
         /\ npch[k].killed => npch'[k].killed

LEMMA MovesBy ==
    ASSUME IInv, NEW m \in NpManagers, NEW s, DOMAIN s = Fields, np' = [np EXCEPT ![m] = s]
    PROVE  Moves(m) /\ np'[m] = s
    BY DEF IInv, Shape, Moves

LEMMA SeqDomain == ASSUME NEW s, IsSeq(s) PROVE Len(s) \in Nat /\ DOMAIN s = 1 .. Len(s)
    BY DEF IsSeq

\* A sequence with one entry replaced.
LEMMA ReplaceSeq ==
    ASSUME NEW s, IsSeq(s), NEW k \in DOMAIN s, NEW e
    PROVE  LET t == [s EXCEPT ![k] = e] IN
           IsSeq(t) /\ DOMAIN t = DOMAIN s /\ \A i \in DOMAIN s : t[i] = IF i = k THEN e ELSE s[i]
<1> DEFINE t == [s EXCEPT ![k] = e]
           T == {t[i] : i \in DOMAIN t}
<1>1. Len(s) \in Nat /\ DOMAIN s = 1 .. Len(s) BY SeqDomain
<1>2. DOMAIN t = DOMAIN s /\ \A i \in DOMAIN s : t[i] = IF i = k THEN e ELSE s[i] OBVIOUS
<1>3. t = [i \in 1 .. Len(s) |-> t[i]] BY <1>1
<1> HIDE DEF t
<1>4. \A i \in 1 .. Len(s) : t[i] \in T BY <1>1, <1>2
<1> HIDE DEF T
<1>5. t \in [1 .. Len(s) -> T] BY <1>3, <1>4
<1>6. t \in Seq(T) BY <1>1, <1>5
<1>7. QED BY <1>2, <1>6 DEF t, T, IsSeq

LEMMA AppendSeq ==
    ASSUME NEW s, IsSeq(s), NEW e
    PROVE  LET t == Append(s, e) IN
           /\ IsSeq(t) /\ DOMAIN t = DOMAIN s \cup {Len(s) + 1} /\ Len(s) + 1 \notin DOMAIN s /\ Len(s) + 1 # 0
           /\ t[Len(s) + 1] = e /\ \A i \in DOMAIN s : t[i] = s[i]
<1> DEFINE S == {s[i] : i \in DOMAIN s} \cup {e}
           t == Append(s, e)
           T == {t[i] : i \in DOMAIN t}
<1>1. Len(s) \in Nat /\ DOMAIN s = 1 .. Len(s) BY SeqDomain
<1>2. s \in Seq(S) BY DEF IsSeq
<1> HIDE DEF S
<1>3. e \in S BY DEF S
<1>4. t \in Seq(S) /\ Len(t) = Len(s) + 1 /\ t[Len(s) + 1] = e /\ \A i \in 1 .. Len(s) : t[i] = s[i]
    BY <1>2, <1>3
<1> HIDE DEF t
<1>5. DOMAIN t = 1 .. Len(s) + 1 /\ t = [i \in 1 .. Len(s) + 1 |-> t[i]] BY <1>4, <1>1
<1>6. \A i \in 1 .. Len(s) + 1 : t[i] \in T BY <1>5
<1> HIDE DEF T
<1>7. t \in [1 .. Len(s) + 1 -> T] BY <1>5, <1>6
<1>8. t \in Seq(T) BY <1>1, <1>7
<1>9. IsSeq(t) BY <1>8 DEF T, IsSeq
<1>10. DOMAIN t = DOMAIN s \cup {Len(s) + 1} /\ Len(s) + 1 \notin DOMAIN s /\ Len(s) + 1 # 0 BY <1>1, <1>5
<1>11. QED BY <1>1, <1>4, <1>9, <1>10 DEF t

LEMMA SameMarks == ASSUME IInv, UNCHANGED npch PROVE Marks
    BY DEF IInv, Shape, Marks

LEMMA KillMarks ==
    ASSUME IInv, NEW k \in DOMAIN npch, npch' = Killed(k)
    PROVE  Marks /\ npch'[k].killed
<1> DEFINE e == [npch[k] EXCEPT !.killed = TRUE]
<1>1. npch' = [npch EXCEPT ![k] = e] BY DEF Killed
<1>2. IsSeq(npch) BY DEF IInv, Shape
<1> HIDE DEF e
<1>3. /\ IsSeq(npch') /\ DOMAIN npch' = DOMAIN npch
      /\ \A i \in DOMAIN npch : npch'[i] = IF i = k THEN e ELSE npch[i]
    BY <1>1, <1>2, ReplaceSeq
<1>4. \A i \in DOMAIN npch : DOMAIN npch[i] = Proc BY DEF IInv, Shape
<1>5. npch'[k].killed BY <1>3, <1>4 DEF Proc, e
<1>6. ASSUME NEW i \in DOMAIN npch
      PROVE  /\ DOMAIN npch'[i] = Proc
             /\ npch'[i].of = npch[i].of /\ npch'[i].cfg = npch[i].cfg /\ npch'[i].port = npch[i].port
             /\ npch'[i].alive <=> npch[i].alive
             /\ npch'[i].bound <=> npch[i].bound
             /\ npch[i].killed => npch'[i].killed
    BY <1>3, <1>4 DEF Proc, e
<1>7. QED BY <1>3, <1>5, <1>6 DEF Marks

(* ---------------------------------- ports -------------------------------- *)
\* A port that a manager takes is one no other has, and giving one back leaves the others'.
LEMMA PortsKept ==
    ASSUME NpInputs, IInv, NEW m \in NpManagers, Moves(m), PortMoves(m)
    PROVE  (\A n \in NpManagers : Holds(n)') /\ PortsDistinct'
<1>1. \A n \in NpManagers : n # m => np'[n].port = np[n].port BY DEF Moves
<1>2. \A n \in NpManagers :
          /\ Dynamic(n) => np[n].port = 0 \/ np[n].port \in npres \cap NpPorts
          /\ ~Dynamic(n) => np[n].port = NpPinned[n] /\ NpPinned[n] # 0
    BY DEF IInv, Holds, Dynamic
<1>3. \A n, o \in NpManagers : n # o /\ np[n].port # 0 => np[n].port # np[o].port BY DEF IInv, PortsDistinct
<1>4. /\ Dynamic(m) => np'[m].port = 0 \/ np'[m].port \in npres' \cap NpPorts
      /\ ~Dynamic(m) => np'[m].port = NpPinned[m]
    <2>1. CASE np'[m].port = np[m].port /\ npres' = npres BY <1>2, <2>1
    <2>2. CASE <<np'[m].port, npres'>> \in Reserved(m) BY <1>2, <2>2 DEF Reserved, Keeps, Allocatable
    <2>3. CASE <<np'[m].port, npres'>> \in Unreserved(m) BY <1>2, <2>3 DEF Unreserved, Keeps, AfterRelease
    <2>4. CASE np'[m].port = AfterRelease(m) BY <1>2, <2>4 DEF AfterRelease
    <2>5. QED BY <2>1, <2>2, <2>3, <2>4 DEF PortMoves
<1>5. npres \ {np[m].port} \subseteq npres' /\ (~Dynamic(m) => npres \subseteq npres')
    <2>1. npres \ {np[m].port} \subseteq Release(m) /\ (~Dynamic(m) => Release(m) = npres) BY DEF Release
    <2>2. CASE <<np'[m].port, npres'>> \in Reserved(m) BY <2>1, <2>2 DEF Reserved, Keeps
    <2>3. CASE <<np'[m].port, npres'>> \in Unreserved(m) BY <2>1, <2>3 DEF Unreserved, Keeps
    <2>4. QED BY <2>1, <2>2, <2>3 DEF PortMoves
<1>6. ASSUME NEW n \in NpManagers, n # m, np'[m].port # 0 PROVE np'[m].port # np[n].port
    <2>1. CASE np'[m].port = np[m].port BY <1>3, <1>6, <2>1
    <2>2. CASE np'[m].port # np[m].port
        <3>1. <<np'[m].port, npres'>> \in Reserved(m) /\ ~Keeps(m)
            BY <1>2, <1>6, <2>2 DEF PortMoves, Reserved, Unreserved, AfterRelease, Keeps
        <3>2. np'[m].port \in NpPorts /\ np'[m].port \notin Release(m) /\ Dynamic(m)
            BY <3>1 DEF Reserved, Allocatable, Keeps
        <3>3. CASE Dynamic(n)
            <4>1. np[n].port # 0 => np[n].port \in npres /\ np[n].port # np[m].port BY <1>2, <1>3, <1>6, <3>3
            <4>2. QED BY <1>6, <3>2, <4>1 DEF Release
        <3>4. CASE ~Dynamic(n) BY <1>2, <3>2, <3>4 DEF NpInputs
        <3>5. QED BY <3>3, <3>4
    <2>3. QED BY <2>1, <2>2
<1>7. PortsDistinct' BY <1>1, <1>3, <1>6 DEF PortsDistinct
<1>8. ASSUME NEW n \in NpManagers PROVE Holds(n)'
    <2>1. CASE n = m BY <1>4, <2>1 DEF Holds, Dynamic
    <2>2. CASE n # m
        <3>1. CASE Dynamic(n) /\ np[n].port # 0
            <4>1. np[n].port # np[m].port /\ np[n].port \in npres \cap NpPorts BY <1>2, <1>3, <1>8, <2>2, <3>1
            <4>2. QED BY <1>1, <1>5, <2>2, <3>1, <4>1 DEF Holds, Dynamic
        <3>2. CASE ~(Dynamic(n) /\ np[n].port # 0) BY <1>1, <1>2, <2>2, <3>2 DEF Holds, Dynamic
        <3>3. QED BY <3>1, <3>2
    <2>3. QED BY <2>1, <2>2
<1>9. QED BY <1>7, <1>8

\* What a step of manager m leaves of the others, where processes are at most killed.
LEMMA OthersKept ==
    ASSUME IInv, NEW m \in NpManagers, Moves(m), Marks, UNCHANGED npext
    PROVE  /\ Shape' /\ \A n \in NpManagers : n # m => Own(n)'
           /\ \A p : Listener(p)' = Listener(p)
<1>1. Shape' BY DEF IInv, Shape, Moves, Marks
<1>2. ASSUME NEW n \in NpManagers, n # m PROVE Own(n)'
    <2>1. np'[n] = np[n] BY <1>2 DEF Moves
    <2>2. Own(n) BY DEF IInv
    <2>3. QED BY <2>1, <2>2 DEF Own, Marks
<1>3. \A p : Listener(p)' = Listener(p) BY DEF Listener, Marks
<1>4. QED BY <1>1, <1>2, <1>3

\* A step of a manager that keeps its process, or has none, and waits for none.
LEMMA Quiet ==
    ASSUME NpInputs, IInv, NEW m \in NpManagers, Moves(m), PortMoves(m), UNCHANGED <<npch, npext>>,
           np'[m].cmd = np[m].cmd, np'[m].answered = np[m].answered,
           np[m].pc \notin {"stopping", "wait"}, np'[m].pc \notin {"stopping", "wait"},
           np'[m].file = np[m].file \/ np'[m].pc = "stop",
           np'[m].pc \in {"idle", "arguments"} => np[m].pc \in {"idle", "arguments"} \/ np[m].cmd = 0,
           np'[m].pc \in {"stopped", "release", "spawn"} => np[m].cmd = 0
    PROVE  IInv'
<1>1. Marks BY SameMarks
<1>2. /\ Shape' /\ \A n \in NpManagers : n # m => Own(n)'
      /\ \A p : Listener(p)' = Listener(p)
    BY <1>1, OthersKept
<1>3. Own(m)'
    <2>1. Own(m) BY DEF IInv
    <2>2. QED BY <2>1 DEF Own
<1>4. \A n \in NpManagers : n # m => np'[n] = np[n] BY DEF Moves
<1>5. ForgottenIsKilled'
    <2>1. SUFFICES ASSUME NEW k \in DOMAIN npch, npch[k].alive
                   PROVE  LET n == npch[k].of IN
                          np'[n].cmd = k \/ npch[k].killed \/ (np'[n].pc = "stopping" /\ np'[n].child = k)
        BY DEF ForgottenIsKilled
    <2>2. /\ npch[k].of \in NpManagers
          /\ LET n == npch[k].of IN np[n].cmd = k \/ npch[k].killed \/ (np[n].pc = "stopping" /\ np[n].child = k)
        BY <2>1 DEF IInv, Shape, ForgottenIsKilled
    <2>3. QED BY <1>4, <2>2
<1>6. Undisturbed'
    <2>1. SUFFICES ASSUME npext.ever = {} PROVE MayBind' /\ Listens' /\ Answers' BY DEF Undisturbed
    <2>2. MayBind /\ Listens /\ Answers BY <2>1 DEF IInv, Undisturbed
    <2>3. MayBind'
        <3>1. SUFFICES ASSUME NEW k \in DOMAIN npch, npch[k].alive, ~npch[k].bound, ~npch[k].killed
                       PROVE  LET n == npch[k].of IN np'[n].cmd = k /\ np'[n].pc = "wait" /\ npch[k].port = np'[n].port
            BY DEF MayBind
        <3>2. /\ npch[k].of \in NpManagers
              /\ LET n == npch[k].of IN np[n].cmd = k /\ np[n].pc = "wait" /\ npch[k].port = np[n].port
            BY <2>2, <3>1 DEF MayBind, IInv, Shape
        <3>3. QED BY <1>4, <3>2
    <2>4. Listens' BY <1>2, <1>4, <2>2 DEF Listens
    <2>5. Answers' BY <1>4, <2>2 DEF Answers
    <2>6. QED BY <2>3, <2>4, <2>5
<1>7. QED BY <1>2, <1>3, <1>5, <1>6, PortsKept DEF IInv

\* A step after which a manager has no process: what it had is dead, killed or being stopped.
LEMMA Drops ==
    ASSUME NpInputs, IInv, NEW m \in NpManagers, Moves(m), PortMoves(m), Marks, UNCHANGED npext,
           np'[m].cmd = 0, np'[m].pc # "wait", np[m].pc = "wait" => np'[m].pc # "stopping",
           np'[m].pc = "stopping" => np'[m].child \in DOMAIN npch /\ npch[np'[m].child].of = m,
           \A k \in DOMAIN npch : npch[k].of = m /\ npch[k].alive /\ ~npch'[k].killed
                                    => np'[m].pc = "stopping" /\ np'[m].child = k
    PROVE  IInv'
<1>2. /\ Shape' /\ \A n \in NpManagers : n # m => Own(n)'
      /\ \A p : Listener(p)' = Listener(p)
    BY OthersKept
<1>3. Own(m)' BY DEF Own, Marks
<1>4. \A n \in NpManagers : n # m => np'[n] = np[n] BY DEF Moves
<1>5. ForgottenIsKilled'
    <2>1. SUFFICES ASSUME NEW k \in DOMAIN npch, npch[k].alive, ~npch'[k].killed
                   PROVE  LET n == npch[k].of IN
                          np'[n].cmd = k \/ (np'[n].pc = "stopping" /\ np'[n].child = k)
        BY DEF ForgottenIsKilled, Marks
    <2>2. /\ npch[k].of \in NpManagers
          /\ LET n == npch[k].of IN np[n].cmd = k \/ (np[n].pc = "stopping" /\ np[n].child = k)
        BY <2>1 DEF IInv, Shape, ForgottenIsKilled, Marks
    <2>3. CASE npch[k].of = m BY <2>1, <2>3
    <2>4. CASE npch[k].of # m BY <1>4, <2>2, <2>4
    <2>5. QED BY <2>3, <2>4
<1>6. Undisturbed'
    <2>1. SUFFICES ASSUME npext.ever = {} PROVE MayBind' /\ Listens' /\ Answers' BY DEF Undisturbed
    <2>2. MayBind /\ Listens /\ Answers BY <2>1 DEF IInv, Undisturbed
    <2>3. MayBind'
        <3>1. SUFFICES ASSUME NEW k \in DOMAIN npch, npch[k].alive, ~npch[k].bound, ~npch'[k].killed
                       PROVE  LET n == npch[k].of IN np'[n].cmd = k /\ np'[n].pc = "wait" /\ npch[k].port = np'[n].port
            BY DEF MayBind, Marks
        <3>2. /\ npch[k].of \in NpManagers
              /\ LET n == npch[k].of IN np[n].cmd = k /\ np[n].pc = "wait" /\ npch[k].port = np[n].port
            BY <2>2, <3>1 DEF MayBind, IInv, Shape, Marks
        <3>3. npch[k].of # m BY <3>1, <3>2
        <3>4. QED BY <1>4, <3>2, <3>3
    <2>4. Listens' BY <1>2, <1>4, <2>2 DEF Listens
    <2>5. Answers' BY <1>4, <2>2 DEF Answers
    <2>6. QED BY <2>3, <2>4, <2>5
<1>7. QED BY <1>2, <1>3, <1>5, <1>6, PortsKept DEF IInv

(* --------------------------------- calls --------------------------------- *)
LEMMA Pairs ==
    ASSUME NEW m \in NpManagers, NEW r \in Reserved(m) \cup Unreserved(m) PROVE r = <<r[1], r[2]>>
    BY DEF Reserved, Unreserved

LEMMA ManagerFields == ASSUME IInv, NEW m \in NpManagers PROVE DOMAIN np[m] = Fields /\ Own(m)
    BY DEF IInv, Shape

\* A call reserves a port, or fails to, and leaves the process as it is.
LEMMA CallKeeps ==
    ASSUME NpInputs, IInv, NEW m \in NpManagers, NEW f, Call(m, [np[m] EXCEPT !.want = f])
    PROVE  IInv'
<1>1. np[m].pc = "idle" /\ UNCHANGED <<npch, npext>> /\ DOMAIN np[m] = Fields BY ManagerFields DEF Call
<1>2. ASSUME NEW r \in Unreserved(m), np' = [np EXCEPT ![m].port = r[1], ![m].calls = @ + 1], npres' = r[2]
      PROVE  IInv'
    <2> DEFINE s == [np[m] EXCEPT !.port = r[1], !.calls = @ + 1]
    <2>1. np' = [np EXCEPT ![m] = s] BY <1>2 DEF IInv, Shape
    <2>2. /\ DOMAIN s = Fields /\ s.port = r[1] /\ s.pc = "idle" /\ s.cmd = np[m].cmd
          /\ s.answered = np[m].answered /\ s.file = np[m].file
        BY <1>1 DEF Fields
    <2> HIDE DEF s
    <2>3. Moves(m) /\ np'[m] = s BY <2>1, <2>2, MovesBy
    <2>4. PortMoves(m) BY <1>2, <2>2, <2>3, Pairs DEF PortMoves
    <2>5. QED BY <1>1, <2>2, <2>3, <2>4, Quiet
<1>3. ASSUME NEW r \in Reserved(m), npres' = r[2],
             np' = [np EXCEPT ![m] = [[np[m] EXCEPT !.want = f] EXCEPT !.port = r[1], !.calls = @ + 1, !.pc = "arguments"]]
      PROVE  IInv'
    <2> DEFINE s == [[np[m] EXCEPT !.want = f] EXCEPT !.port = r[1], !.calls = @ + 1, !.pc = "arguments"]
    <2>1. np' = [np EXCEPT ![m] = s] BY <1>3
    <2>2. /\ DOMAIN s = Fields /\ s.port = r[1] /\ s.pc = "arguments" /\ s.cmd = np[m].cmd
          /\ s.answered = np[m].answered /\ s.file = np[m].file
        BY <1>1 DEF Fields
    <2> HIDE DEF s
    <2>3. Moves(m) /\ np'[m] = s BY <2>1, <2>2, MovesBy
    <2>4. PortMoves(m) BY <1>3, <2>2, <2>3, Pairs DEF PortMoves
    <2>5. QED BY <1>1, <2>2, <2>3, <2>4, Quiet
<1>4. QED BY <1>2, <1>3 DEF Call

LEMMA ReturnFields ==
    ASSUME IInv, NEW m \in NpManagers, np' = Return(m)
    PROVE  /\ Moves(m) /\ np'[m].pc = "idle" /\ np'[m].cmd = np[m].cmd /\ np'[m].port = np[m].port
           /\ np'[m].answered = np[m].answered /\ np'[m].file = np[m].file
<1> DEFINE s == Idle(np[m])
<1>1. np' = [np EXCEPT ![m] = s] BY DEF Return
<1>2. /\ DOMAIN s = Fields /\ s.pc = "idle" /\ s.cmd = np[m].cmd /\ s.port = np[m].port
      /\ s.answered = np[m].answered /\ s.file = np[m].file
    BY ManagerFields DEF Fields, Idle
<1> HIDE DEF s
<1>3. QED BY <1>1, <1>2, MovesBy

LEMMA GotoFields ==
    ASSUME IInv, NEW m \in NpManagers, NEW pc, np' = Goto(m, pc)
    PROVE  /\ Moves(m) /\ np'[m].pc = pc /\ np'[m].cmd = np[m].cmd /\ np'[m].port = np[m].port
           /\ np'[m].answered = np[m].answered /\ np'[m].file = np[m].file
<1> DEFINE s == [np[m] EXCEPT !.pc = pc]
<1>1. np' = [np EXCEPT ![m] = s] BY DEF Goto
<1>2. /\ DOMAIN s = Fields /\ s.pc = pc /\ s.cmd = np[m].cmd /\ s.port = np[m].port
      /\ s.answered = np[m].answered /\ s.file = np[m].file
    BY ManagerFields DEF Fields
<1> HIDE DEF s
<1>3. QED BY <1>1, <1>2, MovesBy

LEMMA ArgumentsKeeps == ASSUME NpInputs, IInv, NEW m \in NpManagers, LaunchArguments(m) PROVE IInv'
<1>1. np[m].pc = "arguments" /\ UNCHANGED <<npch, npres, npext>> BY DEF LaunchArguments
<1>2. CASE np' = Goto(m, "stop")
    <2>1. PortMoves(m) BY <1>1, <1>2, GotoFields DEF PortMoves
    <2>2. QED BY <1>1, <1>2, <2>1, GotoFields, Quiet
<1>3. CASE np' = Return(m)
    <2>1. PortMoves(m) BY <1>1, <1>3, ReturnFields DEF PortMoves
    <2>2. QED BY <1>1, <1>3, <2>1, ReturnFields, Quiet
<1>4. QED BY <1>2, <1>3 DEF LaunchArguments

LEMMA UnloadKeeps ==
    ASSUME NpInputs, IInv, NEW m \in NpManagers, NEW closing \in BOOLEAN, Unload(m, closing) PROVE IInv'
<1> DEFINE s == [np[m] EXCEPT !.file = None, !.want = None, !.pc = "stop",
                              !.calls = IF closing THEN @ ELSE @ + 1, !.closed = closing]
<1>1. np[m].pc = "idle" /\ UNCHANGED <<npch, npres, npext>> /\ np' = [np EXCEPT ![m] = s]
    BY DEF Unload, IInv, Shape
<1>2. /\ DOMAIN s = Fields /\ s.pc = "stop" /\ s.cmd = np[m].cmd /\ s.port = np[m].port
      /\ s.answered = np[m].answered
    BY ManagerFields DEF Fields
<1> HIDE DEF s
<1>3. Moves(m) /\ np'[m] = s BY <1>1, <1>2, MovesBy
<1>4. PortMoves(m) BY <1>1, <1>2, <1>3 DEF PortMoves
<1>5. QED BY <1>1, <1>2, <1>3, <1>4, Quiet

(* -------------------------------- stopping ------------------------------- *)
\* The processes of a manager that has none are dead or killed, but for one it is stopping.
LEMMA Orphans ==
    ASSUME IInv, NEW m \in NpManagers, NEW k \in DOMAIN npch, npch[k].of = m, npch[k].alive, ~npch[k].killed
    PROVE  np[m].cmd = k \/ (np[m].pc = "stopping" /\ np[m].child = k)
    BY DEF IInv, ForgottenIsKilled

LEMMA StopKeeps == ASSUME NpInputs, IInv, NEW m \in NpManagers, stopLocked(m) PROVE IInv'
<1> DEFINE s == [np[m] EXCEPT !.cmd = 0, !.child = np[m].cmd, !.pc = IF np[m].cmd = 0 THEN "stopped" ELSE "stopping"]
<1>1. np[m].pc = "stop" /\ UNCHANGED <<npch, npres, npext>> /\ np' = [np EXCEPT ![m] = s]
    BY DEF stopLocked, IInv, Shape
<1>2. /\ DOMAIN s = Fields /\ s.cmd = 0 /\ s.child = np[m].cmd /\ s.port = np[m].port
      /\ s.pc = IF np[m].cmd = 0 THEN "stopped" ELSE "stopping"
    BY ManagerFields DEF Fields
<1> HIDE DEF s
<1>3. Moves(m) /\ np'[m] = s BY <1>1, <1>2, MovesBy
<1>4. PortMoves(m) BY <1>1, <1>2, <1>3 DEF PortMoves
<1>5. s.pc = "stopping" => s.child \in DOMAIN npch /\ npch[s.child].of = m BY <1>2, ManagerFields DEF Own
<1>6. ASSUME NEW k \in DOMAIN npch, npch[k].of = m, npch[k].alive, ~npch'[k].killed
      PROVE  s.pc = "stopping" /\ s.child = k
    <2>1. np[m].cmd = k BY <1>1, <1>6, Orphans
    <2>2. k # 0
        <3>1. Len(npch) \in Nat /\ DOMAIN npch = 1 .. Len(npch) BY SeqDomain DEF IInv, Shape
        <3>2. QED BY <3>1
    <2>3. QED BY <1>2, <2>1, <2>2
<1>7. Marks BY <1>1, SameMarks
<1>8. QED BY <1>1, <1>2, <1>3, <1>4, <1>5, <1>6, <1>7, Drops

\* The three ways in which processcontrol.Stop returns.
LEMMA StoppedKeeps ==
    ASSUME NpInputs, IInv, NEW m \in NpManagers, StopExited(m) \/ StopTimedOut(m)
    PROVE  IInv'
<1> DEFINE s == [np[m] EXCEPT !.pc = "stopped", !.child = 0]
           c == np[m].child
<1>1. /\ np[m].pc = "stopping" /\ UNCHANGED <<npres, npext>> /\ np' = [np EXCEPT ![m] = s]
      /\ (UNCHANGED npch /\ ~npch[c].alive) \/ npch' = Killed(c)
    BY DEF StopExited, StopTimedOut, IInv, Shape
<1>2. c \in DOMAIN npch /\ np[m].cmd = 0 BY <1>1, ManagerFields DEF Own
<1>3. DOMAIN s = Fields /\ s.cmd = 0 /\ s.port = np[m].port /\ s.pc = "stopped" BY <1>2, ManagerFields DEF Fields
<1> HIDE DEF s
<1>4. Moves(m) /\ np'[m] = s BY <1>1, <1>3, MovesBy
<1>5. PortMoves(m) BY <1>1, <1>3, <1>4 DEF PortMoves
<1>6. Marks /\ (npch'[c].killed \/ ~npch[c].alive) BY <1>1, <1>2, SameMarks, KillMarks
<1>7. ASSUME NEW k \in DOMAIN npch, npch[k].of = m, npch[k].alive, ~npch'[k].killed PROVE FALSE
    <2>1. ~npch[k].killed BY <1>6, <1>7 DEF Marks
    <2>2. k = c \/ k = 0 BY <1>2, <1>7, <2>1, Orphans
    <2>3. k # 0
        <3>1. Len(npch) \in Nat /\ DOMAIN npch = 1 .. Len(npch) BY SeqDomain DEF IInv, Shape
        <3>2. QED BY <3>1
    <2>4. QED BY <1>6, <1>7, <2>2, <2>3
<1>8. QED BY <1>1, <1>3, <1>4, <1>5, <1>6, <1>7, Drops

LEMMA LeaveFields ==
    ASSUME IInv, NEW m \in NpManagers, Leave(m)
    PROVE  /\ Moves(m) /\ PortMoves(m) /\ np'[m].pc = "idle" /\ np'[m].cmd = np[m].cmd
           /\ np'[m].answered = np[m].answered /\ np'[m].file = np[m].file
<1> DEFINE p == IF np[m].closed THEN AfterRelease(m) ELSE np[m].port
           s == [Idle(np[m]) EXCEPT !.port = p]
<1>1. np' = [np EXCEPT ![m] = s] /\ npres' = IF np[m].closed THEN Release(m) ELSE npres
    BY DEF Leave
<1>2. \/ p = AfterRelease(m) /\ npres' = Release(m)
      \/ p = np[m].port /\ npres' = npres
    BY <1>1
<1> HIDE DEF p
<1>3. /\ DOMAIN s = Fields /\ s.pc = "idle" /\ s.cmd = np[m].cmd /\ s.port = p
      /\ s.answered = np[m].answered /\ s.file = np[m].file
    BY ManagerFields DEF Fields, Idle
<1> HIDE DEF s
<1>4. Moves(m) /\ np'[m] = s BY <1>1, <1>3, MovesBy
<1>5. QED BY <1>2, <1>3, <1>4 DEF PortMoves

LEMMA CancelledKeeps == ASSUME NpInputs, IInv, NEW m \in NpManagers, StopCancelled(m) PROVE IInv'
<1> DEFINE c == np[m].child
<1>1. np[m].pc = "stopping" /\ npch' = Killed(c) /\ Leave(m) /\ UNCHANGED npext BY DEF StopCancelled
<1>2. c \in DOMAIN npch /\ np[m].cmd = 0 BY <1>1, ManagerFields DEF Own
<1>3. Marks /\ npch'[c].killed BY <1>1, <1>2, KillMarks
<1>4. ASSUME NEW k \in DOMAIN npch, npch[k].of = m, npch[k].alive, ~npch'[k].killed PROVE FALSE
    <2>1. ~npch[k].killed BY <1>3, <1>4 DEF Marks
    <2>2. k = c \/ k = 0 BY <1>2, <1>4, <2>1, Orphans
    <2>3. k # 0
        <3>1. Len(npch) \in Nat /\ DOMAIN npch = 1 .. Len(npch) BY SeqDomain DEF IInv, Shape
        <3>2. QED BY <3>1
    <2>4. QED BY <1>3, <1>4, <2>2, <2>3
<1>5. QED BY <1>1, <1>2, <1>3, <1>4, LeaveFields, Drops

LEMMA StopDoneKeeps == ASSUME NpInputs, IInv, NEW m \in NpManagers, StopDone(m) PROVE IInv'
<1>1. np[m].pc = "stopped" /\ UNCHANGED <<npch, npext>> BY DEF StopDone
<1>2. np[m].cmd = 0 BY <1>1, ManagerFields DEF Own
<1>3. CASE np' = Goto(m, "release") /\ UNCHANGED npres
    <2>1. PortMoves(m) BY <1>3, GotoFields DEF PortMoves
    <2>2. QED BY <1>1, <1>2, <1>3, <2>1, GotoFields, Quiet
<1>4. CASE Leave(m) BY <1>1, <1>2, <1>4, LeaveFields, Quiet
<1>5. QED BY <1>3, <1>4 DEF StopDone

LEMMA ReleaseKeeps == ASSUME NpInputs, IInv, NEW m \in NpManagers, WaitForRelease(m) PROVE IInv'
<1>1. np[m].pc = "release" /\ UNCHANGED <<npch, npres, npext>> BY DEF WaitForRelease
<1>2. np[m].cmd = 0 BY <1>1, ManagerFields DEF Own
<1>3. CASE np' = Goto(m, "spawn")
    <2>1. PortMoves(m) BY <1>1, <1>3, GotoFields DEF PortMoves
    <2>2. QED BY <1>1, <1>2, <1>3, <2>1, GotoFields, Quiet
<1>4. CASE np' = Return(m)
    <2>1. PortMoves(m) BY <1>1, <1>4, ReturnFields DEF PortMoves
    <2>2. QED BY <1>1, <1>2, <1>4, <2>1, ReturnFields, Quiet
<1>5. QED BY <1>3, <1>4 DEF WaitForRelease

(* -------------------------------- starting ------------------------------- *)
\* An attempt that fails before the process runs keeps what it reserved.
LEMMA SpawnFails ==
    ASSUME NpInputs, IInv, NEW m \in NpManagers, np[m].pc = "spawn", UNCHANGED <<npch, npext>>,
           NEW r \in Reserved(m) \cup Unreserved(m),
           np' = [np EXCEPT ![m] = [Idle(@) EXCEPT !.port = r[1]]], npres' = r[2]
    PROVE  IInv'
<1> DEFINE s == [Idle(np[m]) EXCEPT !.port = r[1]]
<1>1. np' = [np EXCEPT ![m] = s] OBVIOUS
<1>2. /\ DOMAIN s = Fields /\ s.port = r[1] /\ s.pc = "idle" /\ s.cmd = np[m].cmd
      /\ s.answered = np[m].answered /\ s.file = np[m].file
    BY ManagerFields DEF Fields, Idle
<1> HIDE DEF s
<1>3. Moves(m) /\ np'[m] = s BY <1>1, <1>2, MovesBy
<1>4. PortMoves(m) BY <1>2, <1>3, Pairs DEF PortMoves
<1>5. np[m].cmd = 0 BY ManagerFields DEF Own
<1>6. QED BY <1>2, <1>3, <1>4, <1>5, Quiet

\* A process starts on a port where nobody listens.
LEMMA SpawnStarts ==
    ASSUME NpInputs, IInv, NEW m \in NpManagers, np[m].pc = "spawn", UNCHANGED npext,
           NEW r \in Reserved(m), CheckAvailable(r[1]), npres' = r[2],
           npch' = Append(npch, [of |-> m, cfg |-> np[m].want, port |-> r[1],
                                 alive |-> TRUE, bound |-> FALSE, killed |-> FALSE]),
           np' = [np EXCEPT ![m].port = r[1], ![m].cmd = Len(npch) + 1, ![m].file = np[m].want,
                            ![m].attempt = @ + 1, ![m].answered = 0, ![m].pc = "wait"]
    PROVE  IInv'
<1> DEFINE s == [np[m] EXCEPT !.port = r[1], !.cmd = Len(npch) + 1, !.file = np[m].want,
                              !.attempt = @ + 1, !.answered = 0, !.pc = "wait"]
           e == [of |-> m, cfg |-> np[m].want, port |-> r[1], alive |-> TRUE, bound |-> FALSE, killed |-> FALSE]
           j == Len(npch) + 1
<1>1. np' = [np EXCEPT ![m] = s] BY DEF IInv, Shape
<1>2. /\ DOMAIN s = Fields /\ s.port = r[1] /\ s.pc = "wait" /\ s.cmd = j /\ s.answered = 0 /\ s.file = np[m].want
    BY ManagerFields DEF Fields
<1>3. /\ DOMAIN e = Proc /\ e.of = m /\ e.cfg = np[m].want /\ e.port = r[1] /\ e.alive /\ ~e.bound /\ ~e.killed
    BY DEF Proc
<1>4. npch' = Append(npch, e) OBVIOUS
<1> HIDE DEF s, e
<1>5. Moves(m) /\ np'[m] = s BY <1>1, <1>2, MovesBy
<1>6. PortMoves(m) BY <1>2, <1>5, Pairs DEF PortMoves
<1>7. /\ IsSeq(npch') /\ DOMAIN npch' = DOMAIN npch \cup {j} /\ j \notin DOMAIN npch /\ j # 0
      /\ npch'[j] = e /\ \A k \in DOMAIN npch : npch'[k] = npch[k]
    BY <1>4, AppendSeq DEF IInv, Shape
<1> HIDE DEF j
<1>8. \A n \in NpManagers : n # m => np'[n] = np[n] BY <1>5 DEF Moves
<1>9. r[1] # 0
    <2>1. Keeps(m) => np[m].port # 0 BY DEF Keeps, IInv, Holds, Dynamic
    <2>2. QED BY <2>1 DEF Reserved, Allocatable, NpInputs
<1>10. Shape' BY <1>3, <1>5, <1>7 DEF IInv, Shape, Moves
<1>11. ASSUME NEW n \in NpManagers PROVE Own(n)'
    <2>1. CASE n = m BY <1>2, <1>3, <1>5, <1>7, <2>1 DEF Own
    <2>2. CASE n # m
        <3>1. np'[n] = np[n] /\ Own(n) BY <1>8, <2>2, ManagerFields
        <3>2. QED BY <1>7, <3>1 DEF Own
    <2>3. QED BY <2>1, <2>2
<1>12. \A p : Listener(p)' = Listener(p) BY <1>3, <1>7 DEF Listener
<1>13. \A k \in DOMAIN npch : npch[k].of = m /\ npch[k].alive => npch[k].killed
    <2>1. SUFFICES ASSUME NEW k \in DOMAIN npch, npch[k].of = m, npch[k].alive, ~npch[k].killed PROVE FALSE OBVIOUS
    <2>2. np[m].cmd = k /\ np[m].cmd = 0 BY <2>1, Orphans, ManagerFields DEF Own
    <2>3. Len(npch) \in Nat /\ DOMAIN npch = 1 .. Len(npch) BY SeqDomain DEF IInv, Shape
    <2>4. QED BY <2>1, <2>2, <2>3
<1>14. ForgottenIsKilled'
    <2>1. SUFFICES ASSUME NEW k \in DOMAIN npch', npch'[k].alive, ~npch'[k].killed
                   PROVE  LET n == npch'[k].of IN
                          np'[n].cmd = k \/ (np'[n].pc = "stopping" /\ np'[n].child = k)
        BY DEF ForgottenIsKilled
    <2>2. CASE k = j BY <1>2, <1>3, <1>5, <1>7, <2>2
    <2>3. CASE k # j
        <3>1. k \in DOMAIN npch /\ npch'[k] = npch[k] BY <1>7, <2>3
        <3>2. npch[k].of \in NpManagers /\ npch[k].of # m BY <1>13, <2>1, <3>1 DEF IInv, Shape
        <3>3. LET n == npch[k].of IN np[n].cmd = k \/ (np[n].pc = "stopping" /\ np[n].child = k)
            BY <2>1, <3>1 DEF IInv, ForgottenIsKilled
        <3>4. QED BY <1>8, <3>1, <3>2, <3>3
    <2>4. QED BY <2>2, <2>3
<1>15. Undisturbed'
    <2>1. SUFFICES ASSUME npext.ever = {} PROVE MayBind' /\ Listens' /\ Answers' BY DEF Undisturbed
    <2>2. MayBind /\ Listens /\ Answers BY <2>1 DEF IInv, Undisturbed
    <2>3. MayBind'
        <3>1. SUFFICES ASSUME NEW k \in DOMAIN npch', npch'[k].alive, ~npch'[k].bound, ~npch'[k].killed
                       PROVE  LET n == npch'[k].of IN np'[n].cmd = k /\ np'[n].pc = "wait" /\ npch'[k].port = np'[n].port
            BY DEF MayBind
        <3>2. CASE k = j BY <1>2, <1>3, <1>5, <1>7, <3>2
        <3>3. CASE k # j
            <4>1. k \in DOMAIN npch /\ npch'[k] = npch[k] BY <1>7, <3>3
            <4>2. npch[k].of \in NpManagers /\ npch[k].of # m BY <1>13, <3>1, <4>1 DEF IInv, Shape
            <4>3. LET n == npch[k].of IN np[n].cmd = k /\ np[n].pc = "wait" /\ npch[k].port = np[n].port
                BY <2>2, <3>1, <4>1 DEF MayBind
            <4>4. QED BY <1>8, <4>1, <4>2, <4>3
        <3>4. QED BY <3>2, <3>3
    <2>4. Listens'
        <3>1. Listener(r[1]) = {} BY DEF CheckAvailable, Bound
        <3>2. QED BY <1>2, <1>5, <1>8, <1>9, <1>12, <2>2, <3>1 DEF Listens
    <2>5. Answers' BY <1>2, <1>5, <1>8, <2>2 DEF Answers
    <2>6. QED BY <2>3, <2>4, <2>5
<1>16. QED BY <1>5, <1>6, <1>10, <1>11, <1>14, <1>15, PortsKept DEF IInv

LEMMA SpawnKeeps == ASSUME NpInputs, IInv, NEW m \in NpManagers, spawnLocked(m) PROVE IInv'
    BY SpawnFails, SpawnStarts DEF spawnLocked

\* While nobody else takes ports, the probe is answered by the process it asks about.
LEMMA HealthyKeeps == ASSUME NpInputs, IInv, NEW m \in NpManagers, BecomesHealthy(m) PROVE IInv'
<1> DEFINE a == IF Listener(np[m].port) = {} THEN np[m].cmd ELSE CHOOSE k \in Listener(np[m].port) : TRUE
           s == [Idle(np[m]) EXCEPT !.answered = a]
<1>1. np[m].pc = "wait" /\ healthy(m) /\ UNCHANGED <<npch, npres, npext>> BY DEF BecomesHealthy
<1>2. np' = [np EXCEPT ![m] = s]
    <2>1. DOMAIN np = NpManagers BY DEF IInv, Shape
    <2>2. np' = [[np EXCEPT ![m] = Idle(np[m])] EXCEPT ![m].answered = a] BY DEF BecomesHealthy, Return
    <2> HIDE DEF a
    <2>3. QED BY <2>1, <2>2
<1>3. a = np[m].cmd \/ a \in Listener(np[m].port) OBVIOUS
<1> HIDE DEF a
<1>4. DOMAIN s = Fields /\ s.pc = "idle" /\ s.cmd = np[m].cmd /\ s.port = np[m].port /\ s.file = np[m].file /\ s.answered = a
    BY ManagerFields DEF Fields, Idle
<1> HIDE DEF s
<1>5. Moves(m) /\ np'[m] = s BY <1>2, <1>4, MovesBy
<1>6. PortMoves(m) BY <1>1, <1>4, <1>5 DEF PortMoves
<1>7. Marks BY <1>1, SameMarks
<1>8. /\ Shape' /\ \A n \in NpManagers : n # m => Own(n)'
      /\ \A p : Listener(p)' = Listener(p)
    BY <1>1, <1>5, <1>7, OthersKept
<1>9. Own(m)'
    <2>1. Own(m) BY DEF IInv
    <2>2. QED BY <1>1, <1>4, <1>5, <2>1 DEF Own
<1>10. \A n \in NpManagers : n # m => np'[n] = np[n] BY <1>5 DEF Moves
<1>11. ForgottenIsKilled'
    <2>1. SUFFICES ASSUME NEW k \in DOMAIN npch, npch[k].alive
                   PROVE  LET n == npch[k].of IN
                          np'[n].cmd = k \/ npch[k].killed \/ (np'[n].pc = "stopping" /\ np'[n].child = k)
        BY <1>1 DEF ForgottenIsKilled
    <2>2. /\ npch[k].of \in NpManagers
          /\ LET n == npch[k].of IN np[n].cmd = k \/ npch[k].killed \/ (np[n].pc = "stopping" /\ np[n].child = k)
        BY <2>1 DEF IInv, Shape, ForgottenIsKilled
    <2>3. QED BY <1>1, <1>4, <1>5, <1>10, <2>2
<1>12. Undisturbed'
    <2>1. SUFFICES ASSUME npext.ever = {} PROVE MayBind' /\ Listens' /\ Answers' BY <1>1 DEF Undisturbed
    <2>2. MayBind /\ Listens /\ Answers BY <2>1 DEF IInv, Undisturbed
    <2>3. Listener(np[m].port) # {} BY <1>1, <2>1 DEF healthy, Bound, IInv, Shape
    <2>4. Listener(np[m].port) = {np[m].cmd} BY <1>1, <2>2, <2>3 DEF Listens
    <2>5. npch[np[m].cmd].bound BY <2>4 DEF Listener
    <2>6. a = np[m].cmd BY <1>3, <2>4
    <2>7. MayBind'
        <3>1. SUFFICES ASSUME NEW k \in DOMAIN npch, npch[k].alive, ~npch[k].bound, ~npch[k].killed
                       PROVE  LET n == npch[k].of IN np'[n].cmd = k /\ np'[n].pc = "wait" /\ npch[k].port = np'[n].port
            BY <1>1 DEF MayBind
        <3>2. /\ npch[k].of \in NpManagers
              /\ LET n == npch[k].of IN np[n].cmd = k /\ np[n].pc = "wait" /\ npch[k].port = np[n].port
            BY <2>2, <3>1 DEF MayBind, IInv, Shape
        <3>3. npch[k].of # m BY <2>5, <3>1, <3>2
        <3>4. QED BY <1>10, <3>2, <3>3
    <2>8. Listens' BY <1>4, <1>5, <1>8, <1>10, <2>2 DEF Listens
    <2>9. Answers' BY <1>4, <1>5, <1>10, <2>2, <2>6 DEF Answers
    <2>10. QED BY <2>7, <2>8, <2>9
<1>13. QED BY <1>5, <1>6, <1>8, <1>9, <1>11, <1>12, PortsKept DEF IInv

\* A start that fails: the process is dead, or killed, before it is forgotten.
LEMMA StartFails ==
    ASSUME NpInputs, IInv, NEW m \in NpManagers, StartExited(m) \/ StartTimedOut(m)
    PROVE  IInv'
<1> DEFINE c == np[m].cmd
           again == [Forgotten(m) EXCEPT !.port = 0, !.pc = "spawn"]
           ends == Idle(Forgotten(m))
<1>1. /\ np[m].pc = "wait" /\ UNCHANGED npext
      /\ (UNCHANGED npch /\ ~npch[c].alive) \/ npch' = Killed(c)
    BY DEF StartExited, StartTimedOut
<1>2. \/ np' = [np EXCEPT ![m] = again] /\ npres' = Release(m) /\ Dynamic(m)
      \/ np' = [np EXCEPT ![m] = ends] /\ npres' = npres
    BY DEF StartExited, StartTimedOut
<1>3. c \in DOMAIN npch /\ c # 0 BY <1>1, ManagerFields DEF Own
<1>4. /\ DOMAIN again = Fields /\ again.cmd = 0 /\ again.port = 0 /\ again.pc = "spawn"
      /\ DOMAIN ends = Fields /\ ends.cmd = 0 /\ ends.port = np[m].port /\ ends.pc = "idle"
    BY ManagerFields DEF Fields, Forgotten, Idle
<1> HIDE DEF again, ends
<1>5. Moves(m) /\ (np'[m] = again \/ np'[m] = ends) BY <1>2, <1>4, MovesBy
<1>6. PortMoves(m)
    <2>1. CASE np' = [np EXCEPT ![m] = again] /\ npres' = Release(m) /\ Dynamic(m)
        BY <1>4, <2>1, MovesBy DEF PortMoves, AfterRelease
    <2>2. CASE np' = [np EXCEPT ![m] = ends] /\ npres' = npres BY <1>4, <2>2, MovesBy DEF PortMoves
    <2>3. QED BY <1>2, <2>1, <2>2
<1>7. Marks /\ (npch'[c].killed \/ ~npch[c].alive) BY <1>1, <1>3, SameMarks, KillMarks
<1>8. ASSUME NEW k \in DOMAIN npch, npch[k].of = m, npch[k].alive, ~npch'[k].killed PROVE FALSE
    <2>1. ~npch[k].killed BY <1>7, <1>8 DEF Marks
    <2>2. k = c BY <1>1, <1>8, <2>1, Orphans
    <2>3. QED BY <1>7, <1>8, <2>2
<1>9. np'[m].cmd = 0 /\ np'[m].pc \in {"spawn", "idle"} BY <1>4, <1>5
<1>10. QED BY <1>1, <1>5, <1>6, <1>7, <1>8, <1>9, Drops

(* -------------------------- processes and ports -------------------------- *)
\* A process binds, or dies; the manager that waits where it binds is its own.
LEMMA BindKeeps == ASSUME NpInputs, IInv, NEW k \in DOMAIN npch, Bind(k) \/ Exit(k) PROVE IInv'
<1> DEFINE dead == [npch[k] EXCEPT !.alive = FALSE]
           up == [npch[k] EXCEPT !.bound = TRUE]
<1>1. /\ npch[k].alive /\ UNCHANGED <<np, npres, npext>>
      /\ \/ npch' = [npch EXCEPT ![k] = dead]
         \/ /\ npch' = [npch EXCEPT ![k] = up] /\ ~npch[k].bound /\ ~npch[k].killed
    BY DEF Bind, Exit
<1>2. /\ DOMAIN dead = Proc /\ dead.of = npch[k].of /\ dead.cfg = npch[k].cfg /\ dead.port = npch[k].port
      /\ ~dead.alive /\ (dead.bound <=> npch[k].bound) /\ (dead.killed <=> npch[k].killed)
    BY DEF IInv, Shape, Proc
<1>3. /\ DOMAIN up = Proc /\ up.of = npch[k].of /\ up.cfg = npch[k].cfg /\ up.port = npch[k].port
      /\ (up.alive <=> npch[k].alive) /\ up.bound /\ (up.killed <=> npch[k].killed)
    BY DEF IInv, Shape, Proc
<1> HIDE DEF dead, up
<1>4. IsSeq(npch) BY DEF IInv, Shape
<1>5. /\ IsSeq(npch') /\ DOMAIN npch' = DOMAIN npch
      /\ \A i \in DOMAIN npch : i # k => npch'[i] = npch[i]
      /\ npch'[k] = dead \/ (npch'[k] = up /\ ~npch[k].bound /\ ~npch[k].killed)
    BY <1>1, <1>4, ReplaceSeq
<1>6. \A i \in DOMAIN npch :
          /\ DOMAIN npch'[i] = Proc
          /\ npch'[i].of = npch[i].of /\ npch'[i].cfg = npch[i].cfg /\ npch'[i].port = npch[i].port
          /\ npch'[i].killed <=> npch[i].killed
          /\ npch'[i].alive => npch[i].alive
          /\ npch[i].bound => npch'[i].bound
    BY <1>2, <1>3, <1>5 DEF IInv, Shape
<1>7. Shape' BY <1>1, <1>5, <1>6 DEF IInv, Shape
<1>8. ASSUME NEW n \in NpManagers PROVE Own(n)'
    <2>1. Own(n) BY DEF IInv
    <2>2. QED BY <1>1, <1>5, <1>6, <2>1 DEF Own
<1>9. ASSUME NEW n \in NpManagers PROVE Holds(n)'
    <2>1. Holds(n) BY DEF IInv
    <2>2. QED BY <1>1, <2>1 DEF Holds, Dynamic
<1>10. PortsDistinct' BY <1>1 DEF IInv, PortsDistinct
<1>11. ForgottenIsKilled' BY <1>1, <1>5, <1>6 DEF IInv, Shape, ForgottenIsKilled
<1>12. Undisturbed'
    <2>1. SUFFICES ASSUME npext.ever = {} PROVE MayBind' /\ Listens' /\ Answers' BY <1>1 DEF Undisturbed
    <2>2. MayBind /\ Listens /\ Answers BY <2>1 DEF IInv, Undisturbed
    <2>3. MayBind' BY <1>1, <1>5, <1>6, <2>2 DEF MayBind
    <2>4. Answers' BY <1>1, <2>2 DEF Answers
    <2>5. ASSUME NEW n \in NpManagers, np[n].pc = "wait"
          PROVE  np[n].port # 0 /\ \A i \in DOMAIN npch :
                     npch'[i].alive /\ npch'[i].bound /\ npch'[i].port = np[n].port => i = np[n].cmd
        <3>1. np[n].port # 0 /\ Listener(np[n].port) \subseteq {np[n].cmd} BY <2>2, <2>5 DEF Listens
        <3>2. SUFFICES ASSUME NEW i \in DOMAIN npch, npch'[i].alive, npch'[i].bound, npch'[i].port = np[n].port
                       PROVE  i = np[n].cmd
            BY <3>1
        <3>3. npch[i].alive /\ npch[i].port = np[n].port BY <1>6, <3>2
        <3>4. CASE npch[i].bound BY <3>1, <3>3, <3>4 DEF Listener
        <3>5. CASE ~npch[i].bound
            <4>1. i = k BY <1>5, <3>2, <3>5
            <4>2. npch'[k] = up BY <1>2, <1>5, <3>2, <3>5, <4>1
            <4>3. ~npch[k].bound /\ ~npch[k].killed
                <5>1. dead # up BY <1>1, <1>2, <1>3
                <5>2. QED BY <1>5, <4>2, <5>1
            <4>4. /\ npch[k].of \in NpManagers
                  /\ np[npch[k].of].cmd = k /\ npch[k].port = np[npch[k].of].port
                BY <1>1, <2>2, <4>3 DEF MayBind, IInv, Shape
            <4>5. npch[k].of = n BY <3>1, <3>3, <4>1, <4>4 DEF IInv, PortsDistinct
            <4>6. QED BY <4>1, <4>4, <4>5
        <3>6. QED BY <3>4, <3>5
    <2>6. Listens' BY <1>1, <1>5, <2>5 DEF Listens, Listener
    <2>7. QED BY <2>3, <2>4, <2>6
<1>13. QED BY <1>7, <1>8, <1>9, <1>10, <1>11, <1>12 DEF IInv

\* Another program takes a port: from then on nothing is said about who answers.
LEMMA SquatKeeps == ASSUME IInv, NEW p, Squat(p) PROVE IInv'
<1>1. /\ npext' = [now |-> npext.now \cup {p}, ever |-> npext.ever \cup {p}]
      /\ UNCHANGED <<np, npch, npres>>
    BY DEF Squat
<1>2. npext'.ever # {} /\ npext'.now \subseteq npext'.ever BY <1>1 DEF IInv, Shape
<1>3. Shape' BY <1>1, <1>2 DEF IInv, Shape
<1>4. ASSUME NEW n \in NpManagers PROVE Own(n)' /\ Holds(n)'
    <2>1. Own(n) /\ Holds(n) BY DEF IInv
    <2>2. QED BY <1>1, <2>1 DEF Own, Holds, Dynamic
<1>5. PortsDistinct' /\ ForgottenIsKilled' BY <1>1 DEF IInv, PortsDistinct, ForgottenIsKilled
<1>6. Undisturbed' BY <1>2 DEF Undisturbed
<1>7. QED BY <1>3, <1>4, <1>5, <1>6 DEF IInv

(* ------------------------------ the theorem ------------------------------ *)
LEMMA StutterKeeps == ASSUME IInv, UNCHANGED npvars PROVE IInv'
<1>1. UNCHANGED np /\ UNCHANGED npch /\ UNCHANGED npres /\ UNCHANGED npext BY DEF npvars
<1>2. Shape' BY <1>1 DEF IInv, Shape
<1>3. ASSUME NEW n \in NpManagers PROVE Own(n)' /\ Holds(n)'
    <2>1. Own(n) /\ Holds(n) BY DEF IInv
    <2>2. QED BY <1>1, <2>1 DEF Own, Holds, Dynamic
<1>4. PortsDistinct' /\ ForgottenIsKilled' BY <1>1 DEF IInv, PortsDistinct, ForgottenIsKilled
<1>5. Undisturbed' BY <1>1 DEF IInv, Undisturbed, MayBind, Listens, Answers, Listener
<1>6. QED BY <1>2, <1>3, <1>4, <1>5 DEF IInv

LEMMA InitHolds == ASSUME NpInputs, Init PROVE IInv
<1>1. npch = <<>> /\ npres = {} /\ npext = [now |-> {}, ever |-> {}] BY DEF Init
<1>2. DOMAIN npch = {} BY <1>1
<1>3. ASSUME NEW m \in NpManagers
      PROVE  /\ DOMAIN np[m] = Fields /\ np[m].port = NpPinned[m] /\ np[m].cmd = 0 /\ np[m].pc = "idle"
    <2>1. np[m] = [port |-> NpPinned[m], file |-> None, cmd |-> 0, pc |-> "idle", want |-> None,
                   child |-> 0, attempt |-> 0, answered |-> 0, calls |-> 0, closed |-> FALSE]
        BY DEF Init
    <2>2. QED BY <2>1 DEF Fields
<1>4. Shape
    <2>1. IsSeq(npch) BY <1>1, <1>2 DEF IsSeq
    <2>2. DOMAIN np = NpManagers BY DEF Init
    <2>3. npext.now \subseteq npext.ever BY <1>1
    <2>4. QED BY <1>2, <1>3, <2>1, <2>2, <2>3 DEF Shape
<1>5. ASSUME NEW m \in NpManagers PROVE Own(m) /\ Holds(m) BY <1>3 DEF Own, Holds, Dynamic
<1>6. PortsDistinct BY <1>3 DEF PortsDistinct, NpInputs
<1>7. ForgottenIsKilled BY <1>2 DEF ForgottenIsKilled
<1>8. Undisturbed BY <1>2, <1>3 DEF Undisturbed, MayBind, Listens, Answers
<1>9. QED BY <1>4, <1>5, <1>6, <1>7, <1>8 DEF IInv

LEMMA NextKeeps == ASSUME NpInputs, IInv, [Next]_npvars PROVE IInv'
<1>1. ASSUME NEW m \in NpManagers, ManagerStep(m) PROVE IInv'
    BY <1>1, ArgumentsKeeps, StopKeeps, StoppedKeeps, CancelledKeeps, StopDoneKeeps, ReleaseKeeps, SpawnKeeps,
       HealthyKeeps, StartFails DEF ManagerStep
<1>2. ASSUME NEW m \in NpManagers, Restart(m) PROVE IInv' BY <1>2, CallKeeps DEF Restart
<1>3. ASSUME NEW m \in NpManagers, NEW f \in NpConfigs, ReloadConfig(m, f) PROVE IInv'
    BY <1>3, CallKeeps DEF ReloadConfig
<1>4. ASSUME NEW m \in NpManagers, NEW closing \in BOOLEAN, Unload(m, closing) PROVE IInv' BY <1>4, UnloadKeeps
<1>5. ASSUME NEW k \in DOMAIN npch, Bind(k) \/ Exit(k) PROVE IInv' BY <1>5, BindKeeps
<1>6. ASSUME NEW p \in NpPorts, Squat(p) PROVE IInv' BY <1>6, SquatKeeps
<1>7. CASE UNCHANGED npvars BY <1>7, StutterKeeps
<1>8. QED BY <1>1, <1>2, <1>3, <1>4, <1>5, <1>6, <1>7 DEF Next

\* However reloads, restarts, unloads, cancelled stops, failed starts, exits
\* and other programs interleave, for any managers, ports and configs: a
\* process that runs and that no manager knows was killed or is being stopped;
\* no two managers have one port; and while no other program has taken a port,
\* a manager that found its endpoint healthy was answered by its own process,
\* which runs the config the manager names.
THEOREM ProcessesAreSafe == NpInputs => (Spec => []ProcessSafe)
<1> SUFFICES ASSUME NpInputs PROVE Spec => []ProcessSafe
    OBVIOUS
<1>1. Init => IInv BY InitHolds
<1>2. IInv /\ [Next]_npvars => IInv' BY NextKeeps
<1>3. IInv => ProcessSafe
    <2>1. SUFFICES ASSUME IInv PROVE AnsweredByOwn BY DEF IInv, ProcessSafe
    <2>2. QED BY <2>1 DEF IInv, Undisturbed, Answers, AnsweredByOwn, Own
<1>4. QED BY <1>1, <1>2, <1>3, PTL DEF Spec

=============================================================================
