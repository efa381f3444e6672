------------------------------ MODULE HashStore ------------------------------
(***************************************************************************)
(* The cache of file hashes behind the catalog (internal/catalog/hash.go). *)
(* A hash is computed over minutes outside the lock and recorded with the  *)
(* size and time the file had before; a scan drops what no config names    *)
(* any more; the cache is written behind a timer, by one flush at a time,  *)
(* while calls go on changing it.                                          *)
(***************************************************************************)
EXTENDS Naturals, FiniteSets

CONSTANTS
    HsPaths, HsContents,
    HsCallers,              \* callers of HashFile beside the scan
    HsMaxWrites,            \* bound on how often files are written
    HsMaxCalls,             \* bound on the hashes recorded in one life of the process
    HsMaxFaults             \* bound on failed writes and crashes

VARIABLES
    hsfile,   \* path -> [stat, hash]; stat stands for size and time, 0 for no file
    hs,       \* [cache, seen, dirty, revision, timer, flush, failed]
    hsdisk,   \* path -> the record in hash-cache.json
    hscall,   \* caller -> a HashFile in progress
    hsscan,   \* [on, left]: the catalog's refresh and the paths it has yet to hash
    hshist    \* [writes, calls, faults]

hsvars == <<hsfile, hs, hsdisk, hscall, hsscan, hshist>>

NoRecord == [stat |-> 0, hash |-> "none"]
NoFlush == [on |-> FALSE]
NoCall == [pc |-> "idle"]
Scanner == "scan"
Everyone == HsCallers \cup {Scanner}

\* NewHashStore: what the file holds, or nothing.
Opened(disk) ==
    [cache |-> disk, seen |-> {}, dirty |-> FALSE, revision |-> 0, timer |-> FALSE, flush |-> NoFlush,
     failed |-> FALSE]

Init ==
    /\ hsfile \in [HsPaths -> {NoRecord} \cup {[stat |-> 1, hash |-> c] : c \in HsContents}]
    /\ hsdisk = [p \in HsPaths |-> NoRecord]
    /\ hs = Opened(hsdisk)
    /\ hscall = [c \in Everyone |-> NoCall]
    /\ hsscan = [on |-> FALSE, left |-> {}]
    /\ hshist = [writes |-> 1, calls |-> 0, faults |-> 0]

(* ------------------------------- HashFile ------------------------------- *)
\* markDirtyLocked, scheduleFlushLocked: one timer, started anew.
markDirtyLocked(store) ==
    [store EXCEPT !.dirty = TRUE, !.revision = @ + 1, !.timer = TRUE, !.failed = FALSE]

\* The file is looked at first; no file, no hash.
Stat(c, p) ==
    /\ hscall[c].pc = "idle"
    /\ IF c = Scanner THEN hsscan.on /\ p \in hsscan.left ELSE hshist.calls < HsMaxCalls
    /\ hscall' = [hscall EXCEPT ![c] =
           IF hsfile[p] = NoRecord THEN NoCall ELSE [pc |-> "lookup", path |-> p, stat |-> hsfile[p].stat]]
    /\ hsscan' = [hsscan EXCEPT !.left = IF c = Scanner THEN @ \ {p} ELSE @]
    /\ UNCHANGED <<hsfile, hs, hsdisk, hshist>>

\* Under the lock: a record of the same size and time answers.
Lookup(c) ==
    /\ hscall[c].pc = "lookup"
    /\ hs' = [hs EXCEPT !.seen = @ \cup {hscall[c].path}]
    /\ hscall' = [hscall EXCEPT ![c] =
           IF hs.cache[hscall[c].path].stat = hscall[c].stat THEN NoCall ELSE [hscall[c] EXCEPT !.pc = "read"]]
    /\ UNCHANGED <<hsfile, hsdisk, hsscan, hshist>>

\* hashFileContent, or what the asset index knows of the file as it is now.
hashFileContent(c) ==
    /\ hscall[c].pc = "read"
    /\ hscall' = [hscall EXCEPT ![c] =
           IF hsfile[hscall[c].path] = NoRecord THEN NoCall
           ELSE [pc |-> "record", path |-> hscall[c].path, stat |-> hscall[c].stat,
                 hash |-> hsfile[hscall[c].path].hash]]
    /\ UNCHANGED <<hsfile, hs, hsdisk, hsscan, hshist>>

\* Mutant: the file is looked at after it was hashed.
RecordOfLate(call) == [stat |-> hsfile[call.path].stat, hash |-> call.hash]

\* The record: the hash just computed under the size and time seen before.
RecordOf(call) == [stat |-> call.stat, hash |-> call.hash]

RecordHash(c) ==
    /\ hscall[c].pc = "record" /\ hshist.calls < HsMaxCalls
    /\ hs' = markDirtyLocked([hs EXCEPT !.cache[hscall[c].path] = RecordOf(hscall[c])])
    /\ hscall' = [hscall EXCEPT ![c] = NoCall]
    /\ hshist' = [hshist EXCEPT !.calls = @ + 1]
    /\ UNCHANGED <<hsfile, hsdisk, hsscan>>

(* --------------------------------- scans -------------------------------- *)
\* StartScan, for the paths the configs name at the time.
StartScan ==
    /\ ~hsscan.on
    /\ \E named \in SUBSET HsPaths : hsscan' = [on |-> TRUE, left |-> named]
    /\ hs' = [hs EXCEPT !.seen = {}]
    /\ UNCHANGED <<hsfile, hsdisk, hscall, hshist>>

\* FinishScan
FinishScan ==
    /\ hsscan.on /\ hsscan.left = {} /\ hscall[Scanner].pc = "idle" /\ hshist.calls < HsMaxCalls
    /\ LET kept == [p \in HsPaths |-> IF p \in hs.seen THEN hs.cache[p] ELSE NoRecord] IN
       /\ hs' = IF kept = hs.cache THEN hs ELSE markDirtyLocked([hs EXCEPT !.cache = kept])
       /\ hshist' = [hshist EXCEPT !.calls = IF kept = hs.cache THEN @ ELSE @ + 1]
    /\ hsscan' = [hsscan EXCEPT !.on = FALSE]
    /\ UNCHANGED <<hsfile, hsdisk, hscall>>

\* A refresh that fails never gets to FinishScan.
ScanFails ==
    /\ hsscan.on /\ hscall[Scanner].pc = "idle"
    /\ hsscan' = [on |-> FALSE, left |-> {}]
    /\ UNCHANGED <<hsfile, hs, hsdisk, hscall, hshist>>

(* --------------------------------- flush -------------------------------- *)
\* Flush, by the timer or at Close: a copy is taken under the lock.
Flush ==
    /\ ~hs.flush.on /\ (hs.timer \/ hs.dirty)
    /\ hs' = [hs EXCEPT !.timer = FALSE,
                        !.flush = IF hs.dirty THEN [on |-> TRUE, cache |-> hs.cache, revision |-> hs.revision]
                                  ELSE NoFlush]
    /\ UNCHANGED <<hsfile, hsdisk, hscall, hsscan, hshist>>

\* Clean only if nothing was recorded since the copy, else once more.
Flushed(store) ==
    LET dirty == store.revision # store.flush.revision IN
    [store EXCEPT !.dirty = dirty, !.timer = @ \/ dirty, !.flush = NoFlush]

persistCache ==
    /\ hs.flush.on
    /\ hsdisk' = hs.flush.cache
    /\ hs' = Flushed(hs)
    /\ UNCHANGED <<hsfile, hscall, hsscan, hshist>>

persistFails ==
    /\ hs.flush.on /\ hshist.faults < HsMaxFaults
    /\ hs' = [hs EXCEPT !.flush = NoFlush, !.failed = ~hs.timer]
    /\ hshist' = [hshist EXCEPT !.faults = @ + 1]
    /\ UNCHANGED <<hsfile, hsdisk, hscall, hsscan>>

(* ----------------------------- the environment -------------------------- *)
\* A file is written or removed; each write has a size or a time of its own.
WriteFile(p) ==
    /\ hshist.writes < HsMaxWrites
    /\ \E f \in {NoRecord} \cup {[stat |-> hshist.writes + 1, hash |-> x] : x \in HsContents} :
         hsfile' = [hsfile EXCEPT ![p] = f]
    /\ hshist' = [hshist EXCEPT !.writes = @ + 1]
    /\ UNCHANGED <<hs, hsdisk, hscall, hsscan>>

\* The process dies and is started again.
Restart ==
    /\ hshist.faults < HsMaxFaults
    /\ hs' = Opened(hsdisk)
    /\ hscall' = [c \in Everyone |-> NoCall]
    /\ hsscan' = [on |-> FALSE, left |-> {}]
    /\ hshist' = [hshist EXCEPT !.faults = @ + 1, !.calls = 0]
    /\ UNCHANGED <<hsfile, hsdisk>>

Next ==
    \/ \E c \in Everyone, p \in HsPaths : Stat(c, p)
    \/ \E c \in Everyone : Lookup(c) \/ hashFileContent(c) \/ RecordHash(c)
    \/ StartScan \/ FinishScan \/ ScanFails
    \/ Flush \/ persistCache \/ persistFails
    \/ \E p \in HsPaths : WriteFile(p)
    \/ Restart

Spec == Init /\ [][Next]_hsvars

(* ------------------------------ properties ------------------------------ *)
\* A record that HashFile would answer with, in memory or on disk, is the hash
\* of what the file holds, although the file may have been replaced while it
\* was hashed.
HashesRight ==
    \A p \in HsPaths : \A r \in {hs.cache[p], hsdisk[p]} :
        r.stat = hsfile[p].stat => r.hash = hsfile[p].hash

\* A cache that is not marked dirty is the one on disk: no flush takes for
\* written what was recorded while it wrote.
CleanIsSaved == ~hs.dirty => hsdisk = hs.cache

\* A dirty cache is being written, or a timer will write it, or the last write
\* failed and the next record or Close will.
DirtyIsScheduled == hs.dirty => hs.flush.on \/ hs.timer \/ hs.failed

HashStoreSafe == HashesRight /\ CleanIsSaved /\ DirtyIsScheduled
=============================================================================
