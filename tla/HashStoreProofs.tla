--------------------------- MODULE HashStoreProofs ---------------------------
(***************************************************************************)
(* The cache of file hashes answers with the hash of what the file holds,  *)
(* is on disk when it says so, and is never left dirty without somebody to *)
(* write it: for any paths, contents, callers, writes, failures and        *)
(* restarts.                                                               *)
(*                                                                         *)
(* The argument is about times: the size and time of a write are its own,  *)
(* so a record, a copy that is being written, or a hash that is still to   *)
(* be recorded, is either of the file as it is or of a time that does not  *)
(* come again.                                                             *)
(***************************************************************************)
EXTENDS HashStore, TLAPS

(* ------------------------- the inductive invariant ----------------------- *)
\* The variables are made of the parts the actions name.
Shape ==
    /\ hs = [cache |-> hs.cache, seen |-> hs.seen, dirty |-> hs.dirty, revision |-> hs.revision,
             timer |-> hs.timer, flush |-> hs.flush, failed |-> hs.failed]
    /\ hshist = [writes |-> hshist.writes, calls |-> hshist.calls, faults |-> hshist.faults]
    /\ hshist.writes \in Nat /\ hs.revision \in Nat
    /\ DOMAIN hsfile = HsPaths
    /\ DOMAIN hscall = Everyone

\* A file that exists has the time of a write that was made.
FilesKnown ==
    \A p \in HsPaths :
        /\ hsfile[p].stat \in Nat /\ hsfile[p].stat <= hshist.writes
        /\ hsfile[p] = NoRecord \/ hsfile[p].stat > 0

\* What may be said of p: of a time that has been, and right if that is the
\* time of the file.
Sound(r, p) ==
    /\ r.stat \in Nat /\ r.stat <= hshist.writes
    /\ r.stat = 0 => r.hash = "none"
    /\ r.stat = hsfile[p].stat => r.hash = hsfile[p].hash

\* A cache of sound records, one for each path.
SoundCache(f) == DOMAIN f = HsPaths /\ \A p \in HsPaths : Sound(f[p], p)

CachesSound == SoundCache(hs.cache) /\ SoundCache(hsdisk) /\ (hs.flush.on => SoundCache(hs.flush.cache))

\* A call that hashes, or has hashed, is of a time that has been, and what it is
\* about to record is sound.
CallsSound ==
    \A c \in Everyone :
        \/ hscall[c] = NoCall
        \/ /\ hscall[c].pc \in {"lookup", "read", "record"}
           /\ hscall[c] = [pc |-> hscall[c].pc, path |-> hscall[c].path, stat |-> hscall[c].stat]
              \/ hscall[c].pc = "record"
           /\ hscall[c].path \in HsPaths
           /\ hscall[c].stat \in Nat /\ hscall[c].stat > 0 /\ hscall[c].stat <= hshist.writes
           /\ hscall[c].pc = "record" => Sound(RecordOf(hscall[c]), hscall[c].path)

\* The copy that is being written is the cache until somebody changes it; a
\* cache that is clean is on disk.
FlushSound ==
    /\ hs.flush = NoFlush \/ (hs.flush.on /\ hs.flush.revision \in Nat)
    /\ hs.flush.on => hs.dirty /\ hs.flush.revision <= hs.revision
    /\ hs.flush.on /\ hs.flush.revision = hs.revision => hs.flush.cache = hs.cache

IInv == Shape /\ FilesKnown /\ CachesSound /\ CallsSound /\ FlushSound /\ CleanIsSaved /\ DirtyIsScheduled

(* --------------------------------- lemmas -------------------------------- *)
\* Where neither the files nor the times change, what is sound stays sound.
LEMMA SoundStays ==
    ASSUME UNCHANGED hsfile, hshist'.writes = hshist.writes
    PROVE  /\ FilesKnown => FilesKnown'
           /\ \A r : \A p : Sound(r, p)' <=> Sound(r, p)
           /\ \A f : SoundCache(f)' <=> SoundCache(f)
    BY DEF FilesKnown, Sound, SoundCache

\* A record of a call that is left alone stays as it was.
LEMMA OtherCallsStay ==
    ASSUME IInv, NEW c \in Everyone, NEW call,
           hscall' = [hscall EXCEPT ![c] = call],
           UNCHANGED hsfile, hshist'.writes = hshist.writes,
           \/ call = NoCall
           \/ /\ call.pc \in {"lookup", "read", "record"}
              /\ call = [pc |-> call.pc, path |-> call.path, stat |-> call.stat] \/ call.pc = "record"
              /\ call.path \in HsPaths
              /\ call.stat \in Nat /\ call.stat > 0 /\ call.stat <= hshist.writes
              /\ call.pc = "record" => Sound(RecordOf(call), call.path)
    PROVE  CallsSound' /\ DOMAIN hscall' = Everyone
<1>1. DOMAIN hscall = Everyone BY DEF IInv, Shape
<1>2. \A d \in Everyone : hscall'[d] = IF d = c THEN call ELSE hscall[d] BY <1>1
<1>3. \A r : \A p : Sound(r, p)' <=> Sound(r, p) BY SoundStays
<1>4. SUFFICES ASSUME NEW d \in Everyone
               PROVE  \/ hscall'[d] = NoCall
                      \/ /\ hscall'[d].pc \in {"lookup", "read", "record"}
                         /\ hscall'[d] = [pc |-> hscall'[d].pc, path |-> hscall'[d].path, stat |-> hscall'[d].stat]
                            \/ hscall'[d].pc = "record"
                         /\ hscall'[d].path \in HsPaths
                         /\ hscall'[d].stat \in Nat /\ hscall'[d].stat > 0 /\ hscall'[d].stat <= hshist'.writes
                         /\ hscall'[d].pc = "record" => Sound(RecordOf(hscall'[d]), hscall'[d].path)
    BY <1>1, <1>3 DEF CallsSound, RecordOf, Sound
<1>5. CASE d = c BY <1>2, <1>5
<1>6. CASE d # c BY <1>2, <1>6 DEF IInv, CallsSound
<1>7. QED BY <1>5, <1>6

\* Calls that are left alone, or all forgotten.
LEMMA CallsStay ==
    ASSUME IInv, UNCHANGED <<hsfile, hscall>>, hshist'.writes = hshist.writes
    PROVE  CallsSound'
<1>1. \A r : \A p : Sound(r, p)' <=> Sound(r, p) BY SoundStays
<1>2. QED BY <1>1 DEF IInv, CallsSound, RecordOf, Sound

\* Steps that leave the store, the disk and the files alone.
LEMMA StoreStays ==
    ASSUME IInv, UNCHANGED <<hsfile, hs, hsdisk>>, hshist'.writes = hshist.writes,
           hshist' = [writes |-> hshist'.writes, calls |-> hshist'.calls, faults |-> hshist'.faults],
           CallsSound', DOMAIN hscall' = Everyone
    PROVE  IInv'
<1>1. (FilesKnown => FilesKnown') /\ \A f : SoundCache(f)' <=> SoundCache(f) BY SoundStays
<1>2. Shape' /\ FilesKnown' BY <1>1 DEF IInv, Shape
<1>3. CachesSound' BY <1>1 DEF IInv, CachesSound, SoundCache, Sound
<1>4. FlushSound' /\ CleanIsSaved' /\ DirtyIsScheduled' BY DEF IInv, FlushSound, CleanIsSaved, DirtyIsScheduled
<1>5. QED BY <1>2, <1>3, <1>4 DEF IInv

(* -------------------------------- HashFile ------------------------------- *)
\* A call that has come somewhere is a call.
LEMMA BusyCall == \A c : hscall[c].pc # "idle" => hscall[c] # NoCall
    BY DEF NoCall

LEMMA StatKeeps == ASSUME IInv, NEW c \in Everyone, NEW p \in HsPaths, Stat(c, p) PROVE IInv'
<1> DEFINE call == IF hsfile[p] = NoRecord THEN NoCall ELSE [pc |-> "lookup", path |-> p, stat |-> hsfile[p].stat]
<1>1. hscall' = [hscall EXCEPT ![c] = call] /\ UNCHANGED <<hsfile, hs, hsdisk, hshist>> BY DEF Stat
<1>2. \/ call = NoCall
      \/ /\ call = [pc |-> "lookup", path |-> p, stat |-> hsfile[p].stat]
         /\ hsfile[p].stat \in Nat /\ hsfile[p].stat > 0 /\ hsfile[p].stat <= hshist.writes
    BY DEF IInv, FilesKnown
<1> HIDE DEF call
<1>3. CallsSound' /\ DOMAIN hscall' = Everyone
    <2>1. CASE call = NoCall BY <1>1, <2>1, OtherCallsStay
    <2>2. CASE call # NoCall
        <3>1. /\ call.pc = "lookup" /\ call.path = p /\ call.stat = hsfile[p].stat
              /\ call = [pc |-> call.pc, path |-> call.path, stat |-> call.stat]
            BY <1>2, <2>2
        <3>2. QED BY <1>1, <1>2, <2>2, <3>1, OtherCallsStay
    <2>3. QED BY <2>1, <2>2
<1>4. hshist' = [writes |-> hshist'.writes, calls |-> hshist'.calls, faults |-> hshist'.faults]
    BY <1>1 DEF IInv, Shape
<1>5. QED BY <1>1, <1>3, <1>4, StoreStays

\* A store whose cache, revision, dirt, timer and flush are left alone.
LEMMA LookupKeeps == ASSUME IInv, NEW c \in Everyone, Lookup(c) PROVE IInv'
<1> DEFINE call == IF hs.cache[hscall[c].path].stat = hscall[c].stat THEN NoCall ELSE [hscall[c] EXCEPT !.pc = "read"]
<1>1. hscall' = [hscall EXCEPT ![c] = call] /\ UNCHANGED <<hsfile, hsdisk, hshist>>
      /\ hs' = [hs EXCEPT !.seen = @ \cup {hscall[c].path}] /\ hscall[c].pc = "lookup" BY DEF Lookup
<1>2. /\ hscall[c] = [pc |-> "lookup", path |-> hscall[c].path, stat |-> hscall[c].stat]
      /\ hscall[c].path \in HsPaths
      /\ hscall[c].stat \in Nat /\ hscall[c].stat > 0 /\ hscall[c].stat <= hshist.writes
    BY <1>1 DEF IInv, CallsSound, NoCall
<1>3. call = NoCall \/ call = [pc |-> "read", path |-> hscall[c].path, stat |-> hscall[c].stat] BY <1>2
<1> HIDE DEF call
<1>4. CallsSound' /\ DOMAIN hscall' = Everyone
    <2>1. CASE call = NoCall BY <1>1, <2>1, OtherCallsStay
    <2>2. CASE call # NoCall
        <3>1. /\ call.pc = "read" /\ call.path = hscall[c].path /\ call.stat = hscall[c].stat
              /\ call = [pc |-> call.pc, path |-> call.path, stat |-> call.stat]
            BY <1>3, <2>2
        <3>2. QED BY <1>1, <1>2, <2>2, <3>1, OtherCallsStay
    <2>3. QED BY <2>1, <2>2
<1>5. /\ hs' = [cache |-> hs'.cache, seen |-> hs'.seen, dirty |-> hs'.dirty, revision |-> hs'.revision,
                timer |-> hs'.timer, flush |-> hs'.flush, failed |-> hs'.failed]
      /\ hs'.cache = hs.cache /\ hs'.dirty = hs.dirty /\ hs'.revision = hs.revision
      /\ hs'.timer = hs.timer /\ hs'.flush = hs.flush /\ hs'.failed = hs.failed
    BY <1>1 DEF IInv, Shape
<1>6. (FilesKnown => FilesKnown') /\ \A f : SoundCache(f)' <=> SoundCache(f) BY <1>1, SoundStays
<1>7. Shape' /\ FilesKnown' BY <1>1, <1>4, <1>5, <1>6 DEF IInv, Shape
<1>8. CachesSound' BY <1>1, <1>5, <1>6 DEF IInv, CachesSound, SoundCache, Sound
<1>9. FlushSound' /\ CleanIsSaved' /\ DirtyIsScheduled'
    BY <1>1, <1>5 DEF IInv, FlushSound, CleanIsSaved, DirtyIsScheduled
<1>10. QED BY <1>4, <1>7, <1>8, <1>9 DEF IInv

LEMMA HashKeeps == ASSUME IInv, NEW c \in Everyone, hashFileContent(c) PROVE IInv'
<1> DEFINE call == IF hsfile[hscall[c].path] = NoRecord THEN NoCall
                   ELSE [pc |-> "record", path |-> hscall[c].path, stat |-> hscall[c].stat,
                         hash |-> hsfile[hscall[c].path].hash]
<1>1. hscall' = [hscall EXCEPT ![c] = call] /\ UNCHANGED <<hsfile, hs, hsdisk, hshist>> /\ hscall[c].pc = "read"
    BY DEF hashFileContent
<1>2. /\ hscall[c].path \in HsPaths
      /\ hscall[c].stat \in Nat /\ hscall[c].stat > 0 /\ hscall[c].stat <= hshist.writes
    BY <1>1, BusyCall DEF IInv, CallsSound
<1>3. \/ call = NoCall
      \/ /\ call.pc = "record" /\ call.path = hscall[c].path /\ call.stat = hscall[c].stat
         /\ call.hash = hsfile[call.path].hash
    OBVIOUS
<1> HIDE DEF call
<1>4. CallsSound' /\ DOMAIN hscall' = Everyone
    <2>1. CASE call = NoCall BY <1>1, <2>1, OtherCallsStay
    <2>2. CASE call # NoCall
        <3>1. Sound(RecordOf(call), call.path) BY <1>2, <1>3, <2>2 DEF Sound, RecordOf
        <3>2. QED BY <1>1, <1>2, <1>3, <2>2, <3>1, OtherCallsStay
    <2>3. QED BY <2>1, <2>2
<1>5. hshist' = [writes |-> hshist'.writes, calls |-> hshist'.calls, faults |-> hshist'.faults]
    BY <1>1 DEF IInv, Shape
<1>6. QED BY <1>1, <1>4, <1>5, StoreStays

\* The cache changes: the revision moves on, so that a copy being written is no
\* longer taken for it, and a timer is set.
LEMMA MarkedDirty ==
    ASSUME IInv, NEW f, SoundCache(f), hs' = markDirtyLocked([hs EXCEPT !.cache = f]),
           UNCHANGED <<hsfile, hsdisk>>, hshist'.writes = hshist.writes,
           hshist' = [writes |-> hshist'.writes, calls |-> hshist'.calls, faults |-> hshist'.faults],
           CallsSound', DOMAIN hscall' = Everyone
    PROVE  IInv'
<1>1. hs' = [cache |-> f, seen |-> hs.seen, dirty |-> TRUE, revision |-> hs.revision + 1,
             timer |-> TRUE, flush |-> hs.flush, failed |-> FALSE]
    BY DEF IInv, Shape, markDirtyLocked
<1>2. (FilesKnown => FilesKnown') /\ \A g : SoundCache(g)' <=> SoundCache(g) BY SoundStays
<1>3. Shape' /\ FilesKnown' BY <1>1, <1>2 DEF IInv, Shape
<1>4. CachesSound' BY <1>1, <1>2 DEF IInv, CachesSound, SoundCache, Sound
<1>5. FlushSound'
    <2>1. hs'.flush = hs.flush /\ hs'.dirty = TRUE /\ hs'.revision = hs.revision + 1 BY <1>1
    <2>2. hs.flush = NoFlush \/ (hs.flush.on /\ hs.flush.revision \in Nat) BY DEF IInv, FlushSound
    <2>3. CASE hs.flush = NoFlush BY <2>1, <2>3 DEF FlushSound, NoFlush
    <2>4. CASE hs.flush.on /\ hs.flush.revision \in Nat BY <2>1, <2>4 DEF IInv, FlushSound, Shape
    <2>5. QED BY <2>2, <2>3, <2>4
<1>6. CleanIsSaved' /\ DirtyIsScheduled' BY <1>1 DEF CleanIsSaved, DirtyIsScheduled
<1>7. QED BY <1>3, <1>4, <1>5, <1>6 DEF IInv

LEMMA RecordKeeps == ASSUME IInv, NEW c \in Everyone, RecordHash(c) PROVE IInv'
<1> DEFINE p == hscall[c].path
           r == RecordOf(hscall[c])
           f == [hs.cache EXCEPT ![p] = r]
<1>1. /\ hs' = markDirtyLocked([hs EXCEPT !.cache[p] = r])
      /\ hscall' = [hscall EXCEPT ![c] = NoCall] /\ hscall[c].pc = "record"
      /\ hshist' = [hshist EXCEPT !.calls = @ + 1] /\ UNCHANGED <<hsfile, hsdisk>>
    BY DEF RecordHash
<1>2. p \in HsPaths /\ Sound(r, p) BY <1>1, BusyCall DEF IInv, CallsSound
<1>3. hs' = markDirtyLocked([hs EXCEPT !.cache = f]) BY <1>1
<1>4. SoundCache(f) BY <1>2 DEF IInv, CachesSound, SoundCache
<1>5. /\ hshist'.writes = hshist.writes
      /\ hshist' = [writes |-> hshist'.writes, calls |-> hshist'.calls, faults |-> hshist'.faults]
    BY <1>1 DEF IInv, Shape
<1> HIDE DEF p, r, f
<1>6. CallsSound' /\ DOMAIN hscall' = Everyone BY <1>1, <1>5, OtherCallsStay
<1>7. QED BY <1>1, <1>3, <1>4, <1>5, <1>6, MarkedDirty

(* --------------------------------- scans --------------------------------- *)
\* A scan begins, or ends without having dropped anything.
LEMMA ScanKeeps == ASSUME IInv, StartScan \/ ScanFails PROVE IInv'
<1>1. /\ hs' = hs \/ hs' = [hs EXCEPT !.seen = {}]
      /\ UNCHANGED <<hsfile, hsdisk, hscall, hshist>>
    BY DEF StartScan, ScanFails
<1>2. /\ hs' = [cache |-> hs'.cache, seen |-> hs'.seen, dirty |-> hs'.dirty, revision |-> hs'.revision,
                timer |-> hs'.timer, flush |-> hs'.flush, failed |-> hs'.failed]
      /\ hs'.cache = hs.cache /\ hs'.dirty = hs.dirty /\ hs'.revision = hs.revision
      /\ hs'.timer = hs.timer /\ hs'.flush = hs.flush /\ hs'.failed = hs.failed
    BY <1>1 DEF IInv, Shape
<1>3. (FilesKnown => FilesKnown') /\ \A f : SoundCache(f)' <=> SoundCache(f) BY <1>1, SoundStays
<1>4. Shape' /\ FilesKnown' BY <1>1, <1>2, <1>3 DEF IInv, Shape
<1>5. CachesSound' BY <1>1, <1>2, <1>3 DEF IInv, CachesSound, SoundCache, Sound
<1>6. FlushSound' /\ CleanIsSaved' /\ DirtyIsScheduled'
    BY <1>1, <1>2 DEF IInv, FlushSound, CleanIsSaved, DirtyIsScheduled
<1>7. CallsSound' BY <1>1, CallsStay
<1>8. QED BY <1>4, <1>5, <1>6, <1>7 DEF IInv

\* What no config names is dropped: a record that is not there is sound of any
\* file.
LEMMA FinishScanKeeps == ASSUME IInv, FinishScan PROVE IInv'
<1> DEFINE kept == [p \in HsPaths |-> IF p \in hs.seen THEN hs.cache[p] ELSE NoRecord]
<1>1. /\ hs' = IF kept = hs.cache THEN hs ELSE markDirtyLocked([hs EXCEPT !.cache = kept])
      /\ hshist' = [hshist EXCEPT !.calls = IF kept = hs.cache THEN @ ELSE @ + 1]
      /\ UNCHANGED <<hsfile, hsdisk, hscall>>
    BY DEF FinishScan
<1>2. SoundCache(kept)
    <2>1. \A p \in HsPaths : Sound(NoRecord, p)
        <3>1. SUFFICES ASSUME NEW p \in HsPaths PROVE Sound(NoRecord, p) OBVIOUS
        <3>2. hsfile[p] = NoRecord \/ hsfile[p].stat > 0 BY DEF IInv, FilesKnown
        <3>3. hshist.writes \in Nat BY DEF IInv, Shape
        <3>4. QED BY <3>2, <3>3 DEF Sound, NoRecord
    <2>2. QED BY <2>1 DEF IInv, CachesSound, SoundCache
<1>3. /\ hshist'.writes = hshist.writes
      /\ hshist' = [writes |-> hshist'.writes, calls |-> hshist'.calls, faults |-> hshist'.faults]
    BY <1>1 DEF IInv, Shape
<1> HIDE DEF kept
<1>4. CallsSound' BY <1>1, <1>3, CallsStay
<1>5. DOMAIN hscall' = Everyone BY <1>1 DEF IInv, Shape
<1>6. CASE kept = hs.cache BY <1>1, <1>3, <1>4, <1>5, <1>6, StoreStays
<1>7. CASE kept # hs.cache BY <1>1, <1>2, <1>3, <1>4, <1>5, <1>7, MarkedDirty
<1>8. QED BY <1>6, <1>7

(* --------------------------------- flush --------------------------------- *)
LEMMA FlushKeeps == ASSUME IInv, Flush PROVE IInv'
<1> DEFINE copy == [on |-> TRUE, cache |-> hs.cache, revision |-> hs.revision]
<1>1. /\ hs' = [hs EXCEPT !.timer = FALSE, !.flush = IF hs.dirty THEN copy ELSE NoFlush]
      /\ UNCHANGED <<hsfile, hsdisk, hscall, hshist>>
    BY DEF Flush
<1>2. hs' = [cache |-> hs.cache, seen |-> hs.seen, dirty |-> hs.dirty, revision |-> hs.revision,
             timer |-> FALSE, flush |-> IF hs.dirty THEN copy ELSE NoFlush, failed |-> hs.failed]
    BY <1>1 DEF IInv, Shape
<1>3. copy.on = TRUE /\ copy.cache = hs.cache /\ copy.revision = hs.revision OBVIOUS
<1>4. NoFlush.on = FALSE BY DEF NoFlush
<1> HIDE DEF copy
<1>5. /\ hs' = [cache |-> hs'.cache, seen |-> hs'.seen, dirty |-> hs'.dirty, revision |-> hs'.revision,
                timer |-> hs'.timer, flush |-> hs'.flush, failed |-> hs'.failed]
      /\ hs'.cache = hs.cache /\ hs'.dirty = hs.dirty /\ hs'.revision = hs.revision
      /\ hs'.flush = IF hs.dirty THEN copy ELSE NoFlush
    BY <1>2
<1>6. (FilesKnown => FilesKnown') /\ \A f : SoundCache(f)' <=> SoundCache(f) BY <1>1, SoundStays
<1>7. Shape' /\ FilesKnown' BY <1>1, <1>5, <1>6 DEF IInv, Shape
<1>8. CachesSound'
    <2>1. hs'.flush.on => hs'.flush.cache = hs.cache BY <1>3, <1>4, <1>5
    <2>2. QED BY <1>1, <1>5, <2>1 DEF IInv, CachesSound, SoundCache, Sound
<1>9. FlushSound' /\ CleanIsSaved' /\ DirtyIsScheduled'
    BY <1>1, <1>3, <1>4, <1>5 DEF IInv, Shape, FlushSound, CleanIsSaved, DirtyIsScheduled
<1>10. CallsSound' BY <1>1, CallsStay
<1>11. QED BY <1>7, <1>8, <1>9, <1>10 DEF IInv

\* What is written is the copy: the store is clean only if the copy is still
\* what it holds.
LEMMA PersistKeeps == ASSUME IInv, persistCache PROVE IInv'
<1> DEFINE late == hs.revision # hs.flush.revision
<1>1. /\ hs.flush.on /\ hsdisk' = hs.flush.cache /\ UNCHANGED <<hsfile, hscall, hshist>>
      /\ hs' = [cache |-> hs.cache, seen |-> hs.seen, dirty |-> late, revision |-> hs.revision,
                timer |-> hs.timer \/ late, flush |-> NoFlush, failed |-> hs.failed]
    BY DEF IInv, Shape, persistCache, Flushed
<1>2. NoFlush.on = FALSE BY DEF NoFlush
<1>3. ~late => hs.flush.cache = hs.cache BY <1>1 DEF IInv, FlushSound
<1>4. /\ hs' = [cache |-> hs'.cache, seen |-> hs'.seen, dirty |-> hs'.dirty, revision |-> hs'.revision,
                timer |-> hs'.timer, flush |-> hs'.flush, failed |-> hs'.failed]
      /\ hs'.cache = hs.cache /\ hs'.revision = hs.revision /\ hs'.flush = NoFlush
      /\ (hs'.dirty <=> late) /\ (late => hs'.timer)
    BY <1>1
<1> HIDE DEF late
<1>5. (FilesKnown => FilesKnown') /\ \A f : SoundCache(f)' <=> SoundCache(f) BY <1>1, SoundStays
<1>6. Shape' /\ FilesKnown' BY <1>1, <1>4, <1>5 DEF IInv, Shape
<1>7. CachesSound'
    <2>1. SoundCache(hs.cache) /\ SoundCache(hs.flush.cache) BY <1>1 DEF IInv, CachesSound
    <2>2. QED BY <1>1, <1>2, <1>4, <2>1 DEF CachesSound, SoundCache, Sound
<1>8. FlushSound' BY <1>2, <1>4 DEF FlushSound
<1>9. CleanIsSaved' /\ DirtyIsScheduled' BY <1>1, <1>3, <1>4 DEF CleanIsSaved, DirtyIsScheduled
<1>10. CallsSound' BY <1>1, CallsStay
<1>11. QED BY <1>6, <1>7, <1>8, <1>9, <1>10 DEF IInv

LEMMA PersistFailsKeeps == ASSUME IInv, persistFails PROVE IInv'
<1>1. /\ hs.flush.on /\ UNCHANGED <<hsfile, hsdisk, hscall>>
      /\ hs' = [cache |-> hs.cache, seen |-> hs.seen, dirty |-> hs.dirty, revision |-> hs.revision,
                timer |-> hs.timer, flush |-> NoFlush, failed |-> ~hs.timer]
      /\ hshist' = [writes |-> hshist.writes, calls |-> hshist.calls, faults |-> hshist.faults + 1]
    BY DEF IInv, Shape, persistFails
<1>2. NoFlush.on = FALSE BY DEF NoFlush
<1>3. /\ hs' = [cache |-> hs'.cache, seen |-> hs'.seen, dirty |-> hs'.dirty, revision |-> hs'.revision,
                timer |-> hs'.timer, flush |-> hs'.flush, failed |-> hs'.failed]
      /\ hs'.cache = hs.cache /\ hs'.revision = hs.revision /\ hs'.flush = NoFlush
      /\ hs'.dirty = hs.dirty /\ hs'.timer = hs.timer /\ (hs'.failed <=> ~hs.timer)
      /\ hshist'.writes = hshist.writes
      /\ hshist' = [writes |-> hshist'.writes, calls |-> hshist'.calls, faults |-> hshist'.faults]
    BY <1>1
<1>4. (FilesKnown => FilesKnown') /\ \A f : SoundCache(f)' <=> SoundCache(f) BY <1>1, <1>3, SoundStays
<1>5. Shape' /\ FilesKnown' BY <1>1, <1>3, <1>4 DEF IInv, Shape
<1>6. CachesSound' BY <1>1, <1>2, <1>3 DEF IInv, CachesSound, SoundCache, Sound
<1>7. FlushSound' BY <1>2, <1>3 DEF FlushSound
<1>8. CleanIsSaved' BY <1>1, <1>3 DEF IInv, CleanIsSaved
<1>9. DirtyIsScheduled' BY <1>3 DEF DirtyIsScheduled
<1>10. CallsSound' BY <1>1, <1>3, CallsStay
<1>11. QED BY <1>5, <1>6, <1>7, <1>8, <1>9, <1>10 DEF IInv

(* ----------------------------- the environment --------------------------- *)
\* A write has a time of its own, and a file that is gone has none: nothing that
\* was known is of it.
LEMMA WriteKeeps == ASSUME IInv, NEW p \in HsPaths, WriteFile(p) PROVE IInv'
<1>1. PICK f \in {NoRecord} \cup {[stat |-> hshist.writes + 1, hash |-> x] : x \in HsContents} :
          hsfile' = [hsfile EXCEPT ![p] = f]
    BY DEF WriteFile
<1>2. /\ UNCHANGED <<hs, hsdisk, hscall>>
      /\ hshist' = [writes |-> hshist.writes + 1, calls |-> hshist.calls, faults |-> hshist.faults]
    BY DEF IInv, Shape, WriteFile
<1>3. f = NoRecord \/ f.stat = hshist.writes + 1 BY <1>1
<1>4. NoRecord.stat = 0 /\ NoRecord.hash = "none" BY DEF NoRecord
<1>5. hshist.writes \in Nat /\ hshist'.writes = hshist.writes + 1 BY <1>2 DEF IInv, Shape
<1>6. \A q \in HsPaths : hsfile'[q] = IF q = p THEN f ELSE hsfile[q] BY <1>1 DEF IInv, Shape
<1>7. Shape' BY <1>1, <1>2 DEF IInv, Shape
<1>8. FilesKnown'
    <2>1. SUFFICES ASSUME NEW q \in HsPaths
                   PROVE  /\ hsfile'[q].stat \in Nat /\ hsfile'[q].stat <= hshist'.writes
                          /\ hsfile'[q] = NoRecord \/ hsfile'[q].stat > 0
        BY DEF FilesKnown, NoRecord
    <2>2. CASE q = p BY <1>3, <1>4, <1>5, <1>6, <2>2
    <2>3. CASE q # p BY <1>5, <1>6, <2>3 DEF IInv, FilesKnown
    <2>4. QED BY <2>2, <2>3
<1>9. ASSUME NEW r, NEW q \in HsPaths, Sound(r, q)
      PROVE  Sound(r, q)'
    <2>1. CASE q = p BY <1>3, <1>4, <1>5, <1>6, <1>9, <2>1 DEF Sound
    <2>2. CASE q # p BY <1>5, <1>6, <1>9, <2>2 DEF Sound
    <2>3. QED BY <2>1, <2>2
<1>10. \A g : SoundCache(g) => SoundCache(g)' BY <1>9 DEF SoundCache
<1>11. CachesSound' BY <1>2, <1>10 DEF IInv, CachesSound, SoundCache, Sound
<1>12. CallsSound'
    <2>1. SUFFICES ASSUME NEW c \in Everyone, hscall[c] # NoCall
                   PROVE  /\ hscall[c].pc \in {"lookup", "read", "record"}
                          /\ hscall[c] = [pc |-> hscall[c].pc, path |-> hscall[c].path, stat |-> hscall[c].stat]
                             \/ hscall[c].pc = "record"
                          /\ hscall[c].path \in HsPaths
                          /\ hscall[c].stat \in Nat /\ hscall[c].stat > 0 /\ hscall[c].stat <= hshist'.writes
                          /\ hscall[c].pc = "record" => Sound(RecordOf(hscall[c]), hscall[c].path)'
        BY <1>2 DEF CallsSound, RecordOf, Sound
    <2>2. /\ hscall[c].pc \in {"lookup", "read", "record"}
          /\ hscall[c] = [pc |-> hscall[c].pc, path |-> hscall[c].path, stat |-> hscall[c].stat]
             \/ hscall[c].pc = "record"
          /\ hscall[c].path \in HsPaths
          /\ hscall[c].stat \in Nat /\ hscall[c].stat > 0 /\ hscall[c].stat <= hshist.writes
          /\ hscall[c].pc = "record" => Sound(RecordOf(hscall[c]), hscall[c].path)
        BY <2>1 DEF IInv, CallsSound
    <2>3. hscall[c].pc = "record" => Sound(RecordOf(hscall[c]), hscall[c].path)'
        BY <1>2, <1>9, <2>2 DEF RecordOf, Sound
    <2>4. QED BY <1>5, <2>2, <2>3
<1>13. FlushSound' /\ CleanIsSaved' /\ DirtyIsScheduled'
    BY <1>2 DEF IInv, FlushSound, CleanIsSaved, DirtyIsScheduled
<1>14. QED BY <1>7, <1>8, <1>11, <1>12, <1>13 DEF IInv

LEMMA RestartKeeps == ASSUME IInv, Restart PROVE IInv'
<1>1. /\ hs' = [cache |-> hsdisk, seen |-> {}, dirty |-> FALSE, revision |-> 0, timer |-> FALSE,
                flush |-> NoFlush, failed |-> FALSE]
      /\ hscall' = [c \in Everyone |-> NoCall] /\ UNCHANGED <<hsfile, hsdisk>>
      /\ hshist' = [writes |-> hshist.writes, calls |-> 0, faults |-> hshist.faults + 1]
    BY DEF IInv, Shape, Restart, Opened
<1>2. NoFlush.on = FALSE BY DEF NoFlush
<1>3. hshist'.writes = hshist.writes /\ hs'.cache = hsdisk /\ hs'.flush = NoFlush /\ hs'.dirty = FALSE BY <1>1
<1>4. (FilesKnown => FilesKnown') /\ \A f : SoundCache(f)' <=> SoundCache(f) BY <1>1, <1>3, SoundStays
<1>5. Shape' /\ FilesKnown' BY <1>1, <1>4 DEF IInv, Shape
<1>6. CachesSound' BY <1>1, <1>2, <1>3 DEF IInv, CachesSound, SoundCache, Sound
<1>7. FlushSound' BY <1>2, <1>3 DEF FlushSound
<1>8. CleanIsSaved' /\ DirtyIsScheduled' BY <1>1, <1>3 DEF CleanIsSaved, DirtyIsScheduled
<1>9. CallsSound' BY <1>1 DEF CallsSound
<1>10. QED BY <1>5, <1>6, <1>7, <1>8, <1>9 DEF IInv

(* -------------------------------- theorems ------------------------------- *)
LEMMA InitHolds == Init => IInv
<1>1. SUFFICES ASSUME Init PROVE IInv OBVIOUS
<1>2. /\ hs = [cache |-> hsdisk, seen |-> {}, dirty |-> FALSE, revision |-> 0, timer |-> FALSE,
               flush |-> NoFlush, failed |-> FALSE]
      /\ hscall = [c \in Everyone |-> NoCall] /\ hsdisk = [p \in HsPaths |-> NoRecord]
      /\ hshist = [writes |-> 1, calls |-> 0, faults |-> 0]
    BY <1>1 DEF Init, Opened
<1>3. NoFlush.on = FALSE /\ NoRecord.stat = 0 /\ NoRecord.hash = "none" BY DEF NoFlush, NoRecord
<1>4. \A p \in HsPaths : hsfile[p] = NoRecord \/ hsfile[p].stat = 1 BY <1>1 DEF Init
<1>5. Shape BY <1>1, <1>2 DEF Init, Shape
<1>6. FilesKnown BY <1>2, <1>3, <1>4 DEF FilesKnown
<1>7. CachesSound BY <1>2, <1>3, <1>4 DEF CachesSound, SoundCache, Sound
<1>8. CallsSound BY <1>2 DEF CallsSound
<1>9. FlushSound /\ CleanIsSaved /\ DirtyIsScheduled BY <1>2, <1>3 DEF FlushSound, CleanIsSaved, DirtyIsScheduled
<1>10. QED BY <1>5, <1>6, <1>7, <1>8, <1>9 DEF IInv

LEMMA NextKeeps == IInv /\ [Next]_hsvars => IInv'
<1>1. SUFFICES ASSUME IInv, [Next]_hsvars PROVE IInv' OBVIOUS
<1>2. CASE \E c \in Everyone, p \in HsPaths : Stat(c, p) BY <1>1, <1>2, StatKeeps
<1>3. CASE \E c \in Everyone : Lookup(c) \/ hashFileContent(c) \/ RecordHash(c)
    BY <1>1, <1>3, LookupKeeps, HashKeeps, RecordKeeps
<1>4. CASE StartScan \/ FinishScan \/ ScanFails BY <1>1, <1>4, ScanKeeps, FinishScanKeeps
<1>5. CASE Flush \/ persistCache \/ persistFails BY <1>1, <1>5, FlushKeeps, PersistKeeps, PersistFailsKeeps
<1>6. CASE \E p \in HsPaths : WriteFile(p) BY <1>1, <1>6, WriteKeeps
<1>7. CASE Restart BY <1>1, <1>7, RestartKeeps
<1>8. CASE UNCHANGED hsvars
    <2>1. UNCHANGED <<hsfile, hs, hsdisk, hscall, hshist>> BY <1>8 DEF hsvars
    <2>2. CallsSound' BY <1>1, <2>1, CallsStay
    <2>3. hshist' = [writes |-> hshist'.writes, calls |-> hshist'.calls, faults |-> hshist'.faults]
          /\ DOMAIN hscall' = Everyone
        BY <1>1, <2>1 DEF IInv, Shape
    <2>4. QED BY <1>1, <2>1, <2>2, <2>3, StoreStays
<1>9. QED BY <1>1, <1>2, <1>3, <1>4, <1>5, <1>6, <1>7, <1>8 DEF Next

\* HashFile never answers with the hash of other bytes than the file has, in
\* memory or after a restart; a cache that is not dirty is the one on disk; and a
\* dirty one is being written, or will be: for any number of paths, contents,
\* concurrent callers, rewrites of the files, failed writes and restarts.
THEOREM HashesAreSafe == Spec => []HashStoreSafe
<1>1. IInv => HashStoreSafe
    <2>1. SUFFICES ASSUME IInv PROVE HashesRight /\ CleanIsSaved /\ DirtyIsScheduled BY DEF HashStoreSafe
    <2>2. HashesRight BY <2>1 DEF IInv, CachesSound, SoundCache, Sound, HashesRight
    <2>3. QED BY <2>1, <2>2 DEF IInv
<1>2. QED BY <1>1, InitHolds, NextKeeps, PTL DEF Spec
=============================================================================
