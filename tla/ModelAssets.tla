----------------------------- MODULE ModelAssets -----------------------------
(***************************************************************************)
(* Portable model configs and the assets they name by hash                  *)
(* (internal/modelassets, internal/proxy/model_asset*.go).  A load ensures   *)
(* its config: one resolution job per config file looks for each hash in    *)
(* the index, below the file roots, on the cluster's peers and at Hugging   *)
(* Face, and writes the paths it found into the config.  A file is a        *)
(* sequence of chunks; its hash is the hash it was made for, or Other.      *)
(***************************************************************************)
EXTENDS Naturals, FiniteSets, SequencesExt

CONSTANTS
    MaConfigs,      \* config files
    MaRefs,         \* config -> [hash, name] its portable form names
    MaHashes, MaNames,
    MaCallers,      \* loads that need a config resolved
    MaPeers,        \* nodes that offer a copy of every hash under every name
    MaSize,         \* chunks of a file
    MaSlots,        \* models.concurrent_asset_transfers
    MaMaxFaults,    \* bound on dropped or wrong streams
    MaMaxEdits,     \* bound on files replaced and configs edited by the operator
    MaMaxCrashes

VARIABLES
    maconf,  \* config -> [version, path]: path is <<hash, name, place>> once resolved
    madisk,  \* place -> [data, stamp]; places are <<"store", h, n>>, <<"root", n>>, <<"hub", h, n>>, <<"partial", h>>
    maidx,   \* [asset: hash -> [name, place], cache: place -> [stamp, hash], origin: hashes bound]
    majob,   \* config -> the job at work on it
    mapull,  \* hash -> the transfer in flight: [lead, ok]
    macall,  \* caller -> [pc, cfg]
    mahist   \* [jobs: config -> latest job state, faults, edits, crashes, stamp]

mavars == <<maconf, madisk, maidx, majob, mapull, macall, mahist>>

Absent == [data |-> <<>>, stamp |-> 0]
NoPlace == <<"none">>
\* info is the stat a hash is asked with, then who asked, res the hash or "error".
NoHash == [info |-> 0, then |-> "none", res |-> "none", shared |-> FALSE]
NoJob == [pc |-> "none", version |-> 0, place |-> NoPlace, cands |-> <<>>, fresh |-> FALSE, hash |-> NoHash,
          peers |-> {}, got |-> <<>>]
NoPull == [lead |-> "none", ok |-> FALSE]
Store(h, n) == <<"store", h, n>>
Root(n) == <<"root", n>>
Hub(h, n) == <<"hub", h, n>>
Partial(h) == <<"partial", h>>
Places == {Store(h, n) : h \in MaHashes, n \in MaNames} \cup {Root(n) : n \in MaNames}
             \cup {Hub(h, n) : h \in MaHashes, n \in MaNames} \cup {Partial(h) : h \in MaHashes}
NameOf(place) == place[Len(place)]

Genuine(h) == [i \in 1 .. MaSize |-> h]
HashOf(data) == IF \E h \in MaHashes : data = Genuine(h)
                THEN CHOOSE h \in MaHashes : data = Genuine(h) ELSE "other"

Init ==
    /\ maconf = [c \in MaConfigs |-> [version |-> 0, path |-> NoPlace, sound |-> TRUE]]
    /\ madisk = [p \in Places |-> Absent]
    /\ maidx = [asset |-> [h \in MaHashes |-> [name |-> "", place |-> NoPlace]],
                cache |-> [p \in Places |-> [stamp |-> 0, hash |-> "other"]], origin |-> {}]
    /\ majob = [c \in MaConfigs |-> NoJob]
    /\ mapull = [h \in MaHashes |-> NoPull]
    /\ macall = [k \in MaCallers |-> [pc |-> "new", cfg |-> "none"]]
    /\ mahist = [jobs |-> [c \in MaConfigs |-> "none"], faults |-> 0, edits |-> 0, crashes |-> 0, stamp |-> 0]

Step(c, pc) == majob' = [majob EXCEPT ![c].pc = pc]
Ref(c) == MaRefs[c]

(* ------------------------------- the index ------------------------------ *)
Present(p) == p # NoPlace /\ madisk[p] # Absent

\* regularFile: a hash is asked for with the file's size and time as they are now.
Ask(j, p, then) == [j EXCEPT !.pc = "hash", !.place = p,
                             !.hash = [NoHash EXCEPT !.info = madisk[p].stamp, !.then = then]]
Answer(j, res) == [j EXCEPT !.pc = "hashed", !.hash.res = res]
\* The job that computes the hash of a file, for itself and for all who join.
Flight(p) == {d \in MaConfigs : majob[d].pc \in {"hashing", "publish"} /\ majob[d].place = p}

\* hashFile: what the cache has for this size and time, if the file has them
\* still; else the flight under way, whatever stat it was started with; else a new one.
hashFile(c) ==
    LET p == majob[c].place  info == majob[c].hash.info IN
    /\ majob[c].pc = "hash"
    /\ majob' = [majob EXCEPT ![c] =
                    IF maidx.cache[p].stamp = info
                    THEN Answer(@, IF madisk[p].stamp = info THEN maidx.cache[p].hash ELSE "error")
                    ELSE IF Flight(p) # {} THEN [@ EXCEPT !.pc = "join"] ELSE [@ EXCEPT !.pc = "hashing"]]
    /\ UNCHANGED <<maconf, madisk, maidx, mapull, macall, mahist>>

\* hashPath: a file whose size or time is another when it is opened, or when it
\* has been read, is an error.
hashPath(c) ==
    LET p == majob[c].place IN
    /\ majob[c].pc = "hashing"
    /\ majob' = [majob EXCEPT ![c].pc = "publish",
                    ![c].hash.res = IF madisk[p].stamp = majob[c].hash.info THEN HashOf(madisk[p].data) ELSE "error"]
    /\ UNCHANGED <<maconf, madisk, maidx, mapull, macall, mahist>>

PublishHash(c) ==
    LET p == majob[c].place  hash == majob[c].hash IN
    /\ majob[c].pc = "publish"
    /\ maidx' = IF hash.res = "error" THEN maidx
                ELSE [maidx EXCEPT !.cache[p] = [stamp |-> hash.info, hash |-> hash.res]]
    /\ majob' = [d \in MaConfigs |->
                    IF d = c THEN Answer(majob[d], hash.res)
                    ELSE IF majob[d].pc = "join" /\ majob[d].place = p
                    THEN [Answer(majob[d], hash.res) EXCEPT !.hash.shared = majob[d].hash.info # hash.info]
                    ELSE majob[d]]
    /\ UNCHANGED <<maconf, madisk, mapull, macall, mahist>>

\* Find: the entry must be under that name, and hash to that value now.
MayFind(c) == maidx.asset[Ref(c).hash].name = Ref(c).name /\ Present(maidx.asset[Ref(c).hash].place)
Find(c, then, otherwise) ==
    IF MayFind(c) THEN Ask(majob[c], maidx.asset[Ref(c).hash].place, then) ELSE [majob[c] EXCEPT !.pc = otherwise]
Asked(c, then) == majob[c].pc = "hashed" /\ majob[c].hash.then = then
IsIt(c) == majob[c].hash.res = Ref(c).hash
Leave(c, pc) == [majob EXCEPT ![c].pc = pc, ![c].hash = NoHash]
Found(c) == [majob EXCEPT ![c].pc = "check"]

\* indexFile: the hash's only entry becomes this path under this name.
Indexed(c) ==
    LET h == majob[c].hash.res  p == majob[c].place IN
    IF h \in MaHashes THEN [maidx EXCEPT !.asset[h] = [name |-> NameOf(p), place |-> p]] ELSE maidx

(* ------------------------------ one job per config ---------------------- *)
\* ensure: a config without portable fields needs nothing; else join the job
\* at work on it or start one.
ensure(k, c) ==
    /\ macall[k].pc = "new"
    /\ macall' = [macall EXCEPT ![k] = [pc |-> IF maconf[c].path # NoPlace THEN "ok" ELSE "wait", cfg |-> c]]
    /\ IF maconf[c].path = NoPlace /\ majob[c].pc = "none"
       THEN /\ majob' = [majob EXCEPT ![c] = [NoJob EXCEPT !.pc = "read"]]
            /\ mahist' = [mahist EXCEPT !.jobs[c] = "resolving"]
       ELSE UNCHANGED <<majob, mahist>>
    /\ UNCHANGED <<maconf, madisk, maidx, mapull>>

\* resolveLocalModelAssetConfig reads the config and its fingerprint.
ReadConfig(c) ==
    /\ majob[c].pc = "read"
    /\ majob' = [majob EXCEPT ![c].pc = "find", ![c].version = maconf[c].version]
    /\ UNCHANGED <<maconf, madisk, maidx, mapull, macall, mahist>>

\* findStoredAsset: the index, and once more with the roots.
findStoredAsset(c) ==
    /\ \/ majob[c].pc = "find" /\ majob' = [majob EXCEPT ![c] = Find(c, "find", "refind")]
       \/ majob[c].pc = "refind" /\ majob' = [majob EXCEPT ![c] = Find(c, "refind", "roots")]
    /\ UNCHANGED <<maconf, madisk, maidx, mapull, macall, mahist>>
Stored(c) ==
    /\ \/ Asked(c, "find") /\ majob' = IF IsIt(c) THEN Found(c) ELSE Leave(c, "refind")
       \/ Asked(c, "refind") /\ majob' = IF IsIt(c) THEN Found(c) ELSE Leave(c, "roots")
    /\ UNCHANGED <<maconf, madisk, maidx, mapull, macall, mahist>>

\* FindInRoots: the files of that name below the roots and the shared directory,
\* each indexed in turn; the first that cannot be ends the search.
InRoots(c) ==
    /\ majob[c].pc = "roots"
    /\ majob' = [majob EXCEPT ![c].pc = "cand",
                    ![c].cands = SelectSeq(<<Root(Ref(c).name)>> \o SetToSeq({Store(h, Ref(c).name) : h \in MaHashes}), Present)]
    /\ UNCHANGED <<maconf, madisk, maidx, mapull, macall, mahist>>
NextCandidate(c) ==
    /\ majob[c].pc = "cand"
    /\ majob' = [majob EXCEPT ![c] = IF @.cands # <<>> /\ Present(Head(@.cands))
                                     THEN Ask([@ EXCEPT !.cands = Tail(@)], Head(@.cands), "root")
                                     ELSE [@ EXCEPT !.pc = "peer", !.cands = <<>>]]
    /\ UNCHANGED <<maconf, madisk, maidx, mapull, macall, mahist>>

\* IndexFile: a file that was hashed is entered, then its row written, which may fail.
persistAsset(c, stored) ==
    \/ stored = (majob[c].hash.res # "error") /\ UNCHANGED mahist
    \/ /\ ~stored /\ majob[c].hash.res # "error" /\ mahist.faults < MaMaxFaults
       /\ mahist' = [mahist EXCEPT !.faults = @ + 1]
IndexFile(c, stored) == maidx' = Indexed(c) /\ persistAsset(c, stored)
Candidate(c) ==
    /\ Asked(c, "root")
    /\ \E stored \in BOOLEAN :
         /\ IndexFile(c, stored)
         /\ majob' = IF ~stored THEN [Leave(c, "peer") EXCEPT ![c].cands = <<>>]
                     ELSE IF IsIt(c) THEN [Found(c) EXCEPT ![c].cands = <<>>] ELSE Leave(c, "cand")
    /\ UNCHANGED <<maconf, madisk, mapull, macall>>

(* ------------------------------ peer transfers -------------------------- *)
\* resolvePeerAssetPath: one transfer per hash; the others wait for it and
\* look in the index afterwards.
transferFree(c) == mapull[Ref(c).hash].lead = "none"

LeadTransfer(c) ==
    /\ majob[c].pc = "peer" /\ transferFree(c)
    /\ mapull' = [mapull EXCEPT ![Ref(c).hash] = [lead |-> c, ok |-> FALSE]]
    /\ Step(c, "slot")
    /\ UNCHANGED <<maconf, madisk, maidx, macall, mahist>>

FollowTransfer(c) ==
    /\ majob[c].pc = "peer" /\ ~transferFree(c)
    /\ Step(c, "follow")
    /\ UNCHANGED <<maconf, madisk, maidx, mapull, macall, mahist>>

\* A follower sees its leader's transfer end, well or badly.
Followed(c) ==
    LET h == Ref(c).hash IN
    /\ \/ /\ majob[c].pc = "follow" /\ mapull[h].lead = "none"
          /\ majob' = [majob EXCEPT ![c] = IF mapull[h].ok THEN Find(c, "follow", "hub") ELSE [@ EXCEPT !.pc = "hub"]]
       \/ Asked(c, "follow") /\ majob' = IF IsIt(c) THEN Found(c) ELSE Leave(c, "hub")
    /\ UNCHANGED <<maconf, madisk, maidx, mapull, macall, mahist>>

\* A leader holds a slot from the moment it has one until its transfer ends.
Transferring == {c \in MaConfigs : mapull[Ref(c).hash].lead = c /\ majob[c].pc # "slot"}

TakeSlot(c) ==
    /\ majob[c].pc = "slot" /\ Cardinality(Transferring) < MaSlots
    /\ majob' = [majob EXCEPT ![c].pc = "offer", ![c].peers = MaPeers]
    /\ UNCHANGED <<maconf, madisk, maidx, mapull, macall, mahist>>

EndTransfer(c, ok) == [mapull EXCEPT ![Ref(c).hash] = [lead |-> "none", ok |-> ok]]

\* pullKnownPeerAsset: the next source that has the file, from where the
\* partial file ends unless that is the whole size.
partialAssetSize(h) == IF Len(madisk[Partial(h)].data) >= MaSize THEN 0 ELSE Len(madisk[Partial(h)].data)

pullKnownPeerAsset(c) ==
    LET h == Ref(c).hash IN
    /\ majob[c].pc = "offer"
    /\ \/ /\ majob[c].peers = {}
          /\ Step(c, "hub") /\ mapull' = EndTransfer(c, mapull[h].ok)
          /\ UNCHANGED madisk
       \/ /\ \E q \in majob[c].peers :
               majob' = [majob EXCEPT ![c].pc = "pull", ![c].peers = @ \ {q},
                                      ![c].got = SubSeq(madisk[Partial(h)].data, 1, partialAssetSize(h))]
          /\ madisk' = [madisk EXCEPT ![Partial(h)].data = SubSeq(@, 1, partialAssetSize(h))]
          /\ UNCHANGED mapull
    /\ UNCHANGED <<maconf, maidx, macall, mahist>>

\* writeVerified: the stream is appended to the partial file and to the digest.
PullChunk(c) ==
    LET h == Ref(c).hash IN
    /\ majob[c].pc = "pull" /\ Len(majob[c].got) < MaSize
    /\ \E chunk \in {h, "x"} :
         /\ chunk = "x" => mahist.faults < MaMaxFaults
         /\ mahist' = [mahist EXCEPT !.faults = IF chunk = "x" THEN @ + 1 ELSE @]
         /\ majob' = [majob EXCEPT ![c].got = Append(@, chunk)]
         /\ madisk' = [madisk EXCEPT ![Partial(h)].data = Append(@, chunk)]
    /\ UNCHANGED <<maconf, maidx, mapull, macall>>

\* The stream ends early; the partial file stays for the next source.
PullDropped(c) ==
    /\ majob[c].pc = "pull" /\ mahist.faults < MaMaxFaults
    /\ mahist' = [mahist EXCEPT !.faults = @ + 1]
    /\ Step(c, "offer")
    /\ UNCHANGED <<maconf, madisk, maidx, mapull, macall>>

\* A digest that does not match removes the partial file.
Discard(c) == [madisk EXCEPT ![Partial(Ref(c).hash)] = Absent]

verified(c) == HashOf(majob[c].got) = Ref(c).hash

PullMismatch(c) ==
    /\ majob[c].pc = "pull" /\ Len(majob[c].got) = MaSize /\ ~verified(c)
    /\ madisk' = Discard(c)
    /\ Step(c, "offer")
    /\ UNCHANGED <<maconf, maidx, mapull, macall, mahist>>

\* installPeerAsset: rename into place, or keep what is there already.
installPeerAsset(c) ==
    LET h == Ref(c).hash  target == Store(h, Ref(c).name)
        file == IF Present(target) THEN madisk[target] ELSE [data |-> madisk[Partial(h)].data, stamp |-> mahist.stamp + 1] IN
    /\ majob[c].pc = "pull" /\ Len(majob[c].got) = MaSize /\ verified(c)
    /\ madisk' = [Discard(c) EXCEPT ![target] = file]
    /\ majob' = [majob EXCEPT ![c].pc = "installed", ![c].place = target, ![c].fresh = ~Present(target)]
    /\ mahist' = [mahist EXCEPT !.stamp = @ + 1]
    /\ UNCHANGED <<maconf, maidx, mapull, macall>>
IndexInstalled(c) ==
    /\ majob[c].pc = "installed"
    /\ majob' = [majob EXCEPT ![c] = Ask(@, @.place, "install")]
    /\ UNCHANGED <<maconf, madisk, maidx, mapull, macall, mahist>>

\* What was there already must have the hash; what was renamed into place need
\* only leave the hash with some entry, which the index is then asked for: another
\* job may have given it to a file of another name.
resolvePeerAssetPath(c) ==
    \/ /\ Asked(c, "install")
       /\ \E stored \in BOOLEAN :
            /\ IndexFile(c, stored)
            /\ LET ok == stored /\ IF majob[c].fresh THEN maidx'.asset[Ref(c).hash].name # "" ELSE IsIt(c) IN
               /\ majob' = Leave(c, IF ok THEN "again" ELSE "offer")
               /\ mapull' = [mapull EXCEPT ![Ref(c).hash].ok = @ \/ ok]
       /\ UNCHANGED <<maconf, madisk, macall>>
    \/ /\ majob[c].pc = "again"
       /\ majob' = [majob EXCEPT ![c] = Find(c, "again", "offer")]
       /\ UNCHANGED <<maconf, madisk, maidx, mapull, macall, mahist>>
    \/ /\ Asked(c, "again")
       /\ majob' = IF IsIt(c) THEN Found(c) ELSE Leave(c, "offer")
       /\ mapull' = IF IsIt(c) THEN EndTransfer(c, TRUE) ELSE mapull
       /\ UNCHANGED <<maconf, madisk, maidx, macall, mahist>>

(* ------------------------------ Hugging Face ---------------------------- *)
\* resolveHFAsset: the downloader fetches a file whose LFS hash matches, or
\* keeps the one it has; or no origin serves it.
resolveHFAsset(c) ==
    LET h == Ref(c).hash IN
    /\ majob[c].pc = "hub"
    /\ \/ /\ Step(c, "failed") /\ UNCHANGED <<madisk, mahist>>
       \/ \E n \in MaNames :
            LET p == Hub(h, n) IN
            /\ mahist.faults < MaMaxFaults
            /\ madisk' = IF Present(p) THEN madisk
                         ELSE [madisk EXCEPT ![p] = [data |-> Genuine(h), stamp |-> mahist.stamp + 1]]
            /\ mahist' = [mahist EXCEPT !.stamp = @ + 1, !.faults = @ + 1]
            /\ majob' = [majob EXCEPT ![c].pc = "fetched", ![c].place = p]
    /\ UNCHANGED <<maconf, maidx, mapull, macall>>

\* adoptDownloadedArtifact: indexed, its origin bound, then found under the name asked for.
adoptDownloadedArtifact(c) ==
    /\ \/ majob[c].pc = "fetched" /\ majob' = [majob EXCEPT ![c] = Ask(@, @.place, "hub")] /\ UNCHANGED <<maidx, mahist>>
       \/ /\ Asked(c, "hub")
          /\ \E stored \in BOOLEAN :
               LET ok == stored /\ IsIt(c) IN
               /\ maidx' = [Indexed(c) EXCEPT !.origin = IF ok THEN @ \cup {Ref(c).hash} ELSE @]
               /\ persistAsset(c, stored)
               /\ majob' = Leave(c, IF ok THEN "named" ELSE "failed")
       \/ majob[c].pc = "named" /\ majob' = [majob EXCEPT ![c] = Find(c, "named", "failed")] /\ UNCHANGED <<maidx, mahist>>
       \/ Asked(c, "named") /\ UNCHANGED <<maidx, mahist>> /\ majob' = IF IsIt(c) THEN Found(c) ELSE Leave(c, "failed")
    /\ UNCHANGED <<maconf, madisk, mapull, macall>>

(* ------------------------- committing the config ------------------------ *)
\* The config must not have changed since it was read; then it is replaced.
CheckConfig(c) ==
    /\ majob[c].pc = "check"
    /\ Step(c, IF maconf[c].version = majob[c].version THEN "write" ELSE "failed")
    /\ UNCHANGED <<maconf, madisk, maidx, mapull, macall, mahist>>

WriteConfig(c) ==
    /\ majob[c].pc = "write"
    /\ maconf' = [maconf EXCEPT ![c] = [version |-> @.version + 1, path |-> majob[c].place,
                    sound |-> \/ HashOf(madisk[majob[c].place].data) = Ref(c).hash
                              \/ madisk[majob[c].place].stamp # majob[c].hash.info \/ majob[c].hash.shared]]
    /\ Step(c, "done")
    /\ UNCHANGED <<madisk, maidx, mapull, macall, mahist>>

\* resolutionJobOutcome; the callers waiting for the job read its outcome.
JobEnds(c) ==
    /\ majob[c].pc \in {"done", "failed"}
    /\ mahist' = [mahist EXCEPT !.jobs[c] = IF majob[c].pc = "done" THEN "completed" ELSE "failed"]
    /\ majob' = [majob EXCEPT ![c] = NoJob]
    /\ macall' = [k \in MaCallers |-> IF macall[k] = [pc |-> "wait", cfg |-> c]
                                      THEN [macall[k] EXCEPT !.pc = IF majob[c].pc = "done" THEN "ok" ELSE "unavailable"]
                                      ELSE macall[k]]
    /\ UNCHANGED <<maconf, madisk, maidx, mapull>>

(* ------------------------- operator, crash, restart --------------------- *)
\* The operator puts another file under a name, or a genuine one.
ReplaceFile(p) ==
    /\ mahist.edits < MaMaxEdits
    /\ \E data \in {Genuine(h) : h \in MaHashes} \cup {[i \in 1 .. MaSize |-> "x"]} :
         madisk' = [madisk EXCEPT ![p] = [data |-> data, stamp |-> mahist.stamp + 1]]
    /\ mahist' = [mahist EXCEPT !.edits = @ + 1, !.stamp = @ + 1]
    /\ UNCHANGED <<maconf, maidx, majob, mapull, macall>>

EditConfig(c) ==
    /\ mahist.edits < MaMaxEdits
    /\ maconf' = [maconf EXCEPT ![c] = [version |-> @.version + 1, path |-> NoPlace, sound |-> TRUE]]
    /\ mahist' = [mahist EXCEPT !.edits = @ + 1]
    /\ UNCHANGED <<madisk, maidx, majob, mapull, macall>>

\* A crash keeps the disk, the index database and the job rows.
Crash ==
    /\ mahist.crashes < MaMaxCrashes
    /\ majob' = [c \in MaConfigs |-> NoJob]
    /\ mapull' = [h \in MaHashes |-> NoPull]
    /\ macall' = [k \in MaCallers |-> IF macall[k].pc = "wait" THEN [pc |-> "new", cfg |-> "none"] ELSE macall[k]]
    /\ mahist' = [mahist EXCEPT !.crashes = @ + 1]
    /\ UNCHANGED <<maconf, madisk, maidx>>

JobStep(c) ==
    \/ ReadConfig(c) \/ hashFile(c) \/ hashPath(c) \/ PublishHash(c) \/ findStoredAsset(c) \/ Stored(c)
    \/ InRoots(c) \/ NextCandidate(c) \/ Candidate(c) \/ LeadTransfer(c) \/ FollowTransfer(c) \/ Followed(c)
    \/ TakeSlot(c) \/ pullKnownPeerAsset(c) \/ PullChunk(c) \/ PullDropped(c) \/ PullMismatch(c)
    \/ installPeerAsset(c) \/ IndexInstalled(c) \/ resolvePeerAssetPath(c) \/ resolveHFAsset(c)
    \/ adoptDownloadedArtifact(c) \/ CheckConfig(c) \/ WriteConfig(c) \/ JobEnds(c)

Next ==
    \/ \E k \in MaCallers, c \in MaConfigs : ensure(k, c)
    \/ \E c \in MaConfigs : JobStep(c) \/ EditConfig(c)
    \/ \E p \in {Root(n) : n \in MaNames} \cup {Store(h, n) : h \in MaHashes, n \in MaNames} : ReplaceFile(p)
    \/ Crash

Spec == Init /\ [][Next]_mavars

(* ------------------------------ properties ------------------------------ *)
\* A config is only ever made to name a file that has the hash it asked for,
\* unless the file is replaced after the resolution last looked at it, or the
\* resolution shared the hash of one who had looked at the file before it was.
ResolvedIsVerified == \A c \in MaConfigs : maconf[c].sound

\* The hash the index remembers for a file is right as long as the file's
\* size and time have not changed: what the router wrote is never taken for
\* something else, across resumed transfers and restarts.
IndexIsTrue ==
    \A p \in Places : madisk[p] # Absent /\ maidx.cache[p].stamp = madisk[p].stamp /\ p \notin {Partial(h) : h \in MaHashes}
        => HashOf(madisk[p].data) = maidx.cache[p].hash

\* Two jobs never write the same partial file, and what one job has verified
\* is what is on disk: the bytes it hashed are the bytes it installs.
PartialIsMine ==
    \A c \in MaConfigs : majob[c].pc = "pull" => madisk[Partial(Ref(c).hash)].data = majob[c].got

\* No more transfers at a time than the configuration allows.
TransfersBounded == Cardinality(Transferring) <= MaSlots

\* What one expects and the code does not keep (see the findings): who asks for a
\* hash gets that of the file it looked at.
HashIsOfFileSeen == \A c \in MaConfigs : majob[c].hash.shared => majob[c].hash.res = "error"

AssetsSafe == ResolvedIsVerified /\ IndexIsTrue /\ PartialIsMine /\ TransfersBounded

=============================================================================
