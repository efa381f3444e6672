---------------------------- MODULE BackendUpdate ----------------------------
(***************************************************************************)
(* The installer of a native backend (internal/update): one target's       *)
(* installed files, their ".previous" backups, the TUF trust cache and the *)
(* update metadata, as Ensure and Download change them one rename at a     *)
(* time, with failures and crashes between any two steps.  A file, a trust *)
(* cache or a metadata record is represented by the release it comes from, *)
(* 0 meaning that it does not exist.                                       *)
(***************************************************************************)
EXTENDS Naturals, FiniteSets, Sequences, SequencesExt

CONSTANTS BuFiles,         \* files of the install directory; "bin" is the executable
          BuReleases,      \* releases 1..n: [pre, plain, files, entries, assets]
          BuInfo,          \* the detected hardware: [platform, gpu, version]
          BuPrereleases,   \* updates.include_prereleases
          BuMaxFaults,     \* crashes and failed steps
          BuMaxRuns        \* calls of Ensure or Download

VARIABLES bu,     \* the call in progress
          budisk, \* what is on disk
          burepo, \* the published repository: version, and whether the target is a plain URL
          buhist  \* what the properties remember of the past

buvars == <<bu, budisk, burepo, buhist>>

NoFiles == [f \in BuFiles |-> 0]
Quiet == [pc |-> "idle", rel |-> 0, trust |-> 0, todo |-> <<>>, done |-> <<>>,
          trusted |-> FALSE, broken |-> FALSE]
Fault == buhist.faults < BuMaxFaults

-----------------------------------------------------------------------------
(***************************************************************************)
(* Which payloads a release offers this machine                            *)
(***************************************************************************)
isPrimaryAsset(a) == a.kind = "primary"
matchesPlatform(a) == a.platform = BuInfo.platform
matchesAccelerator(a) == a.gpu = BuInfo.gpu
\* Several packages for the platform and accelerator: exactly the detected runtime version.
compatibleRuntimeAssets(S) ==
    IF Cardinality(S) <= 1 THEN S ELSE {a \in S : BuInfo.version # "" /\ a.version = BuInfo.version}
\* CUDA on Windows also needs exactly one matching cudart archive.
selectCUDACompanions(A) ==
    {a \in A : a.kind = "cudart" /\ matchesPlatform(a) /\ (BuInfo.version # "" => a.version = BuInfo.version)}
NeedsCompanion == BuInfo.platform = "windows" /\ BuInfo.gpu = "cuda"
\* The empty set is the code's error: no choice, or more than one.
selectKnownPayloads(A) ==
    LET primary == compatibleRuntimeAssets({a \in A : isPrimaryAsset(a) /\ matchesPlatform(a) /\ matchesAccelerator(a)})
        companions == IF NeedsCompanion THEN selectCUDACompanions(A) ELSE {}
    IN IF Cardinality(primary) = 1 /\ (NeedsCompanion => Cardinality(companions) = 1)
       THEN primary \cup companions ELSE {}
\* The newest release of the manifest that is eligible decides; an older one is not tried.
newestRelease(v) == LET S == {r \in 1..v : BuPrereleases \/ ~BuReleases[r].pre}
                    IN IF S = {} THEN 0 ELSE CHOOSE r \in S : \A q \in S : q <= r

-----------------------------------------------------------------------------
(***************************************************************************)
(* Starting: Ensure, Download, the signed manifest, the payloads           *)
(***************************************************************************)
\* Only the executable is compared with the metadata, never the rest of the tree.
targetIsFresh ==
    /\ budisk.tree["bin"] # 0 /\ budisk.checked
    /\ budisk.meta # 0 /\ budisk.tree["bin"] = budisk.meta
    /\ burepo.direct => budisk.meta = burepo.version

Begin == /\ bu.pc = "idle" /\ buhist.runs < BuMaxRuns
         /\ bu' = [Quiet EXCEPT !.pc = IF burepo.direct THEN "fetch" ELSE "trust",
                                !.rel = IF burepo.direct THEN burepo.version ELSE 0]
         /\ buhist' = [buhist EXCEPT !.runs = @ + 1, !.before = budisk]
         /\ UNCHANGED <<budisk, burepo>>
Ensure == ~targetIsFresh /\ Begin
Download == Begin
Abort == bu' = [bu EXCEPT !.pc = "rollback"]
Fails == Fault /\ buhist' = [buhist EXCEPT !.faults = @ + 1]
\* A step of the undoing fails, after n steps that failed with it: the error is dropped, the rest
\* of the undoing goes on.
BreaksAfter(n) == /\ buhist.faults + n < BuMaxFaults
                  /\ buhist' = [buhist EXCEPT !.faults = @ + n + 1, !.broken = TRUE,
                                              !.lost = @ \/ (budisk'.trust = 0 /\ buhist.before.trust # 0)]

\* prepareTrustedRelease: TUF refuses a repository older than the cached trust; the
\* repository may be a stale mirror, at any version that was ever published.
prepareTrustedRelease ==
    /\ bu.pc = "trust"
    /\ \E v \in 1..burepo.version :
        LET r == newestRelease(v) IN
        bu' = IF v >= budisk.trust /\ r # 0 /\ selectKnownPayloads(BuReleases[r].assets) # {}
              THEN [bu EXCEPT !.pc = "fetch", !.rel = r, !.trust = v]
              ELSE [bu EXCEPT !.pc = "rollback"]
    /\ UNCHANGED <<budisk, burepo, buhist>>
\* A 304 answer, possible only when the recorded URL and the installed file match.
NotModified ==
    /\ bu.pc = "fetch" /\ burepo.direct
    /\ budisk.meta = bu.rel /\ budisk.tree["bin"] = bu.rel
    /\ budisk' = [budisk EXCEPT !.checked = TRUE]
    /\ bu' = Quiet /\ UNCHANGED <<burepo, buhist>>

\* Every payload is downloaded to a temporary directory, its length and SHA-256 checked.
downloadReleasePayloads ==
    /\ bu.pc = "fetch"
    /\ \/ bu' = [bu EXCEPT !.pc = "unpack"] /\ UNCHANGED buhist
       \/ Fails /\ Abort
    /\ UNCHANGED <<budisk, burepo>>

\* An archive with a symbolic link, with an entry outside the install root, or without the
\* executable is refused whole; an entry of another kind (a device, a hard link) is skipped. A
\* payload that is no archive is the executable itself.
EntrySafe(e) == e \notin {"link", "outside"}
Plain(r) == BuReleases[r].plain
SoundArchive(r) == Plain(r) \/ ((\A e \in BuReleases[r].entries : EntrySafe(e)) /\ "bin" \in BuReleases[r].files)
\* The executable is promoted after every other file.
PromotionOrder(r) == SetToSeq(BuReleases[r].files \ {"bin"}) \o <<"bin">>
installReleasePayloads ==
    /\ bu.pc = "unpack"
    /\ \/ /\ bu' = IF SoundArchive(bu.rel) THEN [bu EXCEPT !.pc = "promote", !.todo = PromotionOrder(bu.rel)]
                                           ELSE [bu EXCEPT !.pc = "rollback"]
          /\ UNCHANGED buhist
       \/ Fails /\ Abort
    /\ UNCHANGED <<budisk, burepo>>

-----------------------------------------------------------------------------
(***************************************************************************)
(* Promotion, commit and rollback                                          *)
(***************************************************************************)
\* promoteBinary on one file: drop the old backup, link the installed file to it, rename.
promoteBinary ==
    /\ bu.pc = "promote"
    /\ LET f == Head(bu.todo) IN
       \/ /\ budisk' = [budisk EXCEPT !.tree[f] = bu.rel, !.prev[f] = budisk.tree[f]]
          /\ bu' = [bu EXCEPT !.todo = Tail(@), !.done = Append(@, f),
                              !.pc = IF Len(bu.todo) = 1 THEN "verify" ELSE "promote"]
          /\ UNCHANGED buhist
       \/ /\ Fails /\ Abort
          /\ \E left \in {budisk.prev[f], 0, budisk.tree[f]} : budisk' = [budisk EXCEPT !.prev[f] = left]
    /\ UNCHANGED burepo

verifyPromotedBinary ==
    /\ bu.pc = "verify"
    /\ \/ bu' = [bu EXCEPT !.pc = IF burepo.direct THEN "meta" ELSE "oldtrust"] /\ UNCHANGED buhist
       \/ Fails /\ Abort
    /\ UNCHANGED <<budisk, burepo>>

\* promoteDirectory: the current trust is moved aside, then the refreshed one moved in; the
\* rename that takes the first one back may fail as well.
SetTrustAside ==
    /\ bu.pc = "oldtrust"
    /\ \/ /\ budisk' = [budisk EXCEPT !.trustprev = budisk.trust, !.trust = 0]
          /\ bu' = [bu EXCEPT !.pc = "newtrust"] /\ UNCHANGED buhist
       \/ /\ Fails /\ Abort
          /\ \E left \in {budisk.trustprev, 0} : budisk' = [budisk EXCEPT !.trustprev = left]
    /\ UNCHANGED burepo
promoteDirectory ==
    /\ bu.pc = "newtrust"
    /\ \/ /\ budisk' = [budisk EXCEPT !.trust = bu.trust]
          /\ bu' = [bu EXCEPT !.pc = "meta", !.trusted = TRUE] /\ UNCHANGED buhist
       \/ Fails /\ Abort /\ budisk' = [budisk EXCEPT !.trust = budisk.trustprev, !.trustprev = 0]
       \/ /\ UNCHANGED budisk /\ BreaksAfter(1)
          /\ bu' = [bu EXCEPT !.pc = "rollback", !.broken = TRUE]
    /\ UNCHANGED burepo

\* Written to a temporary file and renamed: from here the update is committed.
writeMetadata ==
    /\ bu.pc = "meta"
    /\ \/ /\ budisk' = [budisk EXCEPT !.meta = bu.rel, !.checked = TRUE]
          /\ bu' = [bu EXCEPT !.pc = "commit"]
          /\ buhist' = [buhist EXCEPT !.high = IF bu.rel > @ THEN bu.rel ELSE @]
       \/ Fails /\ Abort /\ UNCHANGED budisk
    /\ UNCHANGED burepo
\* Commit: the backups are removed, then the files the archive no longer has. Each removal that
\* fails is reported and leaves its file; the others go on, and nothing is rolled back.
Commit ==
    /\ bu.pc = "commit"
    /\ \E stuck \in SUBSET {f \in Range(bu.done) : budisk.prev[f] # 0}, trustStuck \in BOOLEAN :
        /\ trustStuck => bu.trusted /\ budisk.trustprev # 0
        /\ stuck # {} \/ trustStuck => Fault
        /\ budisk' = [budisk EXCEPT !.prev = [f \in BuFiles |-> IF f \in Range(bu.done) \ stuck THEN 0 ELSE @[f]],
                                    !.trustprev = IF bu.trusted /\ ~trustStuck THEN 0 ELSE @]
        /\ buhist' = [buhist EXCEPT !.faults = IF stuck # {} \/ trustStuck THEN @ + 1 ELSE @]
    /\ bu' = [bu EXCEPT !.pc = "obsolete"] /\ UNCHANGED burepo
Obsolete == IF Plain(bu.rel) THEN {} ELSE {f \in BuFiles \ BuReleases[bu.rel].files : budisk.tree[f] # 0}
RemoveObsolete ==
    /\ bu.pc = "obsolete"
    /\ \E stuck \in SUBSET Obsolete :
        /\ stuck # {} => Fault
        /\ budisk' = [budisk EXCEPT !.tree = [f \in BuFiles |-> IF f \in Obsolete \ stuck THEN 0 ELSE @[f]]]
        /\ buhist' = [buhist EXCEPT !.faults = IF stuck # {} THEN @ + 1 ELSE @, !.left = stuck,
                                    !.crashed = FALSE, !.broken = FALSE]
    /\ bu' = Quiet /\ UNCHANGED burepo

\* Rollback, in reverse order: the trust cache, then the files, each removed and then put back. A
\* file that cannot be removed stays the new one, beside its backup.
Rollback ==
    /\ bu.pc = "rollback" /\ ~bu.trusted
    /\ IF bu.done = <<>> THEN bu' = Quiet /\ UNCHANGED <<budisk, buhist>>
       ELSE \/ /\ budisk' = [budisk EXCEPT !.tree[Last(bu.done)] = 0]
               /\ bu' = [bu EXCEPT !.pc = "restore"] /\ UNCHANGED buhist
            \/ /\ UNCHANGED budisk /\ BreaksAfter(0)
               /\ bu' = [bu EXCEPT !.done = Front(@), !.broken = TRUE]
    /\ UNCHANGED burepo
\* Mutant: the rollback forgets the tree it moved away.
RestoreSkipped ==
    /\ bu.pc = "restore"
    /\ bu' = [bu EXCEPT !.pc = "rollback", !.done = Front(@)] /\ UNCHANGED <<budisk, burepo, buhist>>
Restore ==
    /\ bu.pc = "restore"
    /\ LET f == Last(bu.done) IN
       \/ /\ budisk' = [budisk EXCEPT !.tree[f] = budisk.prev[f], !.prev[f] = 0]
          /\ bu' = [bu EXCEPT !.pc = "rollback", !.done = Front(@)] /\ UNCHANGED buhist
       \/ /\ budisk.prev[f] # 0 /\ UNCHANGED budisk /\ BreaksAfter(0)
          /\ bu' = [bu EXCEPT !.pc = "rollback", !.done = Front(@), !.broken = TRUE]
    /\ UNCHANGED burepo
\* The directory may be half removed when its removal fails, which no client can use.
RollbackTrust ==
    /\ bu.pc = "rollback" /\ bu.trusted
    /\ \/ budisk' = [budisk EXCEPT !.trust = 0] /\ bu' = [bu EXCEPT !.pc = "oldtrustback"] /\ UNCHANGED buhist
       \/ /\ \E left \in {0, budisk.trust} : budisk' = [budisk EXCEPT !.trust = left]
          /\ BreaksAfter(0)
          /\ bu' = [bu EXCEPT !.trusted = FALSE, !.broken = TRUE]
    /\ UNCHANGED burepo
RestoreTrust ==
    /\ bu.pc = "oldtrustback"
    /\ \/ /\ budisk' = [budisk EXCEPT !.trust = budisk.trustprev, !.trustprev = 0]
          /\ bu' = [bu EXCEPT !.pc = "rollback", !.trusted = FALSE] /\ UNCHANGED buhist
       \/ /\ budisk.trustprev # 0 /\ UNCHANGED budisk /\ BreaksAfter(0)
          /\ bu' = [bu EXCEPT !.pc = "rollback", !.trusted = FALSE, !.broken = TRUE]
    /\ UNCHANGED burepo
-----------------------------------------------------------------------------
(***************************************************************************)
(* The environment                                                         *)
(***************************************************************************)
\* A crash leaves the disk as it is; the properties note whether the trust cache was between
\* its two renames.
Crash ==
    /\ bu.pc # "idle" /\ Fault
    /\ buhist' = [buhist EXCEPT !.faults = @ + 1, !.crashed = TRUE,
                                !.lost = @ \/ (budisk.trust = 0 /\ buhist.before.trust # 0)]
    /\ bu' = Quiet /\ UNCHANGED <<budisk, burepo>>
CheckInterval == /\ budisk.checked /\ bu.pc = "idle"
                 /\ budisk' = [budisk EXCEPT !.checked = FALSE] /\ UNCHANGED <<bu, burepo, buhist>>
\* A new release is published, or the operator configures another binary URL.
Publish == /\ bu.pc = "idle" /\ burepo.version < Len(BuReleases)
           /\ burepo' = [burepo EXCEPT !.version = @ + 1] /\ UNCHANGED <<bu, budisk, buhist>>

Init == /\ bu = Quiet
        /\ budisk = [tree |-> NoFiles, prev |-> NoFiles, trust |-> 0, trustprev |-> 0, meta |-> 0, checked |-> FALSE]
        /\ burepo \in [version : {1}, direct : BOOLEAN]
        /\ buhist = [faults |-> 0, runs |-> 0, high |-> 0, crashed |-> FALSE, broken |-> FALSE, left |-> {},
                     lost |-> FALSE, before |-> budisk]

Next == \/ Ensure \/ Download \/ prepareTrustedRelease \/ NotModified \/ downloadReleasePayloads
        \/ installReleasePayloads \/ promoteBinary
        \/ verifyPromotedBinary \/ SetTrustAside \/ promoteDirectory \/ writeMetadata \/ Commit
        \/ RemoveObsolete \/ Rollback \/ Restore \/ RollbackTrust \/ RestoreTrust
        \/ Crash \/ CheckInterval \/ Publish

Spec == Init /\ [][Next]_buvars

-----------------------------------------------------------------------------
\* An update that fails at any step leaves the metadata as it was and puts the files and the
\* trust cache back; where a step of the undoing fails too, and its error is dropped, the file
\* that was there is still in its backup.
FailureRestores ==
    bu.pc = "rollback" /\ bu.done = <<>> /\ ~bu.trusted =>
        /\ ~bu.broken => budisk.tree = buhist.before.tree /\ budisk.trust = buhist.before.trust
        /\ \A f \in BuFiles : buhist.before.tree[f] \in {budisk.tree[f], budisk.prev[f]}
        /\ budisk.trust = buhist.before.trust \/ budisk.trustprev = buhist.before.trust
        /\ budisk.meta = buhist.before.meta

\* Between calls, unless a crash or a half-undone failure has not been followed by a completed
\* update, every file of the recorded release is installed from it, and an archive leaves no
\* other file but those whose removal failed and was reported.
TreeMatchesMetadata ==
    bu.pc = "idle" /\ ~buhist.crashed /\ ~buhist.broken /\ budisk.meta # 0 =>
        /\ \A f \in BuReleases[budisk.meta].files : budisk.tree[f] = budisk.meta
        /\ Plain(budisk.meta) \/ \A f \in BuFiles \ BuReleases[budisk.meta].files :
                                    budisk.tree[f] # 0 => f \in buhist.left

\* An executable that was installed is missing only while a rollback puts it back, or when that
\* is cut short by a crash or a failed rename; it is then in its backup.
ExecutableNeverMissing ==
    buhist.before.tree["bin"] # 0 /\ budisk.tree["bin"] = 0 =>
        /\ budisk.prev["bin"] = buhist.before.tree["bin"]
        /\ bu.pc = "restore" \/ buhist.crashed \/ buhist.broken

\* A stale mirror never brings back a release older than one installed before, crashes
\* included, unless one fell, or a rename failed, between the two renames of the trust cache.
NoDowngrade ==
    ~burepo.direct /\ ~buhist.lost /\ bu.pc = "idle" /\ budisk.meta # 0 => budisk.meta >= buhist.high

UpdateSafe == FailureRestores /\ TreeMatchesMetadata /\ ExecutableNeverMissing /\ NoDowngrade
=============================================================================
