----------------------------- MODULE TufPublish -----------------------------
(***************************************************************************)
(* Publication of the TUF repository (internal/tufpublish and the          *)
(* tensor-router-tuf-publisher command): the public repository's metadata, *)
(* one publication being written to its output directory, the offline      *)
(* rotation of the top-level targets, and a client that keeps a trust      *)
(* cache.  A target's body is represented by the release it describes.     *)
(***************************************************************************)
EXTENDS Naturals, FiniteSets

CONSTANTS TpPlatforms,  \* requiredVLLMPlatforms
          TpDevices,    \* platform -> devices the release matrix requires
          TpBundles,    \* runtime evidence bundles offered to the publisher
          TpMaxVersion, \* publications
          TpMaxTime     \* days

VARIABLES tprepo,  \* the public repository
          tpwork,  \* the publisher: pc, the publication it signed, files of the output directory
          tprot,   \* the rotation request: the targets version it was built from, its expiry
          tpcache, \* a client's trusted metadata
          tptime   \* the day

tpvars == <<tprepo, tpwork, tprot, tpcache, tptime>>

Paths == {"upstreams"} \cup TpPlatforms
Role(path) == IF path = "upstreams" THEN "upstreams" ELSE "runtimes"
NoBundle == [platforms |-> {}]
NoWork == [pc |-> "idle", next |-> [tsver |-> 0], files |-> {}]
NoRotation == [from |-> 0, expires |-> 0]
\* Validity in days of what the publisher signs, scaled: timestamp 2, snapshot 14, delegated 30.
TimestampLife == 1
SnapshotLife == 2
DelegatedLife == 3
YearLimit == 8
RootExpires == TpMaxTime - 1

-----------------------------------------------------------------------------
(***************************************************************************)
(* Runtime evidence                                                        *)
(***************************************************************************)
validateRuntimeEvidenceEnvelope(b) ==
    /\ b.commit /\ b.fresh /\ b.platforms # {} /\ Cardinality(b.platforms) <= Cardinality(TpPlatforms)
\* A GitHub-hosted runner attests only a CPU profile; every check must have passed.
validateResultRunner(r) == r.runner = "self-hosted" \/ (r.runner = "github-hosted" /\ r.device = "cpu")
validateResultChecks(r) == r.passed
validateProfileResult(r) == validateResultRunner(r) /\ validateResultChecks(r)
\* Each device of the manifest has exactly one result, and there is no other result.
validateProfileEvidence(m) ==
    /\ \A r \in m.results : r.device \in m.devices /\ validateProfileResult(r)
    /\ \A d \in m.devices : Cardinality({r \in m.results : r.device = d}) = 1
LoadRuntimeEvidence(b) ==
    /\ validateRuntimeEvidenceEnvelope(b)
    /\ \A m \in b.platforms : m.platform \in TpPlatforms /\ validateProfileEvidence(m)
    /\ \A m, n \in b.platforms : m.platform = n.platform => m = n
\* Every required platform is present, all of one release, with the required devices.
ValidateReleaseProfileMatrix(b) ==
    /\ {m.platform : m \in b.platforms} = TpPlatforms
    /\ \A m, n \in b.platforms : m.release = n.release
    /\ \A m \in b.platforms : TpDevices[m.platform] \subseteq m.devices

\* The runtime targets of a publication: those of the bundle, or the published ones when the
\* publisher is given none.
RuntimeTargets(b) ==
    [p \in TpPlatforms |-> IF b = NoBundle THEN tprepo.targets[p]
                           ELSE IF \E m \in b.platforms : m.platform = p
                                THEN (CHOOSE m \in b.platforms : m.platform = p).release ELSE 0]
\* Discover reads the upstream releases of this moment; an upstream may fail.
Discover(b, u) == [p \in Paths |-> IF p = "upstreams" THEN u ELSE RuntimeTargets(b)[p]]

-----------------------------------------------------------------------------
(***************************************************************************)
(* Publish                                                                 *)
(***************************************************************************)
Expired(t) == t <= tptime
authorizePublication(T) ==
    /\ RootExpires > tptime
    /\ \A p \in Paths : T[p] # 0 => Role(p) \in tprepo.delegates

\* signPublication: new delegated, snapshot and timestamp, each one version on; the snapshot
\* names the top-level targets.json that is current.
signPublication(T) ==
    [tprepo EXCEPT !.targets = T, !.dver = @ + 1, !.dexp = tptime + DelegatedLife,
                   !.sver = @ + 1, !.sexp = tptime + SnapshotLife, !.smeta = [t |-> tprepo.tver, d |-> tprepo.dver + 1],
                   !.tsver = @ + 1, !.tsexp = tptime + TimestampLife, !.tsmeta = tprepo.sver + 1]
Publish(b) ==
    /\ tpwork.pc = "idle" /\ tprepo.tsver < TpMaxVersion
    /\ b # NoBundle => LoadRuntimeEvidence(b) /\ ValidateReleaseProfileMatrix(b)
    /\ \E u \in {tprepo.targets["upstreams"], tprepo.targets["upstreams"] + 1} :
        /\ authorizePublication(Discover(b, u))
        /\ tpwork' = [pc |-> "metadata", next |-> signPublication(Discover(b, u)), files |-> {}]
    /\ UNCHANGED <<tprepo, tprot, tpcache, tptime>>

\* The output directory gets the delegated and snapshot metadata, the targets, and the
\* timestamp last; any write may fail, and the run then ends with a partial output.
writePublication ==
    /\ tpwork.pc \in {"metadata", "targets", "timestamp"}
    /\ tpwork' = [tpwork EXCEPT !.files = @ \cup {tpwork.pc},
                                !.pc = [metadata |-> "targets", targets |-> "timestamp", timestamp |-> "verify"][@]]
    /\ UNCHANGED <<tprepo, tprot, tpcache, tptime>>
WriteFails ==
    /\ tpwork.pc \in {"metadata", "targets", "timestamp"}
    /\ tpwork' = NoWork /\ UNCHANGED <<tprepo, tprot, tpcache, tptime>>

\* What a client with trust c accepts of repository r at this time: nothing expired, no
\* version going back, a snapshot that names the files it finds.
Accepts(c, r) ==
    /\ RootExpires > tptime /\ ~Expired(r.tsexp) /\ ~Expired(r.sexp) /\ ~Expired(r.dexp)
    /\ r.tsver >= c.tsver /\ r.tsmeta = r.sver /\ r.sver >= c.sver
    /\ r.smeta.t >= c.tver /\ r.smeta.t <= r.tver
    /\ r.smeta.d = r.dver /\ r.dver >= c.dver
NoTrust == [tsver |-> 0, sver |-> 0, tver |-> 0, dver |-> 0, targets |-> [p \in Paths |-> 0]]

\* Verify with a clean cache, then the verified output replaces the public repository.
Verify ==
    /\ tpwork.pc = "verify"
    /\ tprepo' = IF tpwork.files = {"metadata", "targets", "timestamp"} /\ Accepts(NoTrust, tpwork.next)
                 THEN tpwork.next ELSE tprepo
    /\ tpwork' = NoWork /\ UNCHANGED <<tprot, tpcache, tptime>>

-----------------------------------------------------------------------------
(***************************************************************************)
(* Rotation of the top-level targets                                       *)
(***************************************************************************)
validateRotatedTargetsExpiration(e) == e > tptime /\ e > tprepo.texp /\ e <= tptime + YearLimit
\* loadRotationSource verifies the repository; only the vLLM delegation may be added.
buildTargetsRotation(e) ==
    /\ RootExpires > tptime /\ Accepts(NoTrust, tprepo)
    /\ validateRotatedTargetsExpiration(e) /\ tprepo.delegates = {"upstreams"}
PrepareTargetsRotation(e) ==
    /\ tprot = NoRotation /\ buildTargetsRotation(e)
    /\ tprot' = [from |-> tprepo.tver, expires |-> e]
    /\ UNCHANGED <<tprepo, tpwork, tpcache, tptime>>
\* The offline signatures arrive later: the candidate must still be the rotation of what is
\* published now, and its version must not exist.
InstallTargetsRotation ==
    /\ tprot # NoRotation /\ tpwork.pc = "idle"
    /\ tprepo' = IF buildTargetsRotation(tprot.expires) /\ tprot.from = tprepo.tver
                 THEN [tprepo EXCEPT !.tver = @ + 1, !.texp = tprot.expires, !.delegates = {"upstreams", "runtimes"}]
                 ELSE tprepo
    /\ tprot' = NoRotation /\ UNCHANGED <<tpwork, tpcache, tptime>>

-----------------------------------------------------------------------------
\* A client refreshes from the repository it finds and keeps what it accepted.
Refresh ==
    /\ Accepts(tpcache, tprepo)
    /\ tpcache' = [tsver |-> tprepo.tsver, sver |-> tprepo.sver, tver |-> tprepo.smeta.t, dver |-> tprepo.dver,
                   targets |-> tprepo.targets]
    /\ UNCHANGED <<tprepo, tpwork, tprot, tptime>>
Day == /\ tptime < TpMaxTime /\ tptime' = tptime + 1 /\ UNCHANGED <<tprepo, tpwork, tprot, tpcache>>

Init == /\ tprepo = [tver |-> 1, texp |-> 2, delegates |-> {"upstreams"}, dver |-> 1, dexp |-> DelegatedLife,
                     targets |-> [p \in Paths |-> IF p = "upstreams" THEN 1 ELSE 0],
                     sver |-> 1, sexp |-> SnapshotLife, smeta |-> [t |-> 1, d |-> 1],
                     tsver |-> 1, tsexp |-> TimestampLife, tsmeta |-> 1]
        /\ tpwork = NoWork /\ tprot = NoRotation /\ tpcache = NoTrust /\ tptime = 0

Next == \/ \E b \in TpBundles \cup {NoBundle} : Publish(b)
        \/ writePublication \/ WriteFails \/ Verify
        \/ \E e \in {2, TpMaxTime} : PrepareTargetsRotation(e)
        \/ InstallTargetsRotation \/ Refresh \/ Day

Spec == Init /\ [][Next]_tpvars

-----------------------------------------------------------------------------
\* Whatever a client trusted before, an unexpired repository is one it accepts: publications
\* and rotations, in any order, never look like a rollback or a mix-and-match.
ClientsFollow ==
    RootExpires > tptime /\ ~Expired(tprepo.tsexp) /\ ~Expired(tprepo.sexp) /\ ~Expired(tprepo.dexp)
        => Accepts(tpcache, tprepo)

\* The delegated role never lists a target the top-level targets do not delegate.
TargetsDelegated == \A p \in Paths : tprepo.targets[p] # 0 => Role(p) \in tprepo.delegates

\* The runtimes of all platforms are published together, of one release, and a client that
\* has a platform's runtime never sees it dropped.
RuntimesTogether ==
    /\ \A p, q \in TpPlatforms : tprepo.targets[p] = tprepo.targets[q]
    /\ \A p \in TpPlatforms : tpcache.targets[p] # 0 => tprepo.targets[p] # 0

PublicationSafe == ClientsFollow /\ TargetsDelegated /\ RuntimesTogether
=============================================================================
