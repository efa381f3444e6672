SPECIFICATION Spec
CONSTANTS
    r1 = r1  r2 = r2  r3 = r3  u1 = u1  a = a  a2 = a2  b = b
    None = None  Dead = Dead
    HasStart = TRUE
    Requests = {r1, r2, r3}
    Borrowed = {r1}
    Exact = {r2}
    Unloaders = {u1}
    Configs = {a, a2, b}
    Want <- SafetyWant
    Fingerprint <- MCFingerprint
    Shareable = {a, a2}
    ModelLoadAttempts = 2
    MaxCrashes = 1
INVARIANTS
    TypeOK
    SwitchIsExclusive
    LeasesAccounted
    LeaseMatchesBackend
    RecordMatchesBackend
    NoOrphanTicket
    NoLostWakeup
    PreemptedNeverHolds
    OwnWorkIsSeen
PROPERTIES
    ClaimHitsItsTarget
    ImplementsLease
