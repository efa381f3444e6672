SPECIFICATION BusySpec
CONSTANTS
    r1 = r1  r2 = r2  r3 = r3  u1 = u1  a = a  a2 = a2  b = b
    None = None  Dead = Dead
    HasStart = TRUE
    Requests = {r1, r2}
    Borrowed = {}
    Exact = {}
    Unloaders = {}
    Configs = {a, b}
    Want <- TwoWant
    Fingerprint <- MCFingerprint
    Shareable = {a}
    ModelLoadAttempts = 1
    MaxCrashes = 1
PROPERTIES
    CrashedIsReloaded
