SPECIFICATION Spec
CONSTANTS
    r1 = r1  r2 = r2  r3 = r3  u1 = u1  a = a  a2 = a2  b = b
    None = None  Dead = Dead
    HasStart = FALSE
    Requests = {r1, r2, r3}
    Borrowed = {}
    Exact = {}
    Unloaders = {}
    Configs = {a, b}
    Want <- StreamWant
    Fingerprint <- MCFingerprint
    Shareable = {a}
    ModelLoadAttempts = 1
    MaxCrashes = 0
PROPERTIES
    SwitchSparesWindow
