SPECIFICATION FairSpec
CONSTANTS
    r1 = r1  r2 = r2  r3 = r3  r4 = r4
    kobold = kobold  vllm = vllm
    text = text  vtext = vtext  vembed = vembed
    NoMode = NoMode
    Requests = {r1, r2, r3, r4}
    Modes = {kobold, vllm}
    Lanes = {text, vtext, vembed}
    LaneMode <- MCLaneMode
    Primary = {text, vtext}
    LaneOf <- MCLaneOf
    Policy <- MCPolicy
    StartsProcess = {kobold}
INVARIANTS
    FamilySafe
    UsersRunOnCurrentFamily
PROPERTIES
    LanesKeepPromise
    FamilySwitchEnds
