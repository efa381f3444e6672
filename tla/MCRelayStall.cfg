SPECIFICATION LiveSpec
CONSTANTS
    Requests = {r1, r2}
    Expiries = {x1, x2}
INVARIANTS
    InFlightIsWatched
    NoOrphanEntry
PROPERTIES
    AnsweredIsSafe
    HungLosesAll
