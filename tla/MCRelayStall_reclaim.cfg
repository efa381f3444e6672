SPECIFICATION LiveSpec
CONSTANTS
    Requests = {r1, r2}
    Expiries = {x1}
PROPERTIES
    ReclaimedWereAsked
