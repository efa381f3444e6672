SPECIFICATION Spec
CONSTANTS
    n1 = n1  n2 = n2  n3 = n3  b1 = b1  b2 = b2  x = x  y = y
    NoModel = NoModel
    Jobs = {n1, n2, n3, b1, b2}
    Borrowed = {b1, b2}
    Streaming = {n3}
    Models = {x, y}
    Owners = {x}
    ModelOf <- MCModelOf
    MaxDepth = 2
    MaxSlots = 2
SYMMETRY NativeSymmetry
INVARIANTS
    QueueIsSound
    NeverIdleWithWork
    HeldIsRechecked
    OwnWorkHasPriority
    LentOnce
PROPERTIES
    AdmissionWithinDepth
    LendingWithinSlots
