SPECIFICATION Spec
INVARIANTS
    ProcessesSafe
    RuntimesSafe
    RegistrySafe
    
    
    PathSafe
CHECK_DEADLOCK FALSE
