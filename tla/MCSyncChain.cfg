CONSTANTS
    Node = {A, B}
    Maker = {A}
    Plans <- MCPlans
    MaxQueue = 3
    MaxDrops = 1
    MaxExpires = 1
SPECIFICATION Spec
INVARIANTS
    HeldHasLog

    
    
CHECK_DEADLOCK FALSE
