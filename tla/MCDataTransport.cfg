CONSTANTS
    CCT = CCT
    FLL = FLL
    CSH = CSH
    e1 = e1
    e2 = e2
    e3 = e3
    Registered <- TwoTargets
    Events <- ThreeEvents
    TargetOf <- OrdinaryTargetOf
    QosOf <- OrdinaryQosOf
    Answers <- Done
    Nets <- AllNets
    Backlog = 0
SPECIFICATION Spec
INVARIANTS AtMostOnce NotForgotten
PROPERTY ImplementsOutbox
