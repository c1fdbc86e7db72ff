CONSTANTS
    CCT = CCT
    FLL = FLL
    CSH = CSH
    e1 = e1
    e2 = e2
    e3 = e3
    Registered <- TwoTargets
    Events <- TwoEvents
    TargetOf <- TwoTargetOf
    QosOf <- TwoQosOf
    Answers <- Done
    Nets <- SomeNets
    Backlog = 0
SPECIFICATION FairSpec
INVARIANT UploaderFree
PROPERTY EventuallySent
