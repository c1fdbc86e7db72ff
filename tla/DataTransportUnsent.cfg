CONSTANTS
    CCT = CCT
    FLL = FLL
    CSH = CSH
    e1 = e1
    e2 = e2
    e3 = e3
    Registered <- OneTarget
    Events <- TwoEvents
    TargetOf <- SameTargetOf
    QosOf <- FastQosOf
    Answers <- Done
    Nets <- Wifi
    Backlog = 0
SPECIFICATION Spec
PROPERTY ImplementsOutbox
