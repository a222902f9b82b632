SPECIFICATION FairSpec
CONSTANTS
    r1 = r1
    r2 = r2
    tip = tip
    base = base
    head = head
    Nobody = Nobody
    Run = {r1, r2}
    Commit = {tip, base, head}
    BaseTip <- MCBaseTip
    ForkPoint <- MCForkPoint
    HeadSha <- MCHeadSha
    Capacity = 1
    Eventful = {r1}
    MaxSweeps = 1
    MaxFaults = 1

    
    
PROPERTIES
    CancelledStartsNothing
    RunsEnd
CHECK_DEADLOCK FALSE
