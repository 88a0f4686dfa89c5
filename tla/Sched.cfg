CONSTANTS
    init_task = init_task
    Task = {init_task, t1, t2, t3, t4}

SPECIFICATION FairSpec

INVARIANTS
    TypeOK
    NoBug
    NoLostTask
    ZombieNeverRuns
    SchedInv

PROPERTIES
    ImplementsRoundRobin
    NoStarvation
