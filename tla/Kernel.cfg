CONSTANTS
    init_task = init_task
    t1 = t1
    t2 = t2
    t3 = t3
    t4 = t4
    t5 = t5
    t6 = t6
    t7 = t7
    t8 = t8
    t9 = t9
    Task <- MCTask
    TaskOrder <- MCTaskOrder
    Device = {0, 1}
    MaxDepth = 2

SPECIFICATION Spec

INVARIANTS
    HaltIsSafe

PROPERTIES
    EveryoneGreets
    InTurn
