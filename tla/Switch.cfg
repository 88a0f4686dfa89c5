CONSTANTS
    init_task = init_task
    Task = {init_task, t1, t2}
    MaxFrames = 1
    MaxNested = 2
    MaxValue = 2

SPECIFICATION Spec

INVARIANTS
    RunsOwnCode
    OwnRegisters
    StackBalanced
    ReturnCode
    ListIntact

PROPERTIES
    ImplementsSched
