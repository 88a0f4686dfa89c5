CONSTANTS
    Device = {0, 3, 10}
    DriverLine = {3, 10}
    SpuriousLine = {7, 15}
    MaxDepth = 3

SPECIFICATION Spec

INVARIANTS
    IrqInv
    BootSafe
    MaskMirrors
    NotReentered
    NoStuckService
    AlwaysHandled
    NoFalseAlarm
    ClockEnabled
