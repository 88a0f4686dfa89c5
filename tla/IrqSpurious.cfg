CONSTANTS
    Device = {0}
    DriverLine = {}
    SpuriousLine = {7}
    MaxDepth = 2

SPECIFICATION Spec

INVARIANT SpuriousOnlyReported
