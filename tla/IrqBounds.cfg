CONSTANTS
    Device = {0}
    DriverLine = {1, 16}
    SpuriousLine = {}
    MaxDepth = 1

SPECIFICATION Spec

INVARIANT UnsupportedRefused
