CONSTANTS
    Device = {0, 1}
    DriverLine = {1}
    SpuriousLine = {}
    MaxDepth = 2

SPECIFICATION FairSpec

PROPERTIES
    TickTaken
    HaltWakes
    PanicIsFinal
