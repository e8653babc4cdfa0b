CONSTANTS
    DescSize = 2
    SliceLens <- MCSliceLens
    SizeFields <- MCSizeFields
    Ports <- MCPorts
    Ids <- MCIds
    Families <- MCFamilies
    MaxSent = 2
SPECIFICATION Spec
CHECK_DEADLOCK FALSE
INVARIANTS
    NoPanic
    CommandsRoundTrip
