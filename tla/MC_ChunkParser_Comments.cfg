CONSTANTS
    Base = 2
    Limit = 2
    CmMin = 2
    PowTarget = 26
    MaxPayload = 2
    MaxStream = 5
    DecryptCanFail = TRUE
SPECIFICATION Spec
CHECK_DEADLOCK FALSE
PROPERTY
    CommentsPreserved
