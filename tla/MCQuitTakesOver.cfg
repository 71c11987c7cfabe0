SPECIFICATION Spec
CONSTANTS
    MaxTurns = 2
    BufferSize = 2
CHECK_DEADLOCK FALSE
PROPERTIES
    QuitTakesOver
