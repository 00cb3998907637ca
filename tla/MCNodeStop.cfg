SPECIFICATION FairSpec
CONSTANTS
    Setup = Setup
    Runs = {r1}
    Children = {}
    Samplers = {r1}
    Nested = FALSE
    Confs <- Sound
PROPERTIES StopReturns
CHECK_DEADLOCK FALSE
