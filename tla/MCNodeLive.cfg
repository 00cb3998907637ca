SPECIFICATION FairSpec
CONSTANTS
    Setup = Setup
    Runs = {r1}
    Children = {c1}
    Samplers = {}
    Nested = FALSE
    Confs <- ParentFails
PROPERTIES Ends
CHECK_DEADLOCK FALSE
