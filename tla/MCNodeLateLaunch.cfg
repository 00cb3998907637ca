SPECIFICATION FairSpec
CONSTANTS
    Setup = Setup
    Runs = {}
    Children = {c1}
    Samplers = {}
    Nested = FALSE
    Confs <- Sound
INVARIANTS ChildrenCanceled
CHECK_DEADLOCK FALSE
