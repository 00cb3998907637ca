SPECIFICATION Spec
CONSTANTS
    Setup = Setup
    Runs = {r1}
    Children = {c1, c2}
    Samplers = {r1}
    Nested = TRUE
    Confs <- MCConfs
SYMMETRY Symmetry
INVARIANTS NodeInv Quiescent SetupMeansReady
PROPERTIES KeepsPromise
CHECK_DEADLOCK FALSE
