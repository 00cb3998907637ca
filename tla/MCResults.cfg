SPECIFICATION Spec
CONSTANTS
    Instances = {i1, i2}
    MaxTests = 2
    Values = {v1, v2}
    MaxTime = 4
    Confs <- MCConfs
SYMMETRY Symmetry
INVARIANTS ResultsInv ResultsCoherent ErrorsReRun EndsClean OneWriter
PROPERTIES NonDestructive
CHECK_DEADLOCK FALSE
