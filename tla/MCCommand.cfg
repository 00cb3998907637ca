SPECIFICATION FairSpec
CONSTANTS
    Confs <- MCConfs
    PipeLen = 1
INVARIANTS CommandInv CommandComplete
PROPERTIES CommandEnds
