SPECIFICATION FairSpec
CONSTANT Trees <- AllTrees
INVARIANTS RunInv ReturnMeansDone NodeLaunched
PROPERTIES StartsInTurn TreeEnds
