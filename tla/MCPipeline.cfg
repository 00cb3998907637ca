SPECIFICATION PipeFairSpec
CONSTANTS
    Pipelines <- AllPipelines
    Cap = 1
INVARIANTS PipelineInv CompleteOrError NothingLeft
PROPERTIES PipelineEnds
