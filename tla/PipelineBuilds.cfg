CONSTANTS
    GXPipelines = {gx1, gx2}
    ClearPipelines = {clear}
    Stored = {gx1, clear}
    Workers = {w1, w2}
    MaxQueuedPipelineBuilds = 1
    MaxDraws = 1
SPECIFICATION FairSpec
INVARIANTS TypeOK PendingExact QueuedCounts WantedStays NobodyForgotten
PROPERTIES NeededDrawsDrawn FrameIsEncoded
