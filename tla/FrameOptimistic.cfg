CONSTANTS
    MaxInterpolatedFrames = 1
    MaxFrames = 3
    BootFrames = 1
    MaxDraws = 1
    Faults = {"surface", "create"}
    MaxFaults = 2
    FaultyFrames = 3
SPECIFICATION Spec
PROPERTY RecordsIntoBegunFrame
