CONSTANTS
    MaxInterpolatedFrames = 1
    MaxFrames = 3
    BootFrames = 1
    MaxDraws = 1
    Faults = {"window", "resize", "surface", "create", "present", "map"}
    MaxFaults = 2
    FaultyFrames = 2
SPECIFICATION FairSpec
INVARIANT TypeOK FramesNotMixed PicturesTrue
PROPERTY NotUnderPresent PresentsInOrder NewestGroupKept ProducerNeverStuck
