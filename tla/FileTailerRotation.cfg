CONSTANTS
    Kind = {"start"}
    Multiline = FALSE
    IdleFlushAfter = 2
    ChannelSize = 1
    Inode = {i, j}
    NoInode = NoInode
    Connection = {c}
    MaxLines = 2
    MaxPosted = 0
    MaxRotations = 1
    MaxFaults = 0
SPECIFICATION Spec
SYMMETRY InodeSymmetry
CHECK_DEADLOCK FALSE
INVARIANTS
    RotationDetected
