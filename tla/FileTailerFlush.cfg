CONSTANTS
    Kind = {"start", "cont"}
    Multiline = TRUE
    IdleFlushAfter = 2
    ChannelSize = 1
    Inode = {i, j}
    NoInode = NoInode
    Connection = {c}
    MaxLines = 4
    MaxPosted = 0
    MaxRotations = 0
    MaxFaults = 0
SPECIFICATION Spec
SYMMETRY InodeSymmetry
CHECK_DEADLOCK FALSE
INVARIANTS
    FlushedOnlyWhenIdle
