CONSTANTS
    Kind = {"start", "cont", "bad"}
    Multiline = TRUE
    IdleFlushAfter = 2
    ChannelSize = 1
    Inode = {i, j}
    NoInode = NoInode
    Connection = {c, d}
    MaxLines = 3
    MaxPosted = 2
    MaxRotations = 1
    MaxFaults = 1
SPECIFICATION MCSpec
CHECK_DEADLOCK FALSE
INVARIANTS
    TypeOK
    InOrderOnce
    NothingSkipped
PROPERTIES
    EventuallyInWal
