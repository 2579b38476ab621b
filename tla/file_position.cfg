\* Regular-file reads against spec 4.2: file_position <= length.
CONSTANTS
    BLOCK_SIZE = 2
    FILENAME_LEN = 2
    DirCount = 5
    DENTRY_SIZE = 7
    DentryName <- MCDentryName
    DentryType <- MCDentryType
    DentryInode <- MCDentryInode
    OpenNames <- MCOpenNames
    ElfInodes = {1}
    maxInputLength = 7
    MaxProcs = 2
    MaxFd = 2
    Commands <- MCCommands
    InodeLen <- MCInodeLen
    InodeBlocks <- MCInodeBlocks
    FileReadSizes <- MCFileReadSizes
    DirReadSizes <- MCDirReadNames
SPECIFICATION Spec
INVARIANT FilePositionBound
