\* Regular-file reads of every size and whole-name directory reads.
CONSTANTS
    BLOCK_SIZE = 2
    FILENAME_LEN = 2
    DirCount = 5
    DENTRY_SIZE = 7
    DentryName <- MCDentryName
    DentryType <- MCDentryType
    DentryInode <- MCDentryInode
    OpenNames <- MCOpenNames
    ElfInodes = {1}
    maxInputLength = 7
    MaxProcs = 2
    MaxFd = 2
    Commands <- MCCommands
    InodeLen <- MCInodeLen
    InodeBlocks <- MCInodeBlocks
    FileReadSizes <- MCFileReadSizes
    DirReadSizes <- MCDirReadNames
SPECIFICATION Spec
INVARIANT TypeOK
INVARIANT FileBytesFaithful
INVARIANT DirListing
INVARIANT OpenResolvesName
INVARIANT GetargsReturnsArgs
