SPECIFICATION Spec
CONSTANTS
    dynamic = dynamic
    vdi = vdi
    fixed = fixed
    short = short
    ImageFiles <- MCFiles
    Header <- MCHeader
    Format <- MCFormat
    Readable <- MCFiles
    Writable <- MCWritable
    DIFFERENCING_MAX = 2
    MaxOptions = 4
    NoFile = NoFile
INVARIANTS
    TypeOK
    ChainAsGiven
    WritesAllowed
