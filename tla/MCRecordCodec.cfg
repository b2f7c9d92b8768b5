CONSTANTS
    Files <- MCFiles
    Args <- MCArgs
SPECIFICATION Spec
INVARIANTS
    TypeOK
    BuffersExact
    RoundTrip
    SelectsExact
    FileStored
