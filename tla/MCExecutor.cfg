\* Chunks of two bytes and a limit of three: a stream ends below, at and beyond the limit, and the
\* limit falls into the middle of a chunk.
CONSTANTS
    Limit = 3
    Chunk = 2
    MaxBytes = 4
    Entries <- MCEntries
SPECIFICATION CSpec
INVARIANTS
    ExecutionTypeOK
    NothingRunsOn
    OutputIsWhole
    ZeroIsTheCommands
    CheckedTreeStays
PROPERTIES
    KeepsExecution
CHECK_DEADLOCK FALSE
