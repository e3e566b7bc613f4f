SPECIFICATION FairSpec
CONSTANTS
    Proc = {w1, r1}
    Writers = {w1}
    Readers = {r1}
    Killable = {r1}
    Byte = {0, 1}
    PIPESIZE = 2
    UintMax1 = 4
    MaxLen = 3
    NoProc = NoProc
INVARIANTS
    SleepingReaderHasReason
    FreedUnused
PROPERTIES
    EndOfFileIsTrue
    WriteReturns
    ImplementsByteStream
CHECK_DEADLOCK FALSE
