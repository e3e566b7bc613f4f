SPECIFICATION FairSpec
CONSTANTS
    Proc = {p1, p2}
    Writers = {p1}
    Readers = {p2}
    None = None
    Key = {"x", "cr", "eof", "bs", "kill", "dump"}
    UART_TX_BUF_SIZE = 2
    TxMax1 = 4
    FIFOSIZE = 2
    INPUT_BUF_SIZE = 2
    UintMax1 = 4
    MaxLen = 2
    Bounded = TRUE
INVARIANTS
    ConsoleInv
    TransmitterNotOverrun
PROPERTIES
    SleepingWriterWakes
    EofGivesEmptyRead
    ImplementsLineEditor
CHECK_DEADLOCK FALSE
