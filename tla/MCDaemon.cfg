CONSTANTS
    n1 = n1
    n2 = n2
    Listener = Listener
    None = None
    Conns = {n1, n2}
    Fds = {3, 4, 5}
    ListenFd = 3
    Password <- OneWord
    Words <- AllWords
    Lines <- Dialogue
    Splits <- ByeInPieces
    MaxBacklog = 1
    MaxSent = 2
    MaxSubs = 1
CHECK_DEADLOCK FALSE
SPECIFICATION FairSpec
INVARIANTS
    TypeOK
    SelectWatchesAll
    RecvNeverBlocks
    AuthGate
PROPERTY HangupIsNoticed
