CONSTANTS
    Songs <- TwoSongs
    None = None
    Total <- Lengths
    Times = {0, 90, 240}
    Fds = {4, 5}
SPECIFICATION FairSpec
INVARIANTS
    TypeOK
    OncePerSong
    SessionWhole
PROPERTY UrselfReturns
