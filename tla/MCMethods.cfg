CONSTANTS
    Socks = {s1, s2}
    Songs = {a, b}
    None = None
    Cells = {h1, h2, h3, h4, h5}
    Spellings <- Written
    Number <- Strtol
    Batteries = {"0", "1"}
    Charges = {1}
    Full = 4
CHECK_DEADLOCK FALSE
SPECIFICATION FairSpec
INVARIANTS
    TypeOK
    HeldOnce
    BattFresh
    NoOldReply
    ShowsThisPass
    NoLiveAbandoned
PROPERTIES
    CronReturns
    Recovers
