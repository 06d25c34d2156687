CONSTANTS
    c1 = c1
    Null = Null
    Empty = Empty
    Names <- AllNames
    Canon <- Folded
    Texts <- AllTexts
    True = "True"
    Integer <- Atoi
    Double <- Atof
    Truth <- Said
    Objects = {"mpd_so", "date_so", "data_so"}
    Foreign = {"data_so"}
    ModuleName <- Named
    Registers <- Registering
    CronSection = "cron"
    TimeoutSection = "timeout"
    Files <- ThreeFiles
    Daemon = "daemon"
    GlobalSleep = "global_sleep"
    NoFile = TRUE
    Orders <- Listings
    Conns = {c1}
    MaxReqs = 2
SPECIFICATION FairSpec
CHECK_DEADLOCK FALSE
INVARIANTS
    TypeOK
    RegistryWhole
    TimeoutsHold
    ThreadWithinRun
    ThreadServes
    ReloadNotLost
    
    LookupIsFirst
PROPERTY FlagHeeded
