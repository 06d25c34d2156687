CONSTANTS
    c1 = c1
    c2 = c2
    r1 = r1
    r2 = r2
    r3 = r3
    None = None
    Conns = {c1}
    Reqs = {r1, r2}
    Modules <- OneModule
    Vars <- Texts
    Parent <- Owner
    Values <- OneText
    Unreliable = {"mpd"}
    Exclusive = TRUE
    Onces = {FALSE, TRUE}
    Leave = TRUE
SPECIFICATION Spec
CHECK_DEADLOCK FALSE
PROPERTY Implements
