CONSTANTS
    c1 = c1
    c2 = c2
    r1 = r1
    r2 = r2
    r3 = r3
    None = None
    Conns = {c1, c2}
    Reqs = {r1, r2, r3}
    Modules <- OneModule
    Vars <- Texts
    Parent <- Owner
    Values <- TwoTexts
    Unreliable = {}
    Exclusive = FALSE
    Onces = {FALSE}
    Leave = FALSE
SPECIFICATION Spec
SYMMETRY Interchangeable
CHECK_DEADLOCK FALSE
INVARIANTS
    CountAtRest
    CallIsMapped
    ListIsLinked
