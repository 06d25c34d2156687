CONSTANTS
    c1 = c1
    c2 = c2
    r1 = r1
    r2 = r2
    r3 = r3
    None = None
    Conns = {c1, c2}
    Reqs = {r1, r2}
    Modules <- OneModule
    Vars <- TextAndCron
    Parent <- OwnerOne
    Kind <- KindOne
    Timeout <- TimeoutOne
    Values <- SteadyText
    Unreliable = {}
CHECK_DEADLOCK FALSE
SPECIFICATION Spec
INVARIANT FirstAnswer
