CONSTANTS
    n1 = n1
    n2 = n2
    Listener = Listener
    None = None
    Conns = {n1, n2}
    Fds = {3, 4, 5}
    ListenFd = 3
    Password = None
    Words <- AllWords
    Lines <- JustVar
    Splits = {}
    MaxBacklog = 1
    MaxSent = 2
    MaxSubs = 2
CHECK_DEADLOCK FALSE
SPECIFICATION Spec
INVARIANT SubscriberAlive
