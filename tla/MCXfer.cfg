SPECIFICATION FairSpec
CONSTANTS
    PAGE_SIZE = 4
    SEND_SIZE = 3
    MemSize = 8
    Addrs = {3, 6}
    RecvSizes = {0, 1, 5}
    SendSizes = {0, 2, 5}
    Lengths = {0, 1, 4, 5}
    MaxExchanges = 2
INVARIANT RepliesAreWhole
INVARIANT HostFailsForCause
INVARIANT ExitStopsApp
PROPERTY MessagesAreWhole
PROPERTY CallsEnd
