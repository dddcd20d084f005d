SPECIFICATION CacheSpec
CONSTANTS
    NPAGE = 3
    Addrs = {1, 2, 3, 4, 5}
    DrawFailureIgnored = TRUE
INVARIANT PagesSorted
