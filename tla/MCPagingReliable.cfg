SPECIFICATION FairSpec
CONSTANTS
    CodeStart = 1
    CodeEnd = 2
    DataStart = 2
    DataEnd = 5
    StackStart = 7
    StackEnd = 9
    Bss = 3
    CodeSlots = {c1}
    DataSlots = {d1}
    StackSlots = {s1}
    MAX_IV = 2
    Vals = {"z", "v"}
    Zero = "z"
    Garbage = "g"
    Image <- MCImage
    Accesses = {1, 2, 4, 7, 9}
    MaxSealed = 0
    MaxLeaves = 4
    HostReliable = TRUE
INVARIANT StopsOnlyForCause
INVARIANT HostInSync
PROPERTY FaultsEnd
