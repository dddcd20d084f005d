SPECIFICATION Spec
CONSTANTS
    CodeStart = 1
    CodeEnd = 2
    DataStart = 2
    DataEnd = 5
    StackStart = 7
    StackEnd = 7
    Bss = 3
    CodeSlots = {c1}
    DataSlots = {d1, d2}
    StackSlots = {s1}
    MAX_IV = 2
    Vals = {"z", "v"}
    Zero = "z"
    Garbage = "g"
    Image <- MCImage
    Accesses = {1, 2, 3, 4}
    MaxSealed = 1
    MaxLeaves = 128
    HostReliable = FALSE
INVARIANT TypeOK
INVARIANT NoIvReuse
INVARIANT NoDuplicatePage
INVARIANT InsertsAreFresh
PROPERTY ImplementsFlatMemory
PROPERTY CountersGrowByOne
