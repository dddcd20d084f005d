SPECIFICATION FunctionsSpec
CONSTANTS
    NPAGE = 4
    Addrs = {1, 2, 3, 4, 5, 6}
    DrawFailureIgnored = FALSE
    MaxEntries = 8
    MaxCounter = 2
    MaxProofs = {2, 3}
    W = 8
    Values = {0, 1, 2, 7, 8, 127, 128, 129, 255}
    Imms = {0, 1, 4, 128, 255}
    PAGE_SIZE = 8
    MemSize = 16
    Ops = {"ADD", "SUB", "AND", "OR", "XOR", "SLL", "SRL", "SRA", "SLT", "SLTU",
           "ADDI", "ANDI", "ORI", "XORI", "SLLI", "SRLI", "SRAI", "SLTI", "SLTIU",
           "LUI", "AUIPC", "JAL", "JALR",
           "BEQ", "BNE", "BLT", "BGE", "BLTU", "BGEU",
           "LB", "LH", "LW", "LBU", "LHU", "SB", "SH", "SW",
           "MUL", "MULH", "MULHSU", "MULHU", "DIV", "DIVU", "REMU",
           "REM", "FENCE", "FENCE_TSO", "PAUSE",
           "EBREAK", "UNKNOWN"}
    WordBits = 4
    Words = 2
    SegmentPage = 4
    HEAP_SIZE = 8
    mtu = 153
INVARIANTS
    PagesSorted FindsEveryPage
    TreesOfHostAndDevice ExactProofs
    IntegersOfTheVm TransactionsDecode PrintedReadsBack ProgramsRun FramesCarryTheApdu
PROPERTIES ReturnsThePage EvictsOnlyTheVictim ExecutesAsIsa
CHECK_DEADLOCK FALSE
