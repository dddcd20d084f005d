SPECIFICATION CpuSpec
CONSTANTS
    W = 8
    Values = {0, 1, 2, 3, 7, 8, 17, 127, 128, 129, 253, 255}
    Imms = {0}
    PAGE_SIZE = 8
    MemSize = 16
    Ops = {"MUL", "MULH", "MULHSU", "MULHU"}
PROPERTY ProductsAsIsa
