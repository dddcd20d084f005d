SPECIFICATION Spec
CONSTANTS
    PAGE_SIZE = 2
    NPages = 3
    ReadOnly = {0}
    Slots = {1, 2}
    Bytes = {0, 1}
    MaxSize = 4
INVARIANT CallsAsReference
INVARIANT FailsForCause
PROPERTY CallsReturn
