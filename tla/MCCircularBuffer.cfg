CONSTANTS
    a = a
    b = b
    Capacity = 3
    Elem <- MCElem
    Chunks <- MCChunks
    Counts <- MCCounts
SPECIFICATION Spec
INVARIANTS TypeOK FlagsAgree
PROPERTY ImplementsFifo
