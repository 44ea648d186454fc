SPECIFICATION Spec
CONSTANTS
    Word = {w1, w2}
    Capacity = 4
    IndexMod = 8
INVARIANTS
    TypeOK
    SlotsApart
    StatusHolds
PROPERTIES
    ImplementsFifo
