SPECIFICATION SpecSlots
CONSTANT NConns = 4
INVARIANTS
    SlotTypeOK
    SlotAccounting
    SlotBounds
