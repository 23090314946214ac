CONSTANTS
    a0 = a0  b0 = b0  c0 = c0  d1 = d1
    s00 = s00  s01 = s01  s11 = s11
    Empty = Empty
    NumSets = 2
    CoherentAssoc = 3
    NumSpmWays = 2
    SeparateBacking = FALSE
    SpmSetStride = 1
    MaxCopies = 2
    Lines <- MCLines
    LineSet <- MCLineSet
    Slots <- MCSlots
    SlotSet <- MCSlotSet
    SlotWay <- MCSlotWay
SPECIFICATION SlotsSpec
INVARIANTS LookupExact ClaimsExact ReplacementExists
PROPERTY NoSilentLoss
