SPECIFICATION Spec
CONSTANTS
    Threads = {t1, t2}
    Pages = {p1, p2, p3, p4}
    Slots <- MCSlots
    MaxUses = 6
    MaxEdits = 2
    None = none
SYMMETRY MCSymmetry
INVARIANT RendersWhole
