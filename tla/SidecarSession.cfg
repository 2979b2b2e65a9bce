SPECIFICATION Spec
SYMMETRY Symmetry
CONSTANTS
    Ink = {i1, i2, i3}
    Highlights = {h1}
    Notes = {n1}
    Pages = {p1, p2}
    Versions = {0, 1}
    MaxOps = 2
    Other = other
    None = none
    Bundle <- MCBundle
CONSTRAINT Undisturbed
INVARIANTS TypeOK ListsMatchStore
PROPERTIES IsHistory
