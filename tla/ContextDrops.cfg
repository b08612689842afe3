SPECIFICATION Spec
CONSTANTS
    Guards = {g1, g2}
    Spans = {s1}
    Entries = {v1}
    NoSpan = NoSpan
    NoEntry = NoEntry
    Hole = Hole
    MaxPos = 5
SYMMETRY Symmetry
INVARIANTS
    NothingDroppedInBorrow
