CONSTANTS
    Descriptors = {d1, d2}
    Players = {p1}
    Vlms = {v1, v2}
    None = None
SPECIFICATION Spec
INVARIANTS
    RefsExact
    HandlesMatch
    NothingDangles
CHECK_DEADLOCK FALSE
