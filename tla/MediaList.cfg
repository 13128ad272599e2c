CONSTANTS
    Mrls = {"a", "b", "c"}
    MaxItems = 4
SPECIFICATION Spec
INVARIANTS
    ItemsWithinNative
PROPERTIES
    MirrorKept
