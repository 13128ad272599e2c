CONSTANTS
    Listeners = {l1, l2}
SPECIFICATION Spec
INVARIANTS
    SubscriptionsMatch
    QuietAfterRelease
PROPERTIES
    ReleaseEnds
CHECK_DEADLOCK FALSE
