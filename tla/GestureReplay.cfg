SPECIFICATION Spec
CONSTANTS
    Records = {r1, r2}
    MaxEpoch = 6
    MaxSlots = 4
    MaxLineage = 2
    Calls <- NoCalls
INVARIANTS FreeListHolds RecordEndsAreTheState IndexHoldsTheLive HandlesNameOneElement
CHECK_DEADLOCK FALSE
