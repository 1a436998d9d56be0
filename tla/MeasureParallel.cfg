SPECIFICATION MeasureSpec
CONSTANTS
    Walkers = {t1, t2}
    CallSizes = {2, 17}
    MaxCalls = 2
INVARIANTS UncancelledIsComplete CancelIsPrompt ProgressIsCurrent
SYMMETRY Interchangeable
CHECK_DEADLOCK FALSE
