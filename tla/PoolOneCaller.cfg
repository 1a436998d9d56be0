SPECIFICATION FairSpec
CONSTANTS
    Workers = {w1, w2}
    Callers = {c1}
    Jobs = {j1, j2}
    NoJob = NoJob
    Free = Free
    Sizes = {2, 5}
    Floors = {2}
    Classes = {user, utility}
    Standard = user
INVARIANTS EveryElementOnce JobStaysAdvertised ClassFollowsJob IInv NobodyInsideAfterReturn
PROPERTIES EveryCallReturns DestructorReturns
CHECK_DEADLOCK FALSE
