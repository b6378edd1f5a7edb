CONSTANTS
    Callers = {c1, c2}
    Values = {v1, v2}
    Errors = {e1}
    Zero = zero
    NoError = nil
    Unset = Unset
    CtxErr = CtxErr
SPECIFICATION FairSpec
INVARIANTS TypeOK NoTornResult
PROPERTIES FrozenOnceDone ImplementsSingleAssignment CancelledCallerReturns EveryCallerReturns
CHECK_DEADLOCK FALSE
