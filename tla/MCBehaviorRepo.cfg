\* Every text of three mocks, and some odd ones.
CONSTANTS
    k1 = k1  k2 = k2  k3 = k3  ghost = ghost  r1 = r1  r2 = r2
    None = None
    Names = {k1, k2, k3, ghost}
    Routes = {r1, r2}
    Inputs <- SmallTexts
SPECIFICATION Spec
INVARIANTS TypeOK LeavesRunInOrder RoutesAnswerInOrder AbstractsKeepTheirActions
CHECK_DEADLOCK FALSE
