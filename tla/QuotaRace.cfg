\* Two concurrent requests over two partitions of two slots each.
SPECIFICATION Spec
CONSTANTS
    Callers = {p1, p2}
    Keys = {citation, editor}
    Limit = 2
    Window = 1
    Horizon = 2
    MaxCalls = 3
    MaxFaults = 1
SYMMETRY CallerSymmetry
CHECK_DEADLOCK FALSE
INVARIANTS
    OverAdmissionBounded
    ResetIsExact
