SPECIFICATION Spec
CONSTANTS
    Procs <- WebOnly
    MaxCount = 1
    Specs <- DropsStart
    Restart <- Always
    MaxRestarts <- TwoTries
    Pids = {p1, p2, p3}
    MaxSlot = 3
    Updates <- Changed
    Ops <- Rolled
    Faults <- Dying
    Targets <- Whole
    Callers = {c1}
    None = None
INVARIANT RollReturns
SYMMETRY Symmetry
