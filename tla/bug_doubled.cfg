SPECIFICATION Spec
CONSTANTS
    Procs <- WebAndJob
    MaxCount = 1
    Specs <- JustPlain
    Restart <- Always
    MaxRestarts <- TwoTries
    Pids = {p1, p2, p3}
    MaxSlot = 3
    Updates <- Fixed
    Ops <- Rolled
    Faults <- Dying
    Targets <- Whole
    Callers = {c1}
    None = None
INVARIANT WorkersNotDoubled
SYMMETRY Symmetry
