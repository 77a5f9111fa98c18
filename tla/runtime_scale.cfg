SPECIFICATION WatchSpec
CONSTANTS
    Procs <- WebSiteAnd
    MaxCount = 2
    Specs <- ScaledOrByHand
    Restart <- JobOnFailure
    MaxRestarts <- TwoForApi
    Pids = {p1, p2, p3}
    MaxSlot = 3
    Updates <- Rescaled
    Ops <- RolledOrHandled
    Faults <- DyingOrHandled
    Targets <- Whole
    Callers = {c1}
    None = None
INVARIANTS
    SlotsDistinct
    SupervisedByHand
    StoppedByHand
PROPERTY RollKeepsServing
SYMMETRY Symmetry
