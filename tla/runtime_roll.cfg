SPECIFICATION FairSpec
CONSTANTS
    Procs <- WebJobSolo
    MaxCount = 1
    Specs <- SteppedAndPlain
    Restart <- Always
    MaxRestarts <- TwoForSolo
    Pids = {p1, p2, p3}
    MaxSlot = 3
    Updates <- Dropped
    Ops <- RolledOrByHand
    Faults <- DyingOrFailing
    Targets <- Whole
    Callers = {c1, c2}
    None = None
INVARIANTS TypeOK TrackedOnce WaitersHeld RollDriven
PROPERTIES ReadyWasProbed RollAnswered
