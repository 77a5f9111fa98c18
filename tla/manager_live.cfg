SPECIFICATION FairSpec
CONSTANTS
    Callers = {c1, c2}
    Runtimes = {r1, r2, r3}
    Ops = {"restart", "idle", "boot", "destroy", "rescan", "close"}
    Faults = {"spawn", "folder", "exit"}
    Autostart = TRUE
    None = None
INVARIANTS LoopsOwned
PROPERTY CallsReturn
