SPECIFICATION Spec
CONSTANTS
    Callers = {c1, c2}
    Runtimes = {r1, r2, r3}
    Ops = {"start", "stop", "destroy", "on", "off", "boot", "rescan"}
    Faults = {"crash", "disk"}
    Autostart = TRUE
    None = None
INVARIANTS
    IntentKept
    DestroyLeavesNothing
SYMMETRY Symmetry
