SPECIFICATION Spec
CONSTANTS
    Callers = {c1, c2}
    Runtimes = {r1, r2, r3}
    Ops = {"wake", "start", "boot", "destroy"}
    Faults = {}
    Autostart = TRUE
    None = None
INVARIANT NoOrphans
SYMMETRY Symmetry
