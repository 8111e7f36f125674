SPECIFICATION Spec
CONSTANTS
    Report = {r1, r2}
    Attempts = 2
    Room = 2
    Asking = 2
    Mobile = TRUE
    None = None
SYMMETRY Symmetry
INVARIANTS
    RepairedStaysQuiet
    AlertsGo
