SPECIFICATION Spec
CONSTANTS
    a = a  b = b  c = c  C = C  t1 = t1  x = x  y = y
    b1 = b1  u1 = u1  u2 = u2
    Names = {a, b, c, C, t1, x, y}
    Key <- MCKey
    Temps <- MCTemps
    Start <- MCStart
    History <- MCHistory
    Requests <- MCRequests
    Batches = {b1}
    Undos = {u1, u2}
    Shared = {b, c}
    Cuts = {0}
    ProbeRaces = FALSE
    MaxFaults = 1
    MaxForeign = 1
    MaxCancels = 1
    MaxCrashes = 1
SYMMETRY Symmetry
CHECK_DEADLOCK FALSE
INVARIANTS AppliedIsKnown BatchIsWhole UndoneOnce
PROPERTIES PlanIsRight StrictLIFO
