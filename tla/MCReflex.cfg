\* Two processes, two signatures of which one narrows the other.
SPECIFICATION Spec
CONSTANTS
    p1 = p1  p2 = p2  s1 = s1  s2 = s2
    Procs = {p1, p2}
    NoProc = NoProc
    Sigs = {s1, s2}
    Narrower <- SecondNarrows
    Window = 2
    ToDense = 1
    ToNormal = 1
    Hashable = TRUE
    Fresh = FALSE
    MaxOps = 5
    MaxGen = 2
    MaxDeaths = 1
CHECK_DEADLOCK FALSE
SYMMETRY Alike
INVARIANTS ScoredOnce NothingLost
