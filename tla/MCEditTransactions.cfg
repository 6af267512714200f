\* Two applies and an editor, any write may fail, and one apply may die.
SPECIFICATION EditSpec
CONSTANTS
    a1 = a1  a2 = a2
    FileSeq <- TwoFiles
    Origin <- TwoOrigins
    Text = {"x", "y", "z", "u", "v", "z1", "u1", "x1", "x1b", "y2", "n"}
    Applies = {a1, a2}
    Plan <- TwoPlans
    ExactFiles = {}
    MaxCandidates = 4
    Notes = {"n"}
    Copies = {"x", "z"}
    Faults = {"stage", "rename"}
    MaxEdits = 1
    MaxDeaths = 1
CHECK_DEADLOCK FALSE
INVARIANTS EditTypeOK OnlyTargets RefusalTold AppliedStays NoLitter
PROPERTIES NotesStay
