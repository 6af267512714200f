\* Two coordinators that retry, a mutation and a model call, three attempts in
\* all: enough for a crash, the recovery of it and another try.
SPECIFICATION Spec
CONSTANTS
    Procs = {p1, p2}
    NoProc = NoProc
    Retriers = {p1, p2}
    Keys <- TwoKeys
    KindOf <- TwoKinds
    Requests = {q1}
    Base = 10
    MaxSteps = 3
    MaxCalls = 2
    MaxCost = 2
    ReserveCost = 1
    Wall = 3
    CallSeconds = 1
    MaxUse = 0
    MaxLive = 0
    Faults = {}
SYMMETRY Symmetry
INVARIANTS
    AppliedOnce
    CancelHolds
PROPERTIES
    DoneReplays
