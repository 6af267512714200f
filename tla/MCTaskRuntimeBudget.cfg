\* One model call under every I/O fault, with time: the cost allowance holds two
\* of the three calls that the call allowance would.  Only p1 retries.
SPECIFICATION Spec
CONSTANTS
    Procs = {p1, p2}
    NoProc = NoProc
    Retriers = {p1}
    Keys <- OneModelKey
    KindOf <- OneModelKind
    Requests = {q1}
    Base = 10
    MaxSteps = 4
    MaxCalls = 3
    MaxCost = 2
    ReserveCost = 1
    Wall = 3
    CallSeconds = 2
    MaxUse = 1
    MaxLive = 2
    Faults = {"retain", "publish", "ledger"}
INVARIANTS
    WallHolds
    ModelBudgetHolds
    JournalAhead
PROPERTIES
    NoUnaskedRetry
