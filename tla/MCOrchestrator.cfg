\* Two workers, failures that call for the stronger model, a row that is not
\* written, a process that dies, and one resume.
SPECIFICATION FairSpec
CONSTANTS
    Planned = 2
    MaxNodes = 3
    Deps <- ThreeDeps
    Mutations = {1, 2}
    Targets <- ThreeTargets
    IsolatedWorktrees = TRUE
    MaxWorkers = 2
    MaxWaves = 2
    MaxAttempts = 2
    MaxReplans = 1
    Coordinates = TRUE
    Budget = 2
    Est <- One
    Ratio = 2
    ReplanPrice = 1
    Stronger = TRUE
    Kinds = {"capability"}
    Deviations = {0, 1}
    Unpriced = TRUE
    Droppable = {"claim", "handback"}
    DieUnmerged = FALSE
    MaxDrops = 1
    MaxDeaths = 1
    MaxRuns = 2
CHECK_DEADLOCK FALSE
INVARIANTS BudgetKept ClaimsClosed WritersApart
PROPERTIES RefinesDag NotRedone RunEnds
