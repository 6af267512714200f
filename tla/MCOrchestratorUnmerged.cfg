\* The process dies between the handbacks of a wave and its merge.
SPECIFICATION Spec
CONSTANTS
    Planned = 2
    MaxNodes = 3
    Deps <- ThreeDeps
    Mutations = {1, 2}
    Targets <- ThreeTargets
    IsolatedWorktrees = TRUE
    MaxWorkers = 2
    MaxWaves = 2
    MaxAttempts = 2
    MaxReplans = 1
    Coordinates = TRUE
    Budget = 2
    Est <- One
    Ratio = 2
    ReplanPrice = 1
    Stronger = TRUE
    Kinds = {"capability"}
    Deviations = {0}
    Unpriced = FALSE
    Droppable = {"claim", "handback"}
    DieUnmerged = TRUE
    MaxDrops = 0
    MaxDeaths = 1
    MaxRuns = 2
CHECK_DEADLOCK FALSE
INVARIANTS OkLanded
