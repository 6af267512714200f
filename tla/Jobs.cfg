\* Two wait and one kills; one of launcher and supervisor may die, anybody may
\* kill the command, and the worktree may change.
SPECIFICATION FairSpec
CONSTANTS
    None = None
    Clients = {c1, c2, c3}
    Killers = {c3}
    MaxEdits = 1
    MaxDeaths = 1
CHECK_DEADLOCK FALSE
INVARIANTS FinalizersConverge FateTold
PROPERTIES LastWordStays WaitEnds
