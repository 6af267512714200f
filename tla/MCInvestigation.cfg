\* Two checks, two repairs in six rounds, one crash or failure, and somebody who
\* writes twice: enough to take back what was written.
SPECIFICATION Spec
CONSTANTS
    a = a  b = b
    Files = {a, b}
    Note = Note
    None = None
    Contents = {0, 1, 2}
    Base = 0
    Edits <- SomeEdits
    Foreign <- SomebodyElse
    Checks = 2
    MaxRounds = 6
    MaxRepairs = 2
    MaxMishaps = 1
    MaxTouches = 2
INVARIANTS
    PatchTested
    NoFalseAlarm
PROPERTIES
    TaskEnds
