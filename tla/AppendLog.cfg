\* Three writers, three rows, two pieces of text a row: two crashes can leave
\* two torn lines before the append that has to survive them.
SPECIFICATION FairSpec
CONSTANTS
    Procs = {p1, p2, p3}
    Rows = {r1, r2, r3}
    Pieces = 2
    NoProc = NoProc
    NoRow = NoRow
    NL = NL
CHECK_DEADLOCK FALSE
INVARIANTS ReturnedReadable NoPhantomRow
PROPERTIES RefinesAtomicLog AppendEnds
