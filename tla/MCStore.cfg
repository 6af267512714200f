\* Two writers that share a blob, one collector, a link, a pin, two days, and
\* one of them may die.
SPECIFICATION FairSpec
CONSTANTS
    b1 = b1  m1 = m1  w1 = w1  w2 = w2
    Blobs = {b1}
    Manifests = {m1}
    Refs <- RefsShared
    Job <- JobShared
    MayLink <- LinkBack
    Writers = {w1, w2}
    Collectors = {g1}
    RetentionDays = 1
    Horizons = {1}
    Pinnable = {b1}
    MaxNow = 2
    MaxDeaths = 1
INVARIANTS MarkedSurvive RecentComplete
PROPERTIES GarbageGoes
