\* A command has the file open that gc() replaces.
SPECIFICATION Spec
CONSTANTS
    h1 = h1  h2 = h2  s1 = s1  s2 = s2  r1 = r1  r2 = r2  p1 = p1  p2 = p2
    watcher = watcher  stopper = stopper  w1 = w1  w2 = w2  e1 = e1
    Hosts = {h1, h2}
    Sessions = {s1, s2}
    Star = Star
    None = None
    HostOf <- BothOfH1
    Readers = {r1, r2}
    AddrOf <- EachDrains
    StagesOf <- EachAtStages
    Publishers = {p1, p2}
    Watchers = {watcher}
    Stoppers = {stopper}
    Crews <- ThreeCrews
    Events = {e1}
    Watches = {w1}
    WatchOf <- WatchedBy
    Direct = {Star, h1}
    Stopped = {h1}
    Ttls = {1}
    MaxPending = 1
    Limit = 2
    Room = 1
    Keep = 1
    MaxSignals <- SignalsOf
    MaxNow <- TimeOf
CHECK_DEADLOCK FALSE
INVARIANTS AppendsKept
