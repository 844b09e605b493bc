SPECIFICATION FairSpec
CONSTANTS
    Mirrors = {m}
    Mirror = m
    Directions = {ingress}
    Forgotten = Forgotten
    Handlers = {1, 2}
    Listers = {l}
    Clears = {c1}
    TTL = 0
    MaxTime = 2
    MaxInFlight = 1
    MaxFaults = 1
    Reports <- MCReports
INVARIANTS
    ServerSound
PROPERTIES
    AtomicStore
    QuarantinesRecorded
    StateCatchesUp
