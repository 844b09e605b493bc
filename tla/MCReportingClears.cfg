SPECIFICATION Spec
CONSTANTS
    Mirrors = {m}
    Mirror = m
    Directions = {ingress}
    Forgotten = Forgotten
    Handlers = {1, 2}
    Listers = {}
    Clears = {c1, c2}
    TTL = 0
    MaxTime = 3
    MaxInFlight = 1
    MaxFaults = 0
    Reports <- MCReports
INVARIANTS
    ClearedStaysCleared
