SPECIFICATION MCSpec
CONSTANTS
    Exchanges = {x1, x2}
    Shared = shared
    Limit = 2
    MaxBytes = 3
    Requests = {r1, r2, r3}
    MaxInFlight = 2
    Reasons = {divergent, unable}
    Capacity = capacity
    None = None
INVARIANTS
    RecordingsSound
    RunsSound
PROPERTIES
    RecordingsEnd
    CapacityQuarantines
