SPECIFICATION MCSpec
CONSTANTS
    Requests = {q1, q2}
    MaxRequests = 1
    Protocols = {http}
    MaxJoins = 1
    MaxInFlight = 1
    Reasons = {"pairing", "divergent", "unable", "unlisted"}
    Capacity = "unlisted"
    None = "none"
INVARIANT
    RequestsSound
PROPERTIES
    ReferenceNeverWaits
    RunsFinish
