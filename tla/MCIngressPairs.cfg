SPECIFICATION PairsFairSpec
CONSTANTS
    Requests = {p1, p2}
    Protocols = {http, grpc}
    MaxJoins = 2
INVARIANT
    PairsSound
PROPERTIES
    VerdictJustified
    CandidatesFinish
