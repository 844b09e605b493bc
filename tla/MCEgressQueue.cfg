SPECIFICATION MCSpec
CONSTANTS
    References = {r1, r2}
    Candidates = {c1, c2}
    Hashes = {h1}
    None = None
    MaxArrivals = 3
INVARIANTS
    Consistent
    PairedOneToOne
    ReplayIntact
PROPERTIES
    NoMissedMatch
    ExchangesEnd
