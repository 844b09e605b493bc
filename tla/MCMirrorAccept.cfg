SPECIFICATION MirrorSpec
INVARIANTS
    MirrorsNothingBeforeAccept
