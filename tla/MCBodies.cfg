SPECIFICATION MCSpec
CONSTANTS
    Bodies = {b1, b2}
    BlockSize = 2
    Limit = 5
    MaxBytes = 4
    CaptureLimit = 3
    UploadBytes = 5
INVARIANTS
    BodiesSound
    HashesWholeBody
PROPERTIES
    OverflowQuarantines
    ReaderEnds
    HashingEnds
