SPECIFICATION SupervisorFairSpec
CONSTANTS
    Reflected = {FALSE}
    Limited = {TRUE}
INVARIANTS
    ServicesContained
    StartedInOrder
PROPERTIES
    StopsTogether
    MirroringStarts
