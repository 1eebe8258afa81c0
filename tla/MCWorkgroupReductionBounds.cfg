\* One sub-group of 4 lanes, max_size 1..4.
CONSTANTS
    WGSizes = {4}
    SGSizes = {4}
    Schedules = {TRUE}
SPECIFICATION Spec
INVARIANTS
    JoinsInBounds
