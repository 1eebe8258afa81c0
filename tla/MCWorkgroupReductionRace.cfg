\* One sub-group of 4 lanes whose joins interleave between barriers.
CONSTANTS
    WGSizes = {4}
    SGSizes = {4}
    Schedules = {FALSE}
SPECIFICATION Spec
INVARIANTS
    ResultCorrect
