\* Both overloads: the shuffle one with either first-tree path (#if or
\* #else), the local-memory one with sub-groups in lock-step or not.
\* Every work-group shape with up to 8 work-items and sub-groups of 1, 2, 4
\* or 8 lanes, every max_size, final or not, with or without a
\* device-accessible result pointer.
CONSTANTS
    WGSizes = {1, 2, 3, 4, 5, 6, 7, 8}
    SGSizes = {1, 2, 4, 8}
    Schedules = {TRUE, FALSE}
    Algorithms = {"local_memory", "shuffle"}
SPECIFICATION Spec
INVARIANTS
    TypeOK
PROPERTIES
    ReduceRefinement
