\* Two calls of any of the four functions on a or a/b, over every tree of
\* two levels the process may find, with every failure of write(),
\* calloc() and read().
CONSTANTS
    Names <- MCNames
    MaxDepth = 2
    MAXSYMLINKS = 4
    Targets <- MCTargets
    Ops <- MCOps
    CallPaths <- MCCallPaths
    Strs <- MCStrs
    MaxCalls = 2
    Faults <- FaultKinds
    NULL = NULL

SPECIFICATION Spec

INVARIANT TypeOK
INVARIANT RmpathRemoves
