\* One utils_rmpath() of a, the test directory, over every tree the
\* process may find: a link in it may point at b, outside it.
CONSTANTS
    Names <- MCNames
    MaxDepth = 2
    MAXSYMLINKS = 4
    Targets <- MCTargets
    Ops <- MCRmpathOps
    CallPaths <- MCTestDir
    Strs <- MCStrs
    MaxCalls = 1
    Faults = {}
    NULL = NULL

SPECIFICATION Spec

PROPERTY RmpathConfined
