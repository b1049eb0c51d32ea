\* Two sleepers, each making two calls, and two unblockers racing them.
CONSTANTS
    Sleepers = {s1, s2}
    Unblockers = {u1, u2}
    Threads = {s1, s2, u1, u2}
    NoThread = NoThread
    MaxCalls = 2

SPECIFICATION Spec

INVARIANT TypeOK
PROPERTY ImplementsCancellableWait
