SPECIFICATION Spec
CONSTANTS
    Methods <- MCMethods
    Bodies <- MCBodies
    MaxHdrs = 2
    MaxChunks = 2
    HdrLines = 1
    MaxRead = 2
    Faults <- MCFaultsNoSlist
    NULL = NULL
INVARIANTS
    TypeOK
    HeapSafe
    ResponseIsBody
    UploadIsBody
