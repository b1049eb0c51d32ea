\* The realtime clock is steady; a fetch of the status document may fail.
CONSTANTS
    MaxClients = 1
    MaxTicks = 2
    MaxClockSets = 0
    ClockStart = 2
    Width = 3
    Replies <- MCAllReplies
    NowMsec = 1

SPECIFICATION Spec

INVARIANT SamplerSurvivesFetchFailure
