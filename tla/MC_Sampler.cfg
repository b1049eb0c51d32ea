\* Two client connections, three ticks, one backward step of the realtime
\* clock, and fetches that may fail: every interleaving of the clients'
\* connections and completions with the sampler's reads.
CONSTANTS
    MaxClients = 2
    MaxTicks = 3
    MaxClockSets = 1
    ClockStart = 2
    Width = 3
    Replies <- MCAllReplies
    NowMsec = 1

SPECIFICATION Spec

INVARIANT TypeOK
INVARIANT RowsAccountForTraffic
