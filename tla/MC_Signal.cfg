\* At most one SIGINT/SIGTERM, delivered at any moment to any thread but
\* main(), or none at all; the status endpoint's "nowMsec" field is 1.
CONSTANTS
    Main = Main
    Plotter = Plotter
    NoThread = NoThread
    Scripts <- MCScripts
    SignalTargets <- MCNonMainTargets
    MaxSignals = 1
    NowMsec = 1

SPECIFICATION Spec

INVARIANT TypeOK
INVARIANT FlushedUntilSignal
INVARIANT ExitJoinsClients
PROPERTY ShutdownCompletes
