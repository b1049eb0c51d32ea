\* No signal; burst_level holds the status JSON's 'nowMsec' field, as the
\* code reads it, so the drain loop waits for a gauge that never reaches 0.
CONSTANTS
    Main = Main
    Plotter = Plotter
    NoThread = NoThread
    Scripts <- MCScripts
    SignalTargets = {}
    MaxSignals = 0
    NowMsec = 1

SPECIFICATION Spec

PROPERTY ExperimentCompletes
