\* Up to two signals, SIGINT and SIGTERM, which the kernel may run on any
\* thread, main() included, and the second inside the first's handler.
\* The process may hang, so deadlock is not an error here: the liveness property is what is checked.
CONSTANTS
    Main = Main
    Plotter = Plotter
    NoThread = NoThread
    Scripts <- MCScripts
    SignalTargets <- MCAllTargets
    MaxSignals = 2
    NowMsec = 1

SPECIFICATION Spec
CHECK_DEADLOCK FALSE
PROPERTY ShutdownCompletes
