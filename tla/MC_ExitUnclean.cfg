\* One signal, on any thread but main(): EINTR from the drain or the
\* post-setting wait jumps to 'end' past the sampler's join and the proxy's
\* stop.
CONSTANTS
    Main = Main
    Plotter = Plotter
    NoThread = NoThread
    Scripts <- MCScripts
    SignalTargets <- MCNonMainTargets
    MaxSignals = 1
    NowMsec = 1

SPECIFICATION Spec

INVARIANT CleanExit
