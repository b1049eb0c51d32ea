\* One signal, on any thread but main(): the sampler dumps and clears
\* clients_stats while client threads still append to it.
CONSTANTS
    Main = Main
    Plotter = Plotter
    NoThread = NoThread
    Scripts <- MCScripts
    SignalTargets <- MCNonMainTargets
    MaxSignals = 1
    NowMsec = 1

SPECIFICATION Spec

INVARIANT FlushedExactly
