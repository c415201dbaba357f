CONSTANTS
    p1 = p1
    p2 = p2
    p3 = p3
    Producers <- MCProducers
    Script <- MCScript
    LogThread = logger
    NoThread = NoThread
SPECIFICATION FairSpec
PROPERTIES ImplementsChannel EverythingLogged
\* log_run returns when the file did not open, and then everybody stops.
CHECK_DEADLOCK FALSE
