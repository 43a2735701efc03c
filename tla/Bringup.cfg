SPECIFICATION Spec
CONSTANTS
    N = 2
    Wait = 2
    MaxChanges = 2
    MaxTxRestarts = 1
    MaxRxRestarts = 1
INVARIANTS
    TypeOK
    OncePerLife
PROPERTIES
    ResetIsQuiet
    BootedWhenTold
    EveryoneSyncs
