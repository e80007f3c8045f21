SPECIFICATION HostSpec
CONSTANTS MaxOut = 2 MaxErr = 2 Cap = 1
INVARIANTS OkOutputComplete NoOrphanAfterReturn StuckOnlyOnFullStderr
PROPERTIES CallReturns
CHECK_DEADLOCK FALSE
