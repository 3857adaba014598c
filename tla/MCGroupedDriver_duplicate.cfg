CONSTANTS
    c1 = c1  c2 = c2  c3 = c3  c4 = c4
    drv = drv  other = other
    socketPrefix = socketPrefix  numaPrefix = numaPrefix
    NoAllocation = NoAllocation  None = None
    CPUs <- MCCPUs
    SocketOf <- MCSocketOf
    NUMAOf <- MCNUMAOf
    Reserved <- MCReserved
    Claims <- MCClaims
    Drivers <- MCDrivers
    DriverName = drv
    CoordOf <- MCSocketOf
    Prefix = socketPrefix
    Results <- DuplicateResults
    Serialize = TRUE
    CDIMayFail = FALSE
    MaxRestarts = 0

SPECIFICATION Spec

INVARIANT ResolvedCountMatchesRequest
