CONSTANTS
    drv = drv  other = other  cpudev = cpudev
    CPUs <- MCCPUs
    MaxPerSlice = 4
    Prefix = cpudev
    DriverName = drv
    Requests <- MCRequests

SPECIFICATION Spec

INVARIANT TypeOK
INVARIANT DevicesCoverAllocatable
INVARIANT SiblingsAdjacent
