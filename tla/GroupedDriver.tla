--------------------------- MODULE GroupedDriver ----------------------------
(***************************************************************************)
(* The CPU DRA driver running a grouped device manager (SocketGroupedManager*)
(* or NUMAGroupedManager, chosen by CoordOf and Prefix), together with the  *)
(* CPU allocation store whose free pool the manager reads and the kubelet   *)
(* that calls the driver.                                                  *)
(*                                                                         *)
(*  - driver.Start registers the kubelet plugin, then starts               *)
(*    PublishResources in a goroutine: the kubelet may call                *)
(*    PrepareResourceClaims before CreateSlices has filled the             *)
(*    name -> coordinate index. CreateSlices writes the index one entry    *)
(*    per coordinate, so a prepare may see any prefix of it.               *)
(*  - prepareResourceClaim runs AllocateCPUs (one step per allocation      *)
(*    result: look the device up, read the live free pool, take CPUs),     *)
(*    then AddResourceClaimAllocation, then the CDI AddDevice, which may   *)
(*    fail after the store was updated.                                    *)
(*  - unprepareResourceClaim removes the store entry, then the CDI device. *)
(*  - kubeletplugin serialises the gRPC calls unless Serialize is FALSE:   *)
(*    then prepares of distinct claims interleave step by step.            *)
(***************************************************************************)
EXTENDS DeviceTopology, Sequences

CONSTANTS
    CoordOf,      \* SocketOf (socket-grouped) or NUMAOf (NUMA-grouped)
    Prefix,       \* cpuDeviceSocketGroupedPrefix or cpuDeviceNUMAGroupedPrefix
    DriverName,   \* mgr.driverName
    Drivers,      \* the driver names allocation results may carry
    Claims,       \* the claim UIDs the kubelet may prepare
    Results,      \* claim.Status.Allocation.Devices.Results, per claim
    NoAllocation, \* claim.Status.Allocation == nil
    Serialize,    \* kubeletplugin serialises Prepare/Unprepare calls
    CDIMayFail,   \* cdiMgr.AddDevice / RemoveDevice may return an error
    MaxRestarts,  \* bound on process kills from outside (OOM, NRI Fatalf, update)
    None          \* no CDI device for the claim

(* fmt.Sprintf("%s%03d", prefix, id): distinct ids give distinct names. *)
DeviceNames == {Prefix} \X Nat
DeviceName(k) == <<Prefix, k>>

(* An allocation result: driver, device and ConsumedCapacity["dra.cpu/cpu"]
   (0 when absent). *)
Result == [driver : Drivers, device : DeviceNames, count : Nat]

ASSUME GroupedAssumption ==
    /\ CoordOf \in [CPUs -> Nat]
    /\ DriverName \in Drivers
    /\ Results \in [Claims -> Seq(Result) \cup {NoAllocation}]
    /\ Serialize \in BOOLEAN
    /\ CDIMayFail \in BOOLEAN
    /\ MaxRestarts \in Nat

Coords == {CoordOf[c] : c \in CPUs}

(* allocatableCPUs of a coordinate in CreateSlices: its unreserved CPUs. *)
AllocatableIn(k) == CPUsIn(CoordOf, k) \ Reserved

(* Kubelet's view of a claim, and the error of its last prepare. *)
KubeletStates == {"none", "prepared", "prepareFailed", "unprepareFailed"}
Errors == {"ok", "noAllocation", "lookup", "capacity", "cdi", "crash"}

VARIABLES
    pending,  \* coordinates CreateSlices has not visited yet
    index,    \* deviceNameToSocketID / deviceNameToNUMANodeID
    alloc,    \* CPUAllocationStore: claim UID -> CPUs
    cdi,      \* CPU set in the claim's CDI device env var, or None
    kst,      \* kubelet's view of each claim
    pc,       \* "idle", "alloc" (in AllocateCPUs), "cdi" (store updated)
    ri,       \* index of the allocation result AllocateCPUs is at
    acc,      \* cpuAssignment accumulated by AllocateCPUs
    err,      \* error returned by the claim's last prepare
    started,  \* Start has set cdiMgr and launched its goroutines
    restarts  \* process kills so far

vars == <<pending, index, alloc, cdi, kst, pc, ri, acc, err, started, restarts>>
claimVars == <<alloc, cdi, kst, pc, ri, acc, err>>
procVars == <<started, restarts>>

MaxResults ==
    LET lens == {Len(Results[c]) : c \in {d \in Claims : Results[d] # NoAllocation}}
    IN  IF lens = {} THEN 0 ELSE Max(lens)

TypeOK ==
    /\ pending \subseteq Coords
    /\ DOMAIN index \subseteq DeviceNames
    /\ \A n \in DOMAIN index : index[n] \in Coords
    /\ alloc \in [Claims -> SUBSET CPUs]
    /\ cdi \in [Claims -> (SUBSET CPUs) \cup {None}]
    /\ kst \in [Claims -> KubeletStates]
    /\ pc \in [Claims -> {"idle", "alloc", "cdi"}]
    /\ ri \in [Claims -> Nat \ {0}]
    /\ acc \in [Claims -> SUBSET CPUs]
    /\ err \in [Claims -> Errors]
    /\ started \in BOOLEAN
    /\ restarts \in 0..MaxRestarts

(***************************************************************************)
(* CPUAllocationStore.GetSharedCPUs: the unreserved CPUs no claim holds.   *)
(***************************************************************************)
SharedCPUs == Allocatable \ UNION {alloc[c] : c \in Claims}

(* No gRPC call of the kubelet is in progress. *)
NoCallInProgress == \A c \in Claims : pc[c] = "idle"

Init ==
    /\ pending = Coords
    /\ index = [n \in {} |-> 0]
    /\ alloc = [c \in Claims |-> {}]
    /\ cdi = [c \in Claims |-> None]
    /\ kst = [c \in Claims |-> "none"]
    /\ pc = [c \in Claims |-> "idle"]
    /\ ri = [c \in Claims |-> 1]
    /\ acc = [c \in Claims |-> {}]
    /\ err = [c \in Claims |-> "ok"]
    /\ started = FALSE
    /\ restarts = 0

-----------------------------------------------------------------------------
(***************************************************************************)
(* CreateSlices, one loop iteration per coordinate in ascending order      *)
(* (Sockets().List() / NUMANodes().List() are sorted). A coordinate with   *)
(* unreserved CPUs gets its index entry; one without is skipped.           *)
(***************************************************************************)
(* Mutant: the index stores the coordinate off by one. *)
CreateDeviceOffByOne ==
    LET k == Min(pending) IN
    /\ started
    /\ pending # {}
    /\ AllocatableIn(k) # {}
    /\ index' = [n \in DOMAIN index \cup {DeviceName(k)} |->
                    IF n = DeviceName(k) THEN k + 1 ELSE index[n]]
    /\ pending' = pending \ {k}
    /\ UNCHANGED <<claimVars, procVars>>

CreateDevice ==
    LET k == Min(pending) IN
    /\ started
    /\ pending # {}
    /\ AllocatableIn(k) # {}
    /\ index' = [n \in DOMAIN index \cup {DeviceName(k)} |->
                    IF n = DeviceName(k) THEN k ELSE index[n]]
    /\ pending' = pending \ {k}
    /\ UNCHANGED <<claimVars, procVars>>

SkipCoordinate ==
    LET k == Min(pending) IN
    /\ started
    /\ pending # {}
    /\ AllocatableIn(k) = {}
    /\ pending' = pending \ {k}
    /\ UNCHANGED <<index, claimVars, procVars>>

-----------------------------------------------------------------------------
(***************************************************************************)
(* PrepareResourceClaims for one claim, by the kubelet: a claim it has not *)
(* prepared, or whose last prepare failed.                                 *)
(***************************************************************************)
CanCall(c) ==
    /\ pc[c] = "idle"
    /\ Serialize => NoCallInProgress

(* prepareResourceClaim: claim.Status.Allocation == nil. *)
PrepareNoAllocation(c) ==
    /\ kst[c] \in {"none", "prepareFailed"}
    /\ CanCall(c)
    /\ Results[c] = NoAllocation
    /\ kst' = [kst EXCEPT ![c] = "prepareFailed"]
    /\ err' = [err EXCEPT ![c] = "noAllocation"]
    /\ UNCHANGED <<pending, index, alloc, cdi, pc, ri, acc, started, restarts>>

(* prepareResourceClaim enters AllocateCPUs. *)
PrepareStart(c) ==
    /\ kst[c] \in {"none", "prepareFailed"}
    /\ CanCall(c)
    /\ Results[c] # NoAllocation
    /\ pc' = [pc EXCEPT ![c] = "alloc"]
    /\ ri' = [ri EXCEPT ![c] = 1]
    /\ acc' = [acc EXCEPT ![c] = {}]
    /\ err' = [err EXCEPT ![c] = "ok"]
    /\ UNCHANGED <<pending, index, alloc, cdi, kst, started, restarts>>

(* The allocation result AllocateCPUs is looking at. *)
Cur(c) == Results[c][ri[c]]

InLoop(c) == pc[c] = "alloc" /\ ri[c] <= Len(Results[c])

(* The pool of a device: the live free pool within its coordinate. *)
(* Mutants: the pool is the coordinate's unreserved CPUs, never the live
   free pool; the pool is the whole free pool, not the coordinate's part. *)
PoolOfStatic(c) == AllocatableIn(index[Cur(c).device])
PoolOfWholePool(c) == SharedCPUs

PoolOf(c) == SharedCPUs \cap CPUsIn(CoordOf, index[Cur(c).device])

(* A failed prepare returns the error to the kubelet. *)
Fail(c, e) ==
    /\ pc' = [pc EXCEPT ![c] = "idle"]
    /\ kst' = [kst EXCEPT ![c] = "prepareFailed"]
    /\ err' = [err EXCEPT ![c] = e]
    /\ UNCHANGED <<pending, index, alloc, cdi, ri, acc, started, restarts>>

(* alloc.Driver != mgr.driverName: continue. *)
AllocSkipForeign(c) ==
    /\ InLoop(c)
    /\ Cur(c).driver # DriverName
    /\ ri' = [ri EXCEPT ![c] = @ + 1]
    /\ UNCHANGED <<pending, index, alloc, cdi, kst, pc, acc, err, started, restarts>>

(* The device name is not in the index: "no valid ... ID found". *)
AllocLookupFail(c) ==
    /\ InLoop(c)
    /\ Cur(c).driver = DriverName
    /\ Cur(c).device \notin DOMAIN index
    /\ Fail(c, "lookup")

(* TakeByTopologyNUMAPacked returns an error: the pool is too small. *)
AllocTakeFail(c) ==
    /\ InLoop(c)
    /\ Cur(c).driver = DriverName
    /\ Cur(c).device \in DOMAIN index
    /\ ~CanTake(PoolOf(c), Cur(c).count)
    /\ Fail(c, "capacity")

(* cpuAssignment = cpuAssignment.Union(cur). *)
(* Mutant: cpuAssignment = cur, dropping the earlier results. *)
AllocTakeOverwrites(c) ==
    /\ InLoop(c)
    /\ Cur(c).driver = DriverName
    /\ Cur(c).device \in DOMAIN index
    /\ CanTake(PoolOf(c), Cur(c).count)
    /\ acc' = [acc EXCEPT ![c] = TakeByTopologyNUMAPacked(PoolOf(c), Cur(c).count)]
    /\ ri' = [ri EXCEPT ![c] = @ + 1]
    /\ UNCHANGED <<pending, index, alloc, cdi, kst, pc, err, started, restarts>>

AllocTake(c) ==
    /\ InLoop(c)
    /\ Cur(c).driver = DriverName
    /\ Cur(c).device \in DOMAIN index
    /\ CanTake(PoolOf(c), Cur(c).count)
    /\ acc' = [acc EXCEPT ![c] =
                 @ \cup TakeByTopologyNUMAPacked(PoolOf(c), Cur(c).count)]
    /\ ri' = [ri EXCEPT ![c] = @ + 1]
    /\ UNCHANGED <<pending, index, alloc, cdi, kst, pc, err, started, restarts>>

(* AllocateCPUs returns; AddResourceClaimAllocation records the set. *)
AllocDone(c) ==
    /\ pc[c] = "alloc"
    /\ ri[c] > Len(Results[c])
    /\ alloc' = [alloc EXCEPT ![c] = acc[c]]
    /\ pc' = [pc EXCEPT ![c] = "cdi"]
    /\ UNCHANGED <<pending, index, cdi, kst, ri, acc, err, started, restarts>>

(* cdiMgr.AddDevice writes the env var; the claim is prepared. *)
CDIAddDevice(c) ==
    /\ started
    /\ pc[c] = "cdi"
    /\ cdi' = [cdi EXCEPT ![c] = acc[c]]
    /\ kst' = [kst EXCEPT ![c] = "prepared"]
    /\ pc' = [pc EXCEPT ![c] = "idle"]
    /\ UNCHANGED <<pending, index, alloc, ri, acc, err, started, restarts>>

(* cdiMgr.AddDevice fails: the store entry stays. *)
CDIAddDeviceFail(c) ==
    /\ CDIMayFail
    /\ started
    /\ pc[c] = "cdi"
    /\ Fail(c, "cdi")

-----------------------------------------------------------------------------
(***************************************************************************)
(* UnprepareResourceClaims for one claim: RemoveResourceClaimAllocation,   *)
(* then cdiMgr.RemoveDevice, which may fail (the kubelet retries).         *)
(***************************************************************************)
(* Mutant: RemoveResourceClaimAllocation is not called. *)
UnprepareKeepsStore(c) ==
    /\ kst[c] \in {"prepared", "prepareFailed", "unprepareFailed"}
    /\ CanCall(c)
    /\ started
    /\ cdi' = [cdi EXCEPT ![c] = None]
    /\ kst' = [kst EXCEPT ![c] = "none"]
    /\ UNCHANGED <<pending, index, alloc, pc, ri, acc, err, started, restarts>>

Unprepare(c) ==
    /\ kst[c] \in {"prepared", "prepareFailed", "unprepareFailed"}
    /\ CanCall(c)
    /\ started
    /\ alloc' = [alloc EXCEPT ![c] = {}]
    /\ cdi' = [cdi EXCEPT ![c] = None]
    /\ kst' = [kst EXCEPT ![c] = "none"]
    /\ UNCHANGED <<pending, index, pc, ri, acc, err, started, restarts>>

UnprepareFail(c) ==
    /\ CDIMayFail
    /\ kst[c] \in {"prepared", "prepareFailed", "unprepareFailed"}
    /\ CanCall(c)
    /\ started
    /\ alloc' = [alloc EXCEPT ![c] = {}]
    /\ kst' = [kst EXCEPT ![c] = "unprepareFailed"]
    /\ UNCHANGED <<pending, index, cdi, pc, ri, acc, err, started, restarts>>

-----------------------------------------------------------------------------
(***************************************************************************)
(* The life of the driver process. Init is the state just after           *)
(* kubeletplugin.Start: the plugin is registered and the kubelet may call *)
(* it, but cdiMgr is still nil and no goroutine has been started.          *)
(***************************************************************************)
(* Start polls the registration, sets cdiMgr, creates the NRI stub and
   starts the NRI loop and the PublishResources goroutine. *)
StartComplete ==
    /\ ~started
    /\ started' = TRUE
    /\ UNCHANGED <<pending, index, claimVars, restarts>>

(* The process dies and is started again: the store, the index and every
   prepare in progress are lost, the kubelet's in-flight calls fail, and
   the CDI spec files on disk stay. k is the kubelet's view of the claims
   once the call that killed the process has failed. *)
ProcessRestart(k) ==
    /\ pending' = Coords
    /\ index' = [n \in {} |-> 0]
    /\ alloc' = [c \in Claims |-> {}]
    /\ kst' = [c \in Claims |-> IF pc[c] # "idle" THEN "prepareFailed" ELSE k[c]]
    /\ err' = [c \in Claims |-> IF pc[c] # "idle" THEN "crash" ELSE err[c]]
    /\ pc' = [c \in Claims |-> "idle"]
    /\ ri' = [c \in Claims |-> 1]
    /\ acc' = [c \in Claims |-> {}]
    /\ started' = FALSE
    /\ UNCHANGED cdi

(* A kill from outside the handlers: OOM, the NRI loop's Fatalf, a
   DaemonSet update. *)
Crash ==
    /\ restarts < MaxRestarts
    /\ ProcessRestart(kst)
    /\ restarts' = restarts + 1

(* unprepareResourceClaim removes the store entry and calls RemoveDevice on
   the nil cdiMgr: the process panics. *)
UnpreparePanic(c) ==
    /\ kst[c] \in {"prepared", "prepareFailed", "unprepareFailed"}
    /\ CanCall(c)
    /\ ~started
    /\ ProcessRestart([kst EXCEPT ![c] = "unprepareFailed"])
    /\ UNCHANGED restarts

-----------------------------------------------------------------------------
Publish == CreateDevice \/ SkipCoordinate

Kubelet(c) ==
    \/ PrepareNoAllocation(c) \/ PrepareStart(c)
    \/ Unprepare(c) \/ UnprepareFail(c) \/ UnpreparePanic(c)

Prepare(c) ==
    \/ AllocSkipForeign(c) \/ AllocLookupFail(c) \/ AllocTakeFail(c)
    \/ AllocTake(c) \/ AllocDone(c) \/ CDIAddDevice(c) \/ CDIAddDeviceFail(c)

Next ==
    \/ StartComplete \/ Publish \/ Crash
    \/ \E c \in Claims : Kubelet(c) \/ Prepare(c)

Spec == Init /\ [][Next]_vars

-----------------------------------------------------------------------------
(***************************************************************************)
(* Properties.                                                             *)
(***************************************************************************)

(* The results of claim c that belong to this driver (the others are
   skipped by AllocateCPUs). *)
OwnResults(c) ==
    IF Results[c] = NoAllocation THEN {}
    ELSE {i \in 1..Len(Results[c]) : Results[c][i].driver = DriverName}

(* The CPUs claim c asked for: the sum of its ConsumedCapacity counts. *)
RequestedCount(c) == MapThenSumSet(LAMBDA i : Results[c][i].count, OwnResults(c))

(* What all claims together ask of device n, and what it offers: the
   capacity CreateSlices publishes for it. The scheduler keeps the first
   within the second for claims allocated at the same time. *)
Demand(n) ==
    MapThenSumSet(LAMBDA p : Results[p[1]][p[2]].count,
                  {p \in Claims \X (1..MaxResults) :
                      /\ p[2] \in OwnResults(p[1])
                      /\ Results[p[1]][p[2]].device = n})
Capacity(n) == Cardinality(AllocatableIn(n[2]))

(***************************************************************************)
(* No CPU is held by two claims in the allocation store, and no two       *)
(* prepared claims hand the same CPU to their containers: reading the free *)
(* pool in AllocateCPUs and recording the choice with                      *)
(* AddResourceClaimAllocation must not let another prepare in between.    *)
(***************************************************************************)
ExclusiveAssignment ==
    \A c, d \in Claims : c # d =>
        /\ alloc[c] \cap alloc[d] = {}
        /\ (kst[c] = "prepared" /\ kst[d] = "prepared") =>
               cdi[c] \cap cdi[d] = {}

(***************************************************************************)
(* Every CPU the store records for a claim is unreserved and lies in the  *)
(* socket / NUMA node of a device one of the claim's own results names:   *)
(* AllocateCPUs intersects the free pool with the device's CPUs and skips *)
(* results of other drivers.                                              *)
(***************************************************************************)
AllocationWithinDevices ==
    \A c \in Claims : \A cpu \in alloc[c] :
        /\ cpu \notin Reserved
        /\ \E i \in OwnResults(c) : Results[c][i].device = DeviceName(CoordOf[cpu])

(***************************************************************************)
(* A prepared claim's containers get exactly as many CPUs as the claim's  *)
(* results consumed from the devices: the union AllocateCPUs builds loses *)
(* nothing.                                                               *)
(***************************************************************************)
ResolvedCountMatchesRequest ==
    \A c \in Claims : kst[c] = "prepared" =>
        Cardinality(cdi[c]) = RequestedCount(c)

(***************************************************************************)
(* A prepare fails for lack of CPUs only on a device the claims together  *)
(* overcommit: while the scheduler keeps every device's demand within the *)
(* capacity CreateSlices published, TakeByTopologyNUMAPacked never fails. *)
(***************************************************************************)
CapacityHonoured ==
    \A c \in Claims : err[c] = "capacity" =>
        Demand(Cur(c).device) > Capacity(Cur(c).device)

(***************************************************************************)
(* A prepare fails the index lookup only for a device CreateSlices never  *)
(* publishes (a coordinate whose CPUs are all reserved): the index is     *)
(* complete before any claim resolution can observe it (spec, section 5). *)
(***************************************************************************)
PublishedDevicesResolve ==
    \A c \in Claims : err[c] = "lookup" => AllocatableIn(Cur(c).device[2]) = {}

(***************************************************************************)
(* The driver uses the allocation store only as CPUStore allows: every    *)
(* AddResourceClaimAllocation records CPUs that were unreserved and free  *)
(* when it was called, every RemoveResourceClaimAllocation releases, and  *)
(* a restart starts from an empty store.                                  *)
(***************************************************************************)
Store == INSTANCE CPUStore WITH held <- alloc

StoreRefinement == Store!Spec

=============================================================================
