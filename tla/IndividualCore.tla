--------------------------- MODULE IndividualCore ---------------------------
(***************************************************************************)
(* IndividualCoreManager (pkg/device): one device per unreserved CPU,      *)
(* numbered so that hyperthread siblings get adjacent device indices, the  *)
(* catalog cut into slices of at most maxDevicesPerResourceSlice, and      *)
(* claim resolution by the name -> CPU index.                              *)
(*                                                                         *)
(* The topology is an input of the run: Init picks any sibling pairing of *)
(* CPUs and any reserved set, so one run checks CreateSlices on every      *)
(* topology of |CPUs| CPUs. Device attributes are left out: they are       *)
(* copied from the CPU and no property is about them.                      *)
(***************************************************************************)
EXTENDS Integers, Sequences, SequencesExt, FiniteSets, TLC

CONSTANTS
    CPUs,                \* the CPU IDs of topo.CPUDetails
    MaxPerSlice,         \* maxDevicesPerResourceSlice
    Prefix,              \* cpuDevicePrefix
    DriverName,          \* mgr.driverName
    Requests             \* the allocation results a claim may carry

ASSUME IndividualAssumption ==
    /\ CPUs \subseteq Nat /\ IsFiniteSet(CPUs)
    /\ MaxPerSlice \in Nat \ {0}

(* SiblingCpuID == -1: the CPU has no hyperthread sibling. *)
NoSibling == -1

(* The sibling maps cpuinfo reports: a symmetric pairing of CPUs. *)
Pairings ==
    {s \in [CPUs -> CPUs \cup {NoSibling}] :
        \A c \in CPUs : s[c] # c /\ (s[c] # NoSibling => s[s[c]] = c)}

(* fmt.Sprintf("%s%03d", cpuDevicePrefix, devId). *)
DeviceName(i) == <<Prefix, i>>

-----------------------------------------------------------------------------
(***************************************************************************)
(* The CreateSlices algorithm, for sibling map sib and reserved set resv.  *)
(***************************************************************************)

(* cpuInfoMap[id]: a CPU missing from the topology reads as the zero
   CPUInfo, whose CpuID is 0. *)
InfoID(id) == IF id \in CPUs THEN id ELSE 0

(* availableCPUs, sorted by CpuID. *)
AvailableCPUs(resv) == SetToSortSeq(CPUs \ resv, <)

(* One iteration of the walk over availableCPUs: a CPU not yet processed
   starts a group, alone when its sibling is absent or reserved. *)
(* Mutants: the processedCpus check is dropped; a pair is appended with
   the sibling first. *)
GroupStepNoProcessedCheck(sib, resv, st, cpu) ==
    IF sib[cpu] = NoSibling \/ sib[cpu] \in resv
    THEN [processed |-> st.processed \cup {cpu},
          groups    |-> Append(st.groups, <<cpu>>)]
    ELSE [processed |-> st.processed \cup {cpu, sib[cpu]},
          groups    |-> Append(st.groups, <<cpu, InfoID(sib[cpu])>>)]

GroupStepSiblingFirst(sib, resv, st, cpu) ==
    IF cpu \in st.processed THEN st
    ELSE IF sib[cpu] = NoSibling \/ sib[cpu] \in resv
         THEN [processed |-> st.processed \cup {cpu},
               groups    |-> Append(st.groups, <<cpu>>)]
         ELSE [processed |-> st.processed \cup {cpu, sib[cpu]},
               groups    |-> Append(st.groups, <<InfoID(sib[cpu]), cpu>>)]

GroupStep(sib, resv, st, cpu) ==
    IF cpu \in st.processed THEN st
    ELSE IF sib[cpu] = NoSibling \/ sib[cpu] \in resv
         THEN [processed |-> st.processed \cup {cpu},
               groups    |-> Append(st.groups, <<cpu>>)]
         ELSE [processed |-> st.processed \cup {cpu, sib[cpu]},
               groups    |-> Append(st.groups, <<cpu, InfoID(sib[cpu])>>)]

(* coreGroups after the walk and the sort by first CPU ID. *)
CoreGroups(sib, resv) ==
    LET walk == FoldLeft(LAMBDA st, cpu : GroupStep(sib, resv, st, cpu),
                         [processed |-> {}, groups |-> <<>>],
                         AvailableCPUs(resv)).groups
    IN  SortSeq(walk, LAMBDA g, h : g[1] < h[1])

(* allDevices: the CPU of device devId is at position devId + 1. *)
DeviceCPUs(sib, resv) == FlattenSeq(CoreGroups(sib, resv))

(* slices.Chunk(allDevices, maxDevicesPerResourceSlice); nil when empty. *)
Chunk(s, m) ==
    [j \in 1..((Len(s) + m - 1) \div m) |->
        SubSeq(s, (j - 1) * m + 1, IF j * m < Len(s) THEN j * m ELSE Len(s))]

-----------------------------------------------------------------------------
VARIABLES
    sib,       \* SiblingCpuID of every CPU (input)
    resv,      \* mgr.reservedCPUs (input)
    created,   \* CreateSlices has run
    index,     \* deviceNameToCPUID
    slices,    \* the device chunks CreateSlices returned (as CPU IDs)
    resolved,  \* the CPU set the last AllocateCPUs returned
    failed     \* the last AllocateCPUs returned an error

vars == <<sib, resv, created, index, slices, resolved, failed>>

TypeOK ==
    /\ sib \in Pairings
    /\ resv \subseteq CPUs
    /\ created \in BOOLEAN
    /\ DOMAIN index \subseteq {DeviceName(i) : i \in 0..(Cardinality(CPUs) - 1)}
    /\ \A n \in DOMAIN index : index[n] \in CPUs
    /\ slices \in Seq(Seq(CPUs))
    /\ resolved \in SUBSET CPUs
    /\ failed \in BOOLEAN

Init ==
    /\ sib \in Pairings
    /\ resv \in SUBSET CPUs
    /\ created = FALSE
    /\ index = [n \in {} |-> 0]
    /\ slices = <<>>
    /\ resolved = {}
    /\ failed = FALSE

(* Mutant: device IDs start at 1. *)
CreateSlicesFromOne ==
    LET devs == DeviceCPUs(sib, resv) IN
    /\ ~created
    /\ created' = TRUE
    /\ index' = [n \in {DeviceName(i) : i \in 1..Len(devs)} |-> devs[n[2]]]
    /\ slices' = Chunk(devs, MaxPerSlice)
    /\ UNCHANGED <<sib, resv, resolved, failed>>

(* CreateSlices: builds the devices, fills the index, chunks the catalog. *)
CreateSlices ==
    LET devs == DeviceCPUs(sib, resv) IN
    /\ ~created
    /\ created' = TRUE
    /\ index' = [n \in {DeviceName(i) : i \in 0..(Len(devs) - 1)} |->
                    devs[n[2] + 1]]
    /\ slices' = Chunk(devs, MaxPerSlice)
    /\ UNCHANGED <<sib, resv, resolved, failed>>

(* The results of claim rs that belong to this driver. *)
Own(rs) == {i \in 1..Len(rs) : rs[i].driver = DriverName}

(* AllocateCPUs: a device of this driver is missing from the index. *)
AllocateCPUsFail(rs) ==
    /\ \E i \in Own(rs) : rs[i].device \notin DOMAIN index
    /\ resolved' = {}
    /\ failed' = TRUE
    /\ UNCHANGED <<sib, resv, created, index, slices>>

(* AllocateCPUs: cpuset.New of the CPUs of this driver's devices. *)
AllocateCPUs(rs) ==
    /\ \A i \in Own(rs) : rs[i].device \in DOMAIN index
    /\ resolved' = {index[rs[i].device] : i \in Own(rs)}
    /\ failed' = FALSE
    /\ UNCHANGED <<sib, resv, created, index, slices>>

Next ==
    \/ CreateSlices
    \/ \E rs \in Requests : AllocateCPUsFail(rs) \/ AllocateCPUs(rs)

Spec == Init /\ [][Next]_vars

-----------------------------------------------------------------------------
(* The unreserved CPUs, and the first CPU of the core group of CPU x. *)
Available == CPUs \ resv
CoreKey(x) == IF sib[x] \in Available /\ sib[x] < x THEN sib[x] ELSE x

(***************************************************************************)
(* After CreateSlices, the index is a bijection from cpudev000..cpudevK-1 *)
(* onto the unreserved CPUs: every unreserved CPU is published exactly     *)
(* once and no reserved CPU at all, whatever the sibling pairing.          *)
(***************************************************************************)
DevicesCoverAllocatable ==
    created =>
        LET k == Cardinality(DOMAIN index) IN
        /\ DOMAIN index = {DeviceName(i) : i \in 0..(k - 1)}
        /\ {index[n] : n \in DOMAIN index} = Available
        /\ k = Cardinality(Available)

(***************************************************************************)
(* Device indices follow the cores in the order of their lowest CPU ID,   *)
(* and two unreserved hyperthread siblings get adjacent indices, the lower *)
(* CPU ID first: a block of consecutive devices covers whole cores.       *)
(***************************************************************************)
SiblingsAdjacent ==
    created =>
        \A m, n \in DOMAIN index :
            /\ m[2] < n[2] => CoreKey(index[m]) <= CoreKey(index[n])
            /\ (sib[index[m]] = index[n] /\ index[m] < index[n]) =>
                   n[2] = m[2] + 1

=============================================================================
