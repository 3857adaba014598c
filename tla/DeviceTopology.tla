--------------------------- MODULE DeviceTopology ---------------------------
(***************************************************************************)
(* The CPU topology snapshot and reserved set every device manager of      *)
(* pkg/device is bound to at construction (NewIndividualCoreManager,       *)
(* NewSocketGroupedManager, NewNUMAGroupedManager), and the external       *)
(* primitives the managers consume: the cpuinfo topology queries and the   *)
(* packing primitive cpumanager.TakeByTopologyNUMAPacked.                  *)
(*                                                                         *)
(* No variables: the topology and the reservation never change during the *)
(* life of a manager.                                                      *)
(***************************************************************************)
EXTENDS Naturals, FiniteSets, FiniteSetsExt

CONSTANTS
    CPUs,       \* the CPU IDs of topo.CPUDetails
    SocketOf,   \* CPUInfo.SocketID of every CPU
    NUMAOf,     \* CPUInfo.NUMANodeID of every CPU
    Reserved    \* mgr.reservedCPUs (may name CPUs the topology does not have)

ASSUME TopologyAssumption ==
    /\ CPUs \subseteq Nat
    /\ IsFiniteSet(CPUs)
    /\ SocketOf \in [CPUs -> Nat]
    /\ NUMAOf \in [CPUs -> Nat]
    /\ Reserved \subseteq Nat

(***************************************************************************)
(* CPUsInSockets / CPUsInNUMANodes of cpuinfo.CPUDetails: the CPUs whose   *)
(* coordinate under CoordOf (SocketOf or NUMAOf) is k.                     *)
(***************************************************************************)
CPUsIn(CoordOf, k) == {c \in CPUs : CoordOf[c] = k}

(* The CPUs that are not reserved: the only CPUs any device may expose. *)
Allocatable == CPUs \ Reserved

(***************************************************************************)
(* cpumanager.TakeByTopologyNUMAPacked(pool, n): a deterministic choice of *)
(* exactly n CPUs of the pool. Its packing heuristic is an opaque contract *)
(* of an external package, so the model keeps only what the callers rely   *)
(* on: the same pool and count always give the same answer, and the call   *)
(* fails (CanTake is false) when the pool has fewer than n CPUs.           *)
(***************************************************************************)
CanTake(pool, n) == n <= Cardinality(pool)

TakeByTopologyNUMAPacked(pool, n) ==
    CHOOSE s \in SUBSET pool : Cardinality(s) = n

=============================================================================
