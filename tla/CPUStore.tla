------------------------------ MODULE CPUStore ------------------------------
(***************************************************************************)
(* What the CPU allocation store promises the pods on the node, as an     *)
(* abstract specification: a claim is given a set of unreserved CPUs that *)
(* no other claim holds (replacing what it held before), gives them back, *)
(* or every claim loses its CPUs at once when the store is recreated.     *)
(* The driver is correct in its use of the store when its own steps on    *)
(* CPUAllocationStore are steps of this specification.                    *)
(***************************************************************************)
EXTENDS TLAPS

CONSTANTS
    Claims,       \* the claim UIDs
    Allocatable   \* the unreserved CPUs

VARIABLE held     \* claim UID -> the CPUs it holds

(* GetSharedCPUs: the unreserved CPUs no claim holds. *)
Free == Allocatable \ UNION {held[c] : c \in Claims}

Init == held = [c \in Claims |-> {}]

(* AddResourceClaimAllocation of a set chosen from the free CPUs. *)
Assign(c, S) ==
    /\ S \subseteq Free
    /\ held' = [held EXCEPT ![c] = S]

(* RemoveResourceClaimAllocation. *)
Release(c) == held' = [held EXCEPT ![c] = {}]

(* NewCPUAllocationStore in a new process. *)
Reset == held' = [c \in Claims |-> {}]

Next ==
    \/ \E c \in Claims, S \in SUBSET Allocatable : Assign(c, S)
    \/ \E c \in Claims : Release(c)
    \/ Reset

Spec == Init /\ [][Next]_held

(* No CPU is held by two claims. *)
Exclusive == \A c, d \in Claims : c # d => held[c] \cap held[d] = {}

(***************************************************************************)
(* A store used only through these steps never gives a CPU to two claims: *)
(* every set it records is taken from the CPUs no claim holds.            *)
(***************************************************************************)
LEMMA StoreExclusive == Spec => []Exclusive
<1>1. Init => Exclusive
    BY DEF Init, Exclusive
<1>2. Exclusive /\ [Next]_held => Exclusive'
    <2> SUFFICES ASSUME Exclusive, [Next]_held PROVE Exclusive'
        OBVIOUS
    <2>1. ASSUME NEW c \in Claims, NEW S \in SUBSET Allocatable, Assign(c, S)
          PROVE  Exclusive'
        BY <2>1 DEF Assign, Free, Exclusive
    <2>2. ASSUME NEW c \in Claims, Release(c) PROVE Exclusive'
        BY <2>2 DEF Release, Exclusive
    <2>3. CASE Reset
        BY <2>3 DEF Reset, Exclusive
    <2>4. CASE UNCHANGED held
        BY <2>4 DEF Exclusive
    <2>. QED
        BY <2>1, <2>2, <2>3, <2>4 DEF Next
<1>. QED
    BY <1>1, <1>2, PTL DEF Spec

=============================================================================
