------------------------- MODULE GroupedDriverProofs -------------------------
(***************************************************************************)
(* Proofs about GroupedDriver that hold for every topology, reserved set,  *)
(* set of claims and allocation results: the type invariant; that under    *)
(* serialised gRPC calls the driver uses its store as the abstract         *)
(* CPUStore specifies, restarts included; and that without kills from      *)
(* outside no two prepared claims hand the same CPU to their containers.   *)
(***************************************************************************)
EXTENDS GroupedDriver, FiniteSetTheorems, WellFoundedInduction, TLAPS

-----------------------------------------------------------------------------
(***************************************************************************)
(* Lemmas about the operators the model is built from.                     *)
(***************************************************************************)

(* Min of FiniteSetsExt, used by CreateSlices to visit the coordinates in
   ascending order, is an element of every non-empty set of naturals. *)
LEMMA MinIsLeast ==
    ASSUME NEW S \in SUBSET Nat, S # {}
    PROVE  /\ Min(S) \in S
           /\ \A y \in S : Min(S) <= y
<1>1. PICK x \in S : \A y \in S : ~(<<y, x>> \in OpToRel(<, Nat))
    BY NatLessThanWellFounded, WFMin
<1>2. \A y \in S : x <= y
    <2>1. TAKE y \in S
    <2>2. ~(<<y, x>> \in OpToRel(<, Nat))
        BY <1>1
    <2>3. ~(y < x)
        BY <2>2 DEF OpToRel
    <2>. QED
        BY <2>3
<1>. QED
    BY <1>2 DEF Min

(* A finite set has a subset of every size up to its cardinality. *)
LEMMA SubsetOfSize ==
    ASSUME NEW S, IsFiniteSet(S), NEW n \in Nat, n <= Cardinality(S)
    PROVE  \E T \in SUBSET S : Cardinality(T) = n
<1>1. Cardinality(S) \in Nat /\ ExistsBijection(1..Cardinality(S), S)
    BY FS_CardinalityType
<1>2. PICK f \in Bijection(1..Cardinality(S), S) : TRUE
    BY <1>1 DEF ExistsBijection
<1>. DEFINE T == {f[i] : i \in 1..n}
            g == [i \in 1..n |-> f[i]]
<1>3. T \subseteq S
    BY <1>1, <1>2 DEF Bijection, Injection
<1>4. g \in Bijection(1..n, T)
    BY <1>1, <1>2 DEF Bijection, Injection, Surjection, IsInjective
<1>5. Cardinality(T) = n
    BY <1>4, FS_CountingElements DEF ExistsBijection
<1>. QED
    BY <1>3, <1>5

(* TakeByTopologyNUMAPacked returns CPUs of the pool, as many as asked,
   whenever the pool is large enough. *)
LEMMA TakeWithinPool ==
    ASSUME NEW P, IsFiniteSet(P), NEW n \in Nat, CanTake(P, n)
    PROVE  /\ TakeByTopologyNUMAPacked(P, n) \subseteq P
           /\ Cardinality(TakeByTopologyNUMAPacked(P, n)) = n
<1>1. \E T \in SUBSET P : Cardinality(T) = n
    BY SubsetOfSize DEF CanTake
<1>. QED
    BY <1>1 DEF TakeByTopologyNUMAPacked

(* The pool AllocateCPUs reads is a finite set of CPUs of the topology. *)
LEMMA PoolIsFinite ==
    ASSUME NEW c
    PROVE  /\ PoolOf(c) \subseteq CPUs
           /\ IsFiniteSet(PoolOf(c))
<1>1. PoolOf(c) \subseteq CPUs
    BY DEF PoolOf, SharedCPUs, Allocatable, CPUsIn
<1>. QED
    BY <1>1, TopologyAssumption, FS_Subset

-----------------------------------------------------------------------------
(***************************************************************************)
(* Type correctness. TypeOK alone is not inductive: a claim in the middle *)
(* of a prepare must have an allocation, so that the result it looks at   *)
(* has a device and a count.                                              *)
(***************************************************************************)
TypeInv ==
    /\ TypeOK
    /\ \A c \in Claims : pc[c] # "idle" => Results[c] # NoAllocation

(* The allocation result a claim in the loop looks at is a Result. *)
LEMMA CurIsResult ==
    ASSUME TypeInv, NEW c \in Claims, InLoop(c)
    PROVE  /\ Cur(c) \in Result
           /\ Cur(c).count \in Nat
           /\ Cur(c).device \in DeviceNames
<1>1. Results[c] \in Seq(Result)
    BY GroupedAssumption DEF TypeInv, InLoop
<1>2. ri[c] \in 1..Len(Results[c])
    BY <1>1 DEF TypeInv, TypeOK, InLoop
<1>3. Cur(c) \in Result
    BY <1>1, <1>2 DEF Cur
<1>. QED
    BY <1>3 DEF Result

(* The set AllocTake adds to cpuAssignment consists of CPUs. *)
LEMMA TakeIsCPUs ==
    ASSUME TypeInv, NEW c \in Claims, InLoop(c),
           CanTake(PoolOf(c), Cur(c).count)
    PROVE  TakeByTopologyNUMAPacked(PoolOf(c), Cur(c).count) \subseteq PoolOf(c)
<1>1. Cur(c).count \in Nat
    BY CurIsResult
<1>. QED
    BY <1>1, PoolIsFinite, TakeWithinPool

(* Init satisfies the type invariant. *)
LEMMA InitTypeInv == Init => TypeInv
<1> SUFFICES ASSUME Init PROVE TypeInv
    OBVIOUS
<1>1. started \in BOOLEAN
    BY Zenon DEF Init
<1>2. restarts \in 0..MaxRestarts
    BY GroupedAssumption DEF Init
<1>. QED
    BY <1>1, <1>2 DEF Init, TypeInv, TypeOK, Coords, Errors, KubeletStates

(* A restart of the process leaves a well-typed state, whatever the kubelet
   makes of the call that killed it. *)
LEMMA RestartTypeInv ==
    ASSUME TypeInv, NEW k \in [Claims -> KubeletStates], ProcessRestart(k),
           restarts' \in 0..MaxRestarts
    PROVE  TypeInv'
<1>. USE DEF ProcessRestart, TypeInv, TypeOK
<1>1. pending' \subseteq Coords /\ DOMAIN index' = {}
    OBVIOUS
<1>2. /\ alloc' \in [Claims -> SUBSET CPUs]
      /\ acc' \in [Claims -> SUBSET CPUs]
      /\ cdi' \in [Claims -> (SUBSET CPUs) \cup {None}]
    OBVIOUS
<1>3. kst' \in [Claims -> KubeletStates]
    BY DEF KubeletStates
<1>4. err' \in [Claims -> Errors]
    BY DEF Errors
<1>5. /\ pc' \in [Claims -> {"idle", "alloc", "cdi"}]
      /\ ri' \in [Claims -> Nat \ {0}]
      /\ \A c \in Claims : pc'[c] = "idle"
    OBVIOUS
<1>6. started' \in BOOLEAN
    BY Zenon
<1>. QED
    BY <1>1, <1>2, <1>3, <1>4, <1>5, <1>6

(* Every step of the driver preserves the type invariant. *)
LEMMA NextTypeInv == TypeInv /\ [Next]_vars => TypeInv'
<1> SUFFICES ASSUME TypeInv, [Next]_vars PROVE TypeInv'
    OBVIOUS
<1>. USE DEF TypeInv, TypeOK
<1>1. CASE CreateDevice
    <2>1. pending \subseteq Nat
        BY GroupedAssumption DEF Coords
    <2>2. pending # {}
        BY <1>1 DEF CreateDevice
    <2>3. Min(pending) \in pending
        BY <2>1, <2>2, MinIsLeast
    <2>. DEFINE k == Min(pending)
    <2>4. k \in Coords /\ k \in Nat
        BY <2>1, <2>3
    <2>5. /\ index' = [n \in DOMAIN index \cup {DeviceName(k)} |->
                         IF n = DeviceName(k) THEN k ELSE index[n]]
          /\ pending' = pending \ {k}
          /\ UNCHANGED <<claimVars, procVars>>
        BY <1>1 DEF CreateDevice
    <2>6. /\ DOMAIN index' \subseteq DeviceNames
          /\ \A n \in DOMAIN index' : index'[n] \in Coords
        BY <2>4, <2>5 DEF DeviceName, DeviceNames
    <2>. QED
        BY <2>5, <2>6 DEF claimVars, procVars
<1>2. CASE SkipCoordinate
    BY <1>2 DEF SkipCoordinate, claimVars, procVars
<1>3. ASSUME NEW c \in Claims, PrepareNoAllocation(c) PROVE TypeInv'
    BY <1>3 DEF PrepareNoAllocation, Errors, KubeletStates
<1>4. ASSUME NEW c \in Claims, PrepareStart(c) PROVE TypeInv'
    BY <1>4 DEF PrepareStart, Errors, KubeletStates
<1>5. ASSUME NEW c \in Claims, Unprepare(c) PROVE TypeInv'
    BY <1>5 DEF Unprepare, KubeletStates
<1>6. ASSUME NEW c \in Claims, UnprepareFail(c) PROVE TypeInv'
    BY <1>6 DEF UnprepareFail, KubeletStates
<1>7. ASSUME NEW c \in Claims, AllocSkipForeign(c) PROVE TypeInv'
    BY <1>7 DEF AllocSkipForeign
<1>8. ASSUME NEW c \in Claims, AllocLookupFail(c) PROVE TypeInv'
    BY <1>8 DEF AllocLookupFail, Fail, Errors, KubeletStates
<1>9. ASSUME NEW c \in Claims, AllocTakeFail(c) PROVE TypeInv'
    BY <1>9 DEF AllocTakeFail, Fail, Errors, KubeletStates
<1>10. ASSUME NEW c \in Claims, AllocTake(c) PROVE TypeInv'
    <2>1. TakeByTopologyNUMAPacked(PoolOf(c), Cur(c).count) \subseteq CPUs
        BY <1>10, TakeIsCPUs, PoolIsFinite DEF AllocTake
    <2>. QED
        BY <1>10, <2>1 DEF AllocTake
<1>11. ASSUME NEW c \in Claims, AllocDone(c) PROVE TypeInv'
    BY <1>11 DEF AllocDone
<1>12. ASSUME NEW c \in Claims, CDIAddDevice(c) PROVE TypeInv'
    BY <1>12 DEF CDIAddDevice, KubeletStates
<1>13. ASSUME NEW c \in Claims, CDIAddDeviceFail(c) PROVE TypeInv'
    BY <1>13 DEF CDIAddDeviceFail, Fail, Errors, KubeletStates
<1>14. CASE StartComplete
    BY <1>14 DEF StartComplete, claimVars
<1>15. CASE Crash
    <2>1. restarts' \in 0..MaxRestarts
        BY <1>15, GroupedAssumption DEF Crash
    <2>. QED
        BY <1>15, <2>1, RestartTypeInv DEF Crash
<1>17. ASSUME NEW c \in Claims, UnpreparePanic(c) PROVE TypeInv'
    <2>1. [kst EXCEPT ![c] = "unprepareFailed"] \in [Claims -> KubeletStates]
        BY DEF KubeletStates
    <2>. QED
        BY <1>17, <2>1, RestartTypeInv DEF UnpreparePanic
<1>18. CASE UNCHANGED vars
    BY <1>18 DEF vars
<1>. QED
    BY <1>1, <1>2, <1>3, <1>4, <1>5, <1>6, <1>7, <1>8, <1>9, <1>10,
       <1>11, <1>12, <1>13, <1>14, <1>15, <1>17, <1>18
    DEF Next, Publish, Kubelet, Prepare

(***************************************************************************)
(* Every reachable state of the driver is well typed, for every topology, *)
(* reserved set, set of claims and allocation results: in particular the  *)
(* index CreateSlices fills only maps device names to coordinates, and    *)
(* AllocateCPUs only ever records CPUs of the topology.                   *)
(***************************************************************************)
THEOREM TypeCorrect == Spec => []TypeOK
<1>1. TypeInv => TypeOK
    BY DEF TypeInv
<1>. QED
    BY <1>1, InitTypeInv, NextTypeInv, PTL DEF Spec

-----------------------------------------------------------------------------
(***************************************************************************)
(* The allocation store under serialised kubelet calls. The store's own   *)
(* invariant is not inductive by itself: AllocDone records cpuAssignment  *)
(* in the store, so the set being accumulated must already avoid every    *)
(* CPU the store holds (the claim's own old entry included), and that     *)
(* holds only because no other claim can enter or leave the store while   *)
(* one prepare is in progress. A restart empties the store and ends every *)
(* prepare, so this part survives crashes.                                *)
(***************************************************************************)

(* At most one claim is inside PrepareResourceClaims. *)
AtMostOneBusy ==
    \A c, d \in Claims : c # d /\ pc[c] # "idle" => pc[d] = "idle"

(* The CPUs a running prepare has taken so far are held by no other claim,
   and, until AddResourceClaimAllocation, not by the claim's old entry. *)
AccFree ==
    \A c, d \in Claims :
        pc[c] # "idle" /\ (c # d \/ pc[c] = "alloc") => acc[c] \cap alloc[d] = {}

(* cpuAssignment consists of unreserved CPUs. *)
AccAllocatable == \A c \in Claims : pc[c] = "alloc" => acc[c] \subseteq Allocatable

(* After AddResourceClaimAllocation the store holds cpuAssignment. *)
StoreIsAcc == \A c \in Claims : pc[c] = "cdi" => alloc[c] = acc[c]

(* No CPU is held by two claims in the store. *)
StoreExclusive ==
    \A c, d \in Claims : c # d => alloc[c] \cap alloc[d] = {}

StoreInv ==
    /\ TypeInv
    /\ StoreIsAcc
    /\ AccAllocatable
    /\ Serialize => AtMostOneBusy /\ AccFree /\ StoreExclusive

(* Init satisfies the store invariant. *)
LEMMA InitStoreInv == Init => StoreInv
BY InitTypeInv DEF Init, StoreInv, StoreIsAcc, AccAllocatable, AtMostOneBusy,
                   AccFree, StoreExclusive

(* The pool AllocateCPUs reads avoids every CPU the store holds. *)
LEMMA PoolIsFree ==
    ASSUME NEW c, NEW d \in Claims
    PROVE  PoolOf(c) \cap alloc[d] = {}
BY DEF PoolOf, SharedCPUs

(* After a restart the store is empty and no prepare runs. *)
LEMMA RestartStoreInv ==
    ASSUME NEW k, ProcessRestart(k)
    PROVE  /\ \A c \in Claims : alloc'[c] = {} /\ pc'[c] = "idle"
           /\ StoreIsAcc' /\ AccAllocatable'
           /\ AtMostOneBusy' /\ AccFree' /\ StoreExclusive'
BY DEF ProcessRestart, StoreIsAcc, AccAllocatable, AtMostOneBusy, AccFree,
       StoreExclusive

(* Every step of the driver preserves the store invariant. *)
LEMMA NextStoreInv == StoreInv /\ [Next]_vars => StoreInv'
<1> SUFFICES ASSUME StoreInv, [Next]_vars PROVE StoreInv'
    OBVIOUS
<1>1. TypeInv'
    BY NextTypeInv DEF StoreInv
<1>. USE DEF StoreInv, StoreIsAcc, AccAllocatable, AtMostOneBusy, AccFree,
             StoreExclusive, TypeInv, TypeOK
<1>2. CASE Publish
    BY <1>1, <1>2 DEF Publish, CreateDevice, SkipCoordinate, claimVars
<1>3. ASSUME NEW c \in Claims, PrepareNoAllocation(c) PROVE StoreInv'
    BY <1>1, <1>3 DEF PrepareNoAllocation, CanCall, NoCallInProgress
<1>4. ASSUME NEW c \in Claims, PrepareStart(c) PROVE StoreInv'
    BY <1>1, <1>4 DEF PrepareStart, CanCall, NoCallInProgress
<1>5. ASSUME NEW c \in Claims, Unprepare(c) PROVE StoreInv'
    BY <1>1, <1>5 DEF Unprepare, CanCall, NoCallInProgress
<1>6. ASSUME NEW c \in Claims, UnprepareFail(c) PROVE StoreInv'
    BY <1>1, <1>6 DEF UnprepareFail, CanCall, NoCallInProgress
<1>7. ASSUME NEW c \in Claims, AllocSkipForeign(c) PROVE StoreInv'
    BY <1>1, <1>7 DEF AllocSkipForeign
<1>8. ASSUME NEW c \in Claims, AllocLookupFail(c) PROVE StoreInv'
    BY <1>1, <1>8 DEF AllocLookupFail, Fail
<1>9. ASSUME NEW c \in Claims, AllocTakeFail(c) PROVE StoreInv'
    BY <1>1, <1>9 DEF AllocTakeFail, Fail
<1>10. ASSUME NEW c \in Claims, AllocTake(c) PROVE StoreInv'
    <2>. DEFINE T == TakeByTopologyNUMAPacked(PoolOf(c), Cur(c).count)
    <2>1. /\ \A d \in Claims : T \cap alloc[d] = {}
          /\ T \subseteq Allocatable
        BY <1>10, TakeIsCPUs, PoolIsFree DEF AllocTake, PoolOf, SharedCPUs
    <2>2. acc' = [acc EXCEPT ![c] = @ \cup T]
          /\ pc[c] = "alloc"
          /\ UNCHANGED <<pending, index, alloc, cdi, kst, pc, err>>
        BY <1>10 DEF AllocTake, InLoop
    <2>. QED
        BY <1>1, <2>1, <2>2
<1>11. ASSUME NEW c \in Claims, AllocDone(c) PROVE StoreInv'
    <2>1. /\ alloc' = [alloc EXCEPT ![c] = acc[c]]
          /\ pc' = [pc EXCEPT ![c] = "cdi"]
          /\ pc[c] = "alloc"
          /\ UNCHANGED <<acc, kst>>
        BY <1>11 DEF AllocDone
    <2>2. StoreIsAcc' /\ AccAllocatable'
        BY <2>1
    <2>3. ASSUME Serialize PROVE AtMostOneBusy' /\ AccFree' /\ StoreExclusive'
        <3>1. \A d \in Claims : d # c => pc[d] = "idle"
            BY <2>1, <2>3
        <3>2. \A d \in Claims : d # c => acc[c] \cap alloc[d] = {}
            BY <2>1, <2>3
        <3>3. AtMostOneBusy'
            BY <2>1, <3>1
        <3>4. AccFree'
            BY <2>1, <3>1, <3>2
        <3>5. StoreExclusive'
            BY <2>1, <2>3, <3>2
        <3>. QED
            BY <3>3, <3>4, <3>5
    <2>. QED
        BY <1>1, <2>2, <2>3
<1>12. ASSUME NEW c \in Claims, CDIAddDevice(c) PROVE StoreInv'
    BY <1>1, <1>12 DEF CDIAddDevice
<1>13. ASSUME NEW c \in Claims, CDIAddDeviceFail(c) PROVE StoreInv'
    BY <1>1, <1>13 DEF CDIAddDeviceFail, Fail
<1>14. CASE StartComplete
    BY <1>1, <1>14 DEF StartComplete, claimVars
<1>15. ASSUME NEW k, ProcessRestart(k) PROVE StoreInv'
    BY <1>1, <1>15, RestartStoreInv
<1>16. CASE UNCHANGED vars
    BY <1>16 DEF vars
<1>17. CASE Crash
    BY <1>15, <1>17 DEF Crash
<1>18. ASSUME NEW c \in Claims, UnpreparePanic(c) PROVE StoreInv'
    BY <1>15, <1>18 DEF UnpreparePanic
<1>. QED
    BY <1>2, <1>3, <1>4, <1>5, <1>6, <1>7, <1>8, <1>9, <1>10,
       <1>11, <1>12, <1>13, <1>14, <1>16, <1>17, <1>18
    DEF Next, Kubelet, Prepare

-----------------------------------------------------------------------------
(***************************************************************************)
(* Exclusive assignment to containers. Without kills from outside, a      *)
(* prepared claim's CDI env var is its store entry: the store is only     *)
(* emptied by a panic on the nil cdiMgr, and no claim is prepared before  *)
(* Start has set cdiMgr.                                                  *)
(***************************************************************************)

(* A claim is not prepared while a prepare of it is running, and a prepared
   claim's CDI env var names exactly the CPUs the store holds for it. *)
PreparedIsStore ==
    \A c \in Claims :
        /\ pc[c] # "idle" => kst[c] # "prepared"
        /\ kst[c] = "prepared" => cdi[c] = alloc[c]

(* Before cdiMgr is set no claim is prepared. *)
StoppedNotPrepared == ~started => \A c \in Claims : kst[c] # "prepared"

ExclInv == StoreInv /\ PreparedIsStore /\ StoppedNotPrepared

(* Init satisfies the strengthened invariant. *)
LEMMA InitExclInv == Init => ExclInv
BY InitStoreInv DEF Init, ExclInv, PreparedIsStore, StoppedNotPrepared

(* The panic of an unprepare while cdiMgr is nil leaves no claim prepared. *)
LEMMA PanicExclInv ==
    ASSUME StoppedNotPrepared, ~started, NEW k \in [Claims -> KubeletStates],
           \A c \in Claims : k[c] = "prepared" => kst[c] = "prepared",
           ProcessRestart(k)
    PROVE  PreparedIsStore' /\ StoppedNotPrepared'
BY DEF ProcessRestart, PreparedIsStore, StoppedNotPrepared

(* Without kills from outside, every step preserves the invariant. *)
LEMMA NextExclInv ==
    ASSUME MaxRestarts = 0
    PROVE  ExclInv /\ [Next]_vars => ExclInv'
<1> SUFFICES ASSUME ExclInv, [Next]_vars PROVE ExclInv'
    OBVIOUS
<1>1. StoreInv'
    BY NextStoreInv DEF ExclInv
<1>. USE DEF ExclInv, StoreInv, StoreIsAcc, PreparedIsStore, StoppedNotPrepared,
             TypeInv, TypeOK
<1>2. CASE Publish
    BY <1>1, <1>2 DEF Publish, CreateDevice, SkipCoordinate, claimVars, procVars
<1>3. ASSUME NEW c \in Claims, Kubelet(c) /\ ~UnpreparePanic(c) PROVE ExclInv'
    BY <1>1, <1>3 DEF Kubelet, PrepareNoAllocation, PrepareStart, Unprepare,
                      UnprepareFail
<1>4. ASSUME NEW c \in Claims, Prepare(c) PROVE ExclInv'
    BY <1>1, <1>4 DEF Prepare, AllocSkipForeign, AllocLookupFail,
                      AllocTakeFail, AllocTake, AllocDone, CDIAddDevice,
                      CDIAddDeviceFail, Fail
<1>5. CASE StartComplete
    BY <1>1, <1>5 DEF StartComplete, claimVars
<1>7. ASSUME NEW c \in Claims, UnpreparePanic(c) PROVE ExclInv'
    <2>. DEFINE k == [kst EXCEPT ![c] = "unprepareFailed"]
    <2>1. k \in [Claims -> KubeletStates]
          /\ \A d \in Claims : k[d] = "prepared" => kst[d] = "prepared"
        BY DEF KubeletStates
    <2>. QED
        BY <1>1, <1>7, <2>1, PanicExclInv DEF UnpreparePanic
<1>8. ~Crash
    BY DEF Crash
<1>9. CASE UNCHANGED vars
    BY <1>1, <1>9 DEF vars
<1>. QED
    BY <1>2, <1>3, <1>4, <1>5, <1>7, <1>8, <1>9 DEF Next

(***************************************************************************)
(* While kubeletplugin serialises the gRPC calls (its default, on which   *)
(* Start relies) and the process is not killed from outside, no two       *)
(* prepared claims hand the same CPU to their containers, for every       *)
(* topology, reserved set and set of claims: the free pool AllocateCPUs   *)
(* reads cannot change before AddResourceClaimAllocation. The restart run *)
(* shows why the second hypothesis is needed.                             *)
(***************************************************************************)
THEOREM SerializedExclusive ==
    Serialize /\ MaxRestarts = 0 => (Spec => []ExclusiveAssignment)
<1>. SUFFICES ASSUME Serialize, MaxRestarts = 0
              PROVE  Spec => []ExclusiveAssignment
    OBVIOUS
<1>1. ExclInv => ExclusiveAssignment
    BY DEF ExclInv, StoreInv, ExclusiveAssignment, StoreExclusive, PreparedIsStore
<1>2. Spec => []ExclInv
    BY InitExclInv, NextExclInv, PTL DEF Spec
<1>. QED
    BY <1>1, <1>2, PTL


-----------------------------------------------------------------------------
(***************************************************************************)
(* Refinement of the abstract allocation store. AllocDone is an Assign of *)
(* cpuAssignment, which AccFree and AccAllocatable show is taken from the *)
(* free CPUs; an unprepare is a Release; a restart is a Reset; every other *)
(* step leaves the store alone.                                           *)
(***************************************************************************)

(* Under serialised calls every step of the driver is a step of CPUStore
   on the store, or leaves the store unchanged. *)
LEMMA StoreStep ==
    ASSUME Serialize, StoreInv, [Next]_vars
    PROVE  [Store!Next]_alloc
<1>. USE DEF StoreInv, TypeInv, TypeOK
<1>1. ASSUME NEW c \in Claims, AllocDone(c) PROVE Store!Assign(c, acc[c])
    <2>1. pc[c] = "alloc" /\ alloc' = [alloc EXCEPT ![c] = acc[c]]
        BY <1>1 DEF AllocDone
    <2>2. \A d \in Claims : acc[c] \cap alloc[d] = {}
        BY <2>1 DEF AccFree
    <2>3. acc[c] \subseteq Allocatable
        BY <2>1 DEF AccAllocatable
    <2>. QED
        BY <2>1, <2>2, <2>3 DEF Store!Assign, Store!Free
<1>2. ASSUME NEW c \in Claims, AllocDone(c) PROVE Store!Next
    <2>1. acc[c] \in SUBSET Allocatable
        BY <1>2 DEF AllocDone, AccAllocatable
    <2>. QED
        BY <1>1, <1>2, <2>1 DEF Store!Next
<1>3. ASSUME NEW c \in Claims, Unprepare(c) \/ UnprepareFail(c) PROVE Store!Next
    BY <1>3 DEF Unprepare, UnprepareFail, Store!Next, Store!Release
<1>4. ASSUME NEW k, ProcessRestart(k) PROVE Store!Next
    BY <1>4 DEF ProcessRestart, Store!Next, Store!Reset
<1>5. ASSUME NEW c \in Claims, UnpreparePanic(c) PROVE Store!Next
    BY <1>4, <1>5 DEF UnpreparePanic
<1>6. CASE Crash
    BY <1>4, <1>6 DEF Crash
<1>7. ASSUME NEW c \in Claims,
             \/ PrepareNoAllocation(c) \/ PrepareStart(c) \/ AllocSkipForeign(c)
             \/ AllocLookupFail(c) \/ AllocTakeFail(c) \/ AllocTake(c)
             \/ CDIAddDevice(c) \/ CDIAddDeviceFail(c)
      PROVE  UNCHANGED alloc
    BY <1>7 DEF PrepareNoAllocation, PrepareStart, AllocSkipForeign,
                AllocLookupFail, AllocTakeFail, AllocTake, CDIAddDevice,
                CDIAddDeviceFail, Fail
<1>8. CASE StartComplete \/ Publish \/ UNCHANGED vars
    BY <1>8 DEF StartComplete, Publish, CreateDevice, SkipCoordinate, claimVars,
                vars
<1>. QED
    BY <1>2, <1>3, <1>5, <1>6, <1>7, <1>8 DEF Next, Kubelet, Prepare

(***************************************************************************)
(* While kubeletplugin serialises the gRPC calls, the driver uses its     *)
(* CPUAllocationStore as the abstract store specifies, crashes included:  *)
(* every set AddResourceClaimAllocation records is taken from the CPUs no *)
(* claim holds, so the store never gives a CPU to two claims.             *)
(***************************************************************************)
THEOREM SerializedRefinement == Serialize => (Spec => StoreRefinement)
<1>. SUFFICES ASSUME Serialize PROVE Spec => Store!Spec
    BY DEF StoreRefinement
<1>1. Init => Store!Init
    BY DEF Init, Store!Init
<1>2. Spec => []StoreInv
    BY InitStoreInv, NextStoreInv, PTL DEF Spec
<1>3. StoreInv /\ [Next]_vars => [Store!Next]_alloc
    BY StoreStep
<1>. QED
    BY <1>1, <1>2, <1>3, PTL DEF Spec, Store!Spec

(***************************************************************************)
(* Under serialised calls no CPU is ever held by two claims in the        *)
(* driver's CPUAllocationStore, process restarts included (unlike the CDI *)
(* env vars, which a restart does not reset): the store's steps are the   *)
(* abstract store's, and the abstract store is exclusive.                 *)
(***************************************************************************)
THEOREM SerializedStoreExclusive == Serialize => (Spec => []StoreExclusive)
<1>. SUFFICES ASSUME Serialize PROVE Spec => []StoreExclusive
    OBVIOUS
<1>1. Spec => Store!Spec
    BY SerializedRefinement DEF StoreRefinement
<1>2. Store!Spec => []Store!Exclusive
    BY Store!StoreExclusive
<1>3. Store!Exclusive <=> StoreExclusive
    BY DEF Store!Exclusive, StoreExclusive
<1>. QED
    BY <1>1, <1>2, <1>3, PTL


-----------------------------------------------------------------------------
(***************************************************************************)
(* Allocation within the claim's devices. AllocationWithinDevices is not  *)
(* inductive by itself: the CPUs AllocDone records are the ones AllocTake *)
(* gathered in cpuAssignment, and those lie in a device's coordinate only *)
(* because the index maps every device name to the coordinate it names.   *)
(* Neither serialisation nor the absence of crashes is needed.            *)
(***************************************************************************)

(* CreateSlices names each device after the coordinate it stores. *)
IndexNamesCoord == \A n \in DOMAIN index : DeviceName(index[n]) = n

(* Every CPU of S is unreserved and in a device one of c's own results names. *)
WithinDevices(c, S) ==
    \A cpu \in S :
        /\ cpu \notin Reserved
        /\ \E i \in OwnResults(c) : Results[c][i].device = DeviceName(CoordOf[cpu])

WithinInv ==
    /\ TypeInv
    /\ IndexNamesCoord
    /\ \A c \in Claims : WithinDevices(c, alloc[c])
    /\ \A c \in Claims : pc[c] # "idle" => WithinDevices(c, acc[c])

(* Init satisfies the invariant. *)
LEMMA InitWithinInv == Init => WithinInv
BY InitTypeInv DEF Init, WithinInv, IndexNamesCoord, WithinDevices

(* The CPUs AllocTake adds lie in the device of the result it looks at, and
   that result is one of the claim's own. *)
LEMMA TakeWithinDevice ==
    ASSUME TypeInv, IndexNamesCoord, NEW c \in Claims, InLoop(c),
           Cur(c).driver = DriverName, Cur(c).device \in DOMAIN index,
           CanTake(PoolOf(c), Cur(c).count)
    PROVE  WithinDevices(c, TakeByTopologyNUMAPacked(PoolOf(c), Cur(c).count))
<1>. DEFINE d == Cur(c).device
            T == TakeByTopologyNUMAPacked(PoolOf(c), Cur(c).count)
<1>1. ri[c] \in OwnResults(c)
    BY DEF InLoop, OwnResults, Cur, TypeInv, TypeOK
<1>2. DeviceName(index[d]) = d
    BY DEF IndexNamesCoord
<1>3. ASSUME NEW cpu \in T
      PROVE  cpu \notin Reserved /\ CoordOf[cpu] = index[d]
    <2>1. cpu \in PoolOf(c)
        BY TakeIsCPUs
    <2>. QED
        BY <2>1 DEF PoolOf, SharedCPUs, Allocatable, CPUsIn
<1>. QED
    BY <1>1, <1>2, <1>3 DEF WithinDevices, Cur

(* Every step of the driver preserves the invariant. *)
LEMMA NextWithinInv == WithinInv /\ [Next]_vars => WithinInv'
<1> SUFFICES ASSUME WithinInv, [Next]_vars PROVE WithinInv'
    OBVIOUS
<1>1. TypeInv'
    BY NextTypeInv DEF WithinInv
<1>. USE DEF WithinInv, TypeInv, TypeOK
<1>2. CASE CreateDevice
    <2>. DEFINE k == Min(pending)
    <2>1. index' = [n \in DOMAIN index \cup {DeviceName(k)} |->
                      IF n = DeviceName(k) THEN k ELSE index[n]]
          /\ UNCHANGED claimVars
        BY <1>2 DEF CreateDevice
    <2>2. IndexNamesCoord'
        BY <2>1 DEF IndexNamesCoord
    <2>. QED
        BY <1>1, <2>1, <2>2 DEF claimVars, WithinDevices, OwnResults
<1>3. CASE SkipCoordinate \/ StartComplete
    BY <1>1, <1>3 DEF SkipCoordinate, StartComplete, claimVars, IndexNamesCoord,
                      WithinDevices, OwnResults
<1>4. ASSUME NEW k, ProcessRestart(k) PROVE WithinInv'
    BY <1>1, <1>4 DEF ProcessRestart, IndexNamesCoord, WithinDevices
<1>5. CASE Crash
    BY <1>4, <1>5 DEF Crash
<1>6. ASSUME NEW c \in Claims, UnpreparePanic(c) PROVE WithinInv'
    BY <1>4, <1>6 DEF UnpreparePanic
<1>7. ASSUME NEW c \in Claims,
             \/ PrepareNoAllocation(c) \/ PrepareStart(c) \/ Unprepare(c)
             \/ UnprepareFail(c) \/ AllocSkipForeign(c) \/ AllocLookupFail(c)
             \/ AllocTakeFail(c) \/ AllocDone(c) \/ CDIAddDevice(c)
             \/ CDIAddDeviceFail(c)
      PROVE  WithinInv'
    <2>. USE DEF IndexNamesCoord, WithinDevices
    <2>1. CASE PrepareNoAllocation(c)
        BY <1>1, <2>1 DEF PrepareNoAllocation
    <2>2. CASE PrepareStart(c)
        BY <1>1, <2>2 DEF PrepareStart
    <2>3. CASE Unprepare(c)
        BY <1>1, <2>3 DEF Unprepare
    <2>4. CASE UnprepareFail(c)
        BY <1>1, <2>4 DEF UnprepareFail
    <2>5. CASE AllocSkipForeign(c)
        BY <1>1, <2>5 DEF AllocSkipForeign
    <2>6. CASE AllocLookupFail(c) \/ AllocTakeFail(c) \/ CDIAddDeviceFail(c)
        <3>1. Fail(c, "lookup") \/ Fail(c, "capacity") \/ Fail(c, "cdi")
            BY <2>6 DEF AllocLookupFail, AllocTakeFail, CDIAddDeviceFail
        <3>2. UNCHANGED <<pending, index, alloc, acc>>
              /\ pc' = [pc EXCEPT ![c] = "idle"]
            BY <3>1 DEF Fail
        <3>. QED
            BY <1>1, <3>2
    <2>7. CASE AllocDone(c)
        BY <1>1, <2>7 DEF AllocDone
    <2>8. CASE CDIAddDevice(c)
        BY <1>1, <2>8 DEF CDIAddDevice
    <2>. QED
        BY <1>7, <2>1, <2>2, <2>3, <2>4, <2>5, <2>6, <2>7, <2>8
<1>8. ASSUME NEW c \in Claims, AllocTake(c) PROVE WithinInv'
    <2>. DEFINE T == TakeByTopologyNUMAPacked(PoolOf(c), Cur(c).count)
    <2>1. WithinDevices(c, T)
        BY <1>8, TakeWithinDevice DEF AllocTake
    <2>2. acc' = [acc EXCEPT ![c] = @ \cup T]
          /\ pc[c] = "alloc"
          /\ UNCHANGED <<pending, index, alloc, cdi, kst, pc, err>>
        BY <1>8 DEF AllocTake, InLoop
    <2>. QED
        BY <1>1, <2>1, <2>2 DEF IndexNamesCoord, WithinDevices
<1>9. CASE UNCHANGED vars
    BY <1>9 DEF vars, IndexNamesCoord, WithinDevices
<1>. QED
    BY <1>2, <1>3, <1>5, <1>6, <1>7, <1>8, <1>9
    DEF Next, Publish, Kubelet, Prepare

(***************************************************************************)
(* For every topology, reserved set, set of claims and allocation results,*)
(* with or without serialised calls, CDI failures and restarts, the store *)
(* only ever records for a claim unreserved CPUs of the sockets or NUMA   *)
(* nodes its own results name: AllocateCPUs restricts the free pool to    *)
(* the coordinate the index gives for the device, and CreateSlices stores *)
(* in the index the coordinate the device's name was made from.           *)
(***************************************************************************)
THEOREM AllocationWithinClaimDevices == Spec => []AllocationWithinDevices
<1>1. WithinInv => AllocationWithinDevices
    BY DEF WithinInv, WithinDevices, AllocationWithinDevices
<1>2. Spec => []WithinInv
    BY InitWithinInv, NextWithinInv, PTL DEF Spec
<1>. QED
    BY <1>1, <1>2, PTL

=============================================================================
