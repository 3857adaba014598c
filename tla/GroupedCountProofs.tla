------------------------- MODULE GroupedCountProofs -------------------------
(***************************************************************************)
(* Proofs about the number of CPUs the grouped driver hands to a claim:   *)
(* the union AllocateCPUs builds has as many CPUs as the claim's results  *)
(* consumed, for every topology, reserved set and set of claims, as long  *)
(* as no claim names one device in two of its own results.                *)
(***************************************************************************)
EXTENDS GroupedDriverProofs, TLAPS

(* The laws of the sum RequestedCount is: the term of result i of claim c
   is its ConsumedCapacity count. *)
CountSum == INSTANCE SumFold WITH f <- LAMBDA c, i : Results[c][i].count

(***************************************************************************)
(* The allocation results of a claim that belong to this driver name      *)
(* distinct devices. The scheduler may give one claim the same shareable  *)
(* device for two requests; run duplicate_device shows that the count is  *)
(* then lost, so this is the case the theorem is about.                   *)
(***************************************************************************)
DistinctOwnDevices ==
    \A c \in Claims : \A i, j \in OwnResults(c) :
        i # j => Results[c][i].device # Results[c][j].device

(* What claim c's own results before result r consumed. *)
CountBefore(c, r) == CountSum!Sum(c, {i \in OwnResults(c) : i < r})

(* Every CPU of a came from an own result of c before result r. *)
AccBefore(c, a, r) ==
    \A cpu \in a :
        \E j \in OwnResults(c) :
            j < r /\ Results[c][j].device = DeviceName(CoordOf[cpu])

(* The counts a claim in AllocateCPUs, after it and in its CDI env var
   holds, given its pc, cpuAssignment a, loop index r, kubelet state k and
   env var d. *)
CountsOf(c, p, a, r, k, d) ==
    /\ p = "alloc" => AccBefore(c, a, r) /\ Cardinality(a) = CountBefore(c, r)
    /\ p = "cdi" => Cardinality(a) = RequestedCount(c)
    /\ k = "prepared" => Cardinality(d) = RequestedCount(c)

ClaimCount(c) == CountsOf(c, pc[c], acc[c], ri[c], kst[c], cdi[c])

CountInv == WithinInv /\ \A c \in Claims : ClaimCount(c)

-----------------------------------------------------------------------------
(* A claim has finitely many own results, and their counts are naturals. *)
LEMMA OwnResultsCounts ==
    ASSUME NEW c \in Claims
    PROVE  /\ IsFiniteSet(OwnResults(c))
           /\ \A i \in OwnResults(c) : Results[c][i].count \in Nat
<1>1. CASE Results[c] = NoAllocation
    BY <1>1, FS_EmptySet DEF OwnResults
<1>2. CASE Results[c] # NoAllocation
    <2>1. Results[c] \in Seq(Result)
        BY <1>2, GroupedAssumption
    <2>2. OwnResults(c) \subseteq 1..Len(Results[c])
        BY <1>2 DEF OwnResults
    <2>3. IsFiniteSet(OwnResults(c))
        BY <2>1, <2>2, FS_Interval, FS_Subset
    <2>4. \A i \in 1..Len(Results[c]) : Results[c][i] \in Result
        BY <2>1
    <2>. QED
        BY <2>2, <2>3, <2>4 DEF Result
<1>. QED
    BY <1>1, <1>2

(* RequestedCount is the sum whose laws CountSum states. *)
LEMMA RequestedIsSum ==
    ASSUME NEW c
    PROVE  RequestedCount(c) = CountSum!Sum(c, OwnResults(c))
BY DEF RequestedCount, CountSum!Sum, CountSum!MapThenSumSet, MapThenSumSet,
       CountSum!MapThenFoldSet, MapThenFoldSet

(* Before the first result, nothing has been consumed. *)
LEMMA CountBeforeFirst ==
    ASSUME NEW c \in Claims
    PROVE  CountBefore(c, 1) = 0
<1>1. {i \in OwnResults(c) : i < 1} = {}
    BY DEF OwnResults
<1>. QED
    BY <1>1, CountSum!SumEmpty DEF CountBefore

(* Moving past result r adds its count if it is one of the claim's own. *)
LEMMA CountBeforeNext ==
    ASSUME NEW c \in Claims, NEW r \in Nat
    PROVE  CountBefore(c, r + 1) =
              IF r \in OwnResults(c) THEN Results[c][r].count + CountBefore(c, r)
                                     ELSE CountBefore(c, r)
<1>. DEFINE B == {i \in OwnResults(c) : i < r}
<1>1. IsFiniteSet(B) /\ \A i \in OwnResults(c) : Results[c][i].count \in Nat
    BY OwnResultsCounts, FS_Subset
<1>2. CASE r \in OwnResults(c)
    <2>1. {i \in OwnResults(c) : i < r + 1} = B \cup {r}
        BY <1>2 DEF OwnResults
    <2>2. r \notin B /\ \A x \in B \cup {r} : Results[c][x].count \in Nat
        BY <1>1, <1>2
    <2>3. ASSUME NEW S, IsFiniteSet(S), r \notin S,
                 \A x \in S \cup {r} : Results[c][x].count \in Nat
          PROVE  CountSum!Sum(c, S \cup {r}) = Results[c][r].count + CountSum!Sum(c, S)
        BY <2>3, CountSum!SumAddElement DEF CountSum!IsFiniteSet, IsFiniteSet
    <2>4. CountSum!Sum(c, B \cup {r}) = Results[c][r].count + CountSum!Sum(c, B)
        BY <1>1, <2>2, <2>3
    <2>. QED
        BY <1>2, <2>1, <2>4 DEF CountBefore
<1>3. CASE r \notin OwnResults(c)
    <2>1. {i \in OwnResults(c) : i < r + 1} = B
        BY <1>3 DEF OwnResults
    <2>. QED
        BY <1>3, <2>1 DEF CountBefore
<1>. QED
    BY <1>2, <1>3

(* Past the last result, the claim's whole request has been consumed. *)
LEMMA CountBeforeAll ==
    ASSUME NEW c \in Claims, NEW r \in Nat,
           Results[c] # NoAllocation, r > Len(Results[c])
    PROVE  CountBefore(c, r) = RequestedCount(c)
<1>1. {i \in OwnResults(c) : i < r} = OwnResults(c)
    BY GroupedAssumption DEF OwnResults
<1>. QED
    BY <1>1, RequestedIsSum DEF CountBefore

(* The CPUs AllocTake takes lie in the device of the result it looks at. *)
LEMMA TakeInCurDevice ==
    ASSUME TypeInv, IndexNamesCoord, NEW c \in Claims, AllocTake(c),
           NEW cpu \in TakeByTopologyNUMAPacked(PoolOf(c), Cur(c).count)
    PROVE  DeviceName(CoordOf[cpu]) = Results[c][ri[c]].device
<1>. DEFINE d == Cur(c).device
<1>1. /\ InLoop(c) /\ d \in DOMAIN index
      /\ CanTake(PoolOf(c), Cur(c).count)
    BY DEF AllocTake
<1>2. CoordOf[cpu] = index[d]
    <2>1. cpu \in PoolOf(c)
        BY <1>1, TakeIsCPUs
    <2>. QED
        BY <2>1 DEF PoolOf, CPUsIn
<1>3. DeviceName(index[d]) = d
    BY <1>1 DEF IndexNamesCoord
<1>. QED
    BY <1>2, <1>3 DEF Cur

(* The CPUs AllocTake takes for a result are none of those cpuAssignment
   already holds: those lie in the devices of earlier results, and the
   claim names each of its devices once. *)
LEMMA TakeDisjoint ==
    ASSUME CountInv, DistinctOwnDevices, NEW c \in Claims, AllocTake(c)
    PROVE  TakeByTopologyNUMAPacked(PoolOf(c), Cur(c).count) \cap acc[c] = {}
<1>. DEFINE T == TakeByTopologyNUMAPacked(PoolOf(c), Cur(c).count)
<1>1. InLoop(c) /\ Cur(c).driver = DriverName
    BY DEF AllocTake
<1>2. TypeInv /\ IndexNamesCoord /\ AccBefore(c, acc[c], ri[c])
    BY <1>1 DEF CountInv, WithinInv, ClaimCount, CountsOf, InLoop
<1>3. ri[c] \in OwnResults(c)
    BY <1>1, <1>2 DEF InLoop, OwnResults, Cur, TypeInv, TypeOK
<1>4. SUFFICES ASSUME NEW cpu \in T, cpu \in acc[c] PROVE FALSE
    OBVIOUS
<1>5. DeviceName(CoordOf[cpu]) = Results[c][ri[c]].device
    BY <1>2, <1>4, TakeInCurDevice
<1>6. PICK j \in OwnResults(c) :
          j < ri[c] /\ Results[c][j].device = DeviceName(CoordOf[cpu])
    BY <1>2, <1>4 DEF AccBefore
<1>7. j # ri[c]
    <2>1. OwnResults(c) \subseteq Nat
        BY DEF OwnResults
    <2>. QED
        BY <1>3, <1>6, <2>1
<1>. QED
    BY <1>3, <1>5, <1>6, <1>7 DEF DistinctOwnDevices

(* A step that leaves a claim's prepare state alone keeps its counts. *)
LEMMA ClaimCountFrame ==
    ASSUME NEW c, ClaimCount(c),
           pc'[c] = pc[c], acc'[c] = acc[c], ri'[c] = ri[c],
           kst'[c] = kst[c], cdi'[c] = cdi[c]
    PROVE  ClaimCount(c)'
BY DEF ClaimCount

(* A restart ends every prepare; a claim is prepared after it only if it
   was before, and its CDI env var is unchanged. *)
LEMMA RestartCount ==
    ASSUME NEW c, ClaimCount(c), NEW k, ProcessRestart(k), c \in Claims,
           k[c] = "prepared" => kst[c] = "prepared"
    PROVE  ClaimCount(c)'
<1>1. pc'[c] = "idle" /\ cdi' = cdi /\ (kst'[c] = "prepared" => kst[c] = "prepared")
    BY DEF ProcessRestart
<1>. QED
    BY <1>1 DEF ClaimCount, CountsOf

(* Init satisfies the invariant: no prepare has started. *)
LEMMA InitCountInv == Init => CountInv
BY InitWithinInv DEF Init, CountInv, ClaimCount, CountsOf

(* Every step of the driver preserves the invariant, provided a claim
   names each device once among its own results. *)
LEMMA NextCountInv ==
    ASSUME DistinctOwnDevices
    PROVE  CountInv /\ [Next]_vars => CountInv'
<1> SUFFICES ASSUME CountInv, [Next]_vars PROVE CountInv'
    OBVIOUS
<1>1. WithinInv'
    BY NextWithinInv DEF CountInv
<1>2. TypeInv /\ \A c \in Claims : ClaimCount(c)
    BY DEF CountInv, WithinInv
<1>3. SUFFICES ASSUME NEW e \in Claims PROVE ClaimCount(e)'
    BY <1>1 DEF CountInv
<1>4. CASE UNCHANGED vars
    BY <1>2, <1>4, ClaimCountFrame DEF vars
<1>5. CASE CreateDevice \/ SkipCoordinate \/ StartComplete
    <2>1. UNCHANGED claimVars
        BY <1>5 DEF CreateDevice, SkipCoordinate, StartComplete
    <2>. QED
        BY <1>2, <2>1, ClaimCountFrame DEF claimVars
<1>6. CASE Crash
    BY <1>2, <1>6, RestartCount DEF Crash
<1>7. ASSUME NEW c \in Claims, UnpreparePanic(c) PROVE ClaimCount(e)'
    <2>1. [kst EXCEPT ![c] = "unprepareFailed"][e] = "prepared" => kst[e] = "prepared"
        BY <1>2 DEF TypeInv, TypeOK
    <2>. QED
        BY <1>2, <1>7, <2>1, RestartCount DEF UnpreparePanic
<1>8. ASSUME NEW c \in Claims, c # e,
             \/ PrepareNoAllocation(c) \/ PrepareStart(c) \/ Unprepare(c)
             \/ UnprepareFail(c) \/ AllocSkipForeign(c) \/ AllocLookupFail(c)
             \/ AllocTakeFail(c) \/ AllocTake(c) \/ AllocDone(c)
             \/ CDIAddDevice(c) \/ CDIAddDeviceFail(c)
      PROVE  ClaimCount(e)'
    <2>1. /\ pc'[e] = pc[e] /\ acc'[e] = acc[e] /\ ri'[e] = ri[e]
          /\ kst'[e] = kst[e] /\ cdi'[e] = cdi[e]
        BY <1>2, <1>8 DEF PrepareNoAllocation, PrepareStart, Unprepare,
           UnprepareFail, AllocSkipForeign, AllocLookupFail, AllocTakeFail,
           AllocTake, AllocDone, CDIAddDevice, CDIAddDeviceFail, Fail,
           TypeInv, TypeOK
    <2>. QED
        BY <1>2, <2>1, ClaimCountFrame
<1>9. CASE PrepareNoAllocation(e) \/ Unprepare(e) \/ UnprepareFail(e)
           \/ AllocLookupFail(e) \/ AllocTakeFail(e) \/ CDIAddDeviceFail(e)
    <2>1. /\ pc'[e] \in {pc[e], "idle"}
          /\ kst'[e] # "prepared"
        BY <1>2, <1>9 DEF PrepareNoAllocation, Unprepare, UnprepareFail,
           AllocLookupFail, AllocTakeFail, CDIAddDeviceFail, Fail, TypeInv, TypeOK
    <2>2. UNCHANGED <<acc, ri>>
        BY <1>9 DEF PrepareNoAllocation, Unprepare, UnprepareFail,
           AllocLookupFail, AllocTakeFail, CDIAddDeviceFail, Fail
    <2>. QED
        BY <1>2, <2>1, <2>2 DEF ClaimCount, CountsOf
<1>10. CASE PrepareStart(e)
    <2>1. /\ pc'[e] = "alloc" /\ acc'[e] = {} /\ ri'[e] = 1
          /\ kst'[e] = kst[e] /\ kst[e] # "prepared"
        BY <1>2, <1>10 DEF PrepareStart, TypeInv, TypeOK
    <2>2. CountBefore(e, 1) = 0
        BY CountBeforeFirst
    <2>. QED
        BY <2>1, <2>2, FS_EmptySet DEF ClaimCount, CountsOf, AccBefore
<1>11. CASE AllocSkipForeign(e)
    <2>1. /\ pc'[e] = "alloc" /\ acc'[e] = acc[e] /\ ri'[e] = ri[e] + 1
          /\ kst' = kst /\ cdi' = cdi /\ pc' = pc
          /\ ri[e] \in Nat /\ ri[e] \notin OwnResults(e)
        BY <1>2, <1>11 DEF AllocSkipForeign, InLoop, Cur, OwnResults, TypeInv, TypeOK
    <2>2. CountBefore(e, ri[e] + 1) = CountBefore(e, ri[e])
        BY <2>1, CountBeforeNext
    <2>3. AccBefore(e, acc[e], ri[e]) => AccBefore(e, acc[e], ri[e] + 1)
        BY <2>1 DEF AccBefore, OwnResults
    <2>. QED
        BY <1>2, <2>1, <2>2, <2>3 DEF ClaimCount, CountsOf
<1>12. CASE AllocDone(e)
    <2>1. /\ pc[e] = "alloc" /\ ri[e] > Len(Results[e]) /\ ri[e] \in Nat
          /\ Results[e] # NoAllocation
          /\ pc'[e] = "cdi" /\ acc' = acc /\ ri' = ri /\ kst' = kst /\ cdi' = cdi
        BY <1>2, <1>12 DEF AllocDone, TypeInv, TypeOK
    <2>2. Cardinality(acc[e]) = CountBefore(e, ri[e])
        BY <1>2, <2>1 DEF ClaimCount, CountsOf
    <2>3. CountBefore(e, ri[e]) = RequestedCount(e)
        BY <2>1, CountBeforeAll
    <2>. QED
        BY <1>2, <2>1, <2>2, <2>3 DEF ClaimCount, CountsOf
<1>13. CASE CDIAddDevice(e)
    <2>1. /\ pc[e] = "cdi" /\ pc'[e] = "idle"
          /\ cdi'[e] = acc[e] /\ kst'[e] = "prepared"
        BY <1>2, <1>13 DEF CDIAddDevice, TypeInv, TypeOK
    <2>2. Cardinality(acc[e]) = RequestedCount(e)
        BY <1>2, <2>1 DEF ClaimCount, CountsOf
    <2>. QED
        BY <2>1, <2>2 DEF ClaimCount, CountsOf
<1>14. CASE AllocTake(e)
    <2>. DEFINE T == TakeByTopologyNUMAPacked(PoolOf(e), Cur(e).count)
                n == Cur(e).count
    <2>1. /\ InLoop(e) /\ CanTake(PoolOf(e), n) /\ Cur(e).driver = DriverName
          /\ pc'[e] = "alloc" /\ acc'[e] = acc[e] \cup T /\ ri'[e] = ri[e] + 1
          /\ kst' = kst /\ cdi' = cdi
        BY <1>2, <1>14 DEF AllocTake, InLoop, TypeInv, TypeOK
    <2>2. ri[e] \in Nat /\ ri[e] \in OwnResults(e) /\ n \in Nat
        BY <1>2, <2>1, CurIsResult DEF InLoop, OwnResults, Cur, TypeInv, TypeOK
    <2>3. Cardinality(T) = n /\ IsFiniteSet(T)
        <3>1. T \subseteq PoolOf(e) /\ Cardinality(T) = n
            BY <2>1, <2>2, PoolIsFinite, TakeWithinPool
        <3>. QED
            BY <3>1, PoolIsFinite, FS_Subset
    <2>4. T \cap acc[e] = {}
        BY <1>14, TakeDisjoint
    <2>5. IsFiniteSet(acc[e])
        BY <1>2, TopologyAssumption, FS_Subset DEF TypeInv, TypeOK
    <2>6. Cardinality(acc[e] \cup T) = Cardinality(acc[e]) + n
        <3>1. Cardinality(acc[e] \cap T) = 0
            <4>1. acc[e] \cap T = {}
                BY <2>4
            <4>. QED
                BY <4>1, FS_EmptySet
        <3>2. Cardinality(acc[e] \cup T)
                = Cardinality(acc[e]) + Cardinality(T) - Cardinality(acc[e] \cap T)
            BY <2>3, <2>5, FS_Union
        <3>3. Cardinality(acc[e]) \in Nat
            BY <2>5, FS_CardinalityType
        <3>. QED
            BY <2>2, <2>3, <3>1, <3>2, <3>3
    <2>7. CountBefore(e, ri[e] + 1) = n + CountBefore(e, ri[e])
        BY <2>2, CountBeforeNext DEF Cur
    <2>8. Cardinality(acc[e]) = CountBefore(e, ri[e]) /\ AccBefore(e, acc[e], ri[e])
        BY <1>2, <2>1 DEF ClaimCount, CountsOf, InLoop
    <2>9. AccBefore(e, acc[e] \cup T, ri[e] + 1)
        <3>1. AccBefore(e, acc[e], ri[e] + 1)
            BY <2>2, <2>8 DEF AccBefore, OwnResults
        <3>2. ASSUME NEW cpu \in T
              PROVE  DeviceName(CoordOf[cpu]) = Results[e][ri[e]].device
            BY <1>2, <1>14, TakeInCurDevice DEF CountInv, WithinInv
        <3>3. AccBefore(e, T, ri[e] + 1)
            BY <2>2, <3>2 DEF AccBefore
        <3>. QED
            BY <3>1, <3>3 DEF AccBefore
    <2>10. Cardinality(acc'[e]) = CountBefore(e, ri'[e])
        <3>1. Cardinality(acc[e]) \in Nat
            BY <2>5, FS_CardinalityType
        <3>. QED
            BY <2>1, <2>2, <2>6, <2>7, <2>8, <3>1
    <2>11. kst'[e] = "prepared" => Cardinality(cdi'[e]) = RequestedCount(e)
        BY <1>2, <2>1 DEF ClaimCount, CountsOf
    <2>. QED
        BY <2>1, <2>9, <2>10, <2>11 DEF ClaimCount, CountsOf
<1>. QED
    BY <1>4, <1>5, <1>6, <1>7, <1>8, <1>9, <1>10, <1>11, <1>12, <1>13, <1>14
    DEF Next, Publish, Kubelet, Prepare


(***************************************************************************)
(* For every topology, set of claims and allocation results in which a    *)
(* claim names each of its devices once, with or without serialised      *)
(* calls, CDI failures and restarts, a prepared claim's containers get    *)
(* exactly as many CPUs as its own results consumed: the sets AllocateCPUs *)
(* takes per result are disjoint, because each lies in its own device's   *)
(* coordinate, so cpuAssignment.Union loses nothing.                      *)
(***************************************************************************)
THEOREM ResolvedCountMatches ==
    DistinctOwnDevices => (Spec => []ResolvedCountMatchesRequest)
<1>1. CountInv => ResolvedCountMatchesRequest
    BY DEF CountInv, ClaimCount, CountsOf, ResolvedCountMatchesRequest
<1>2. DistinctOwnDevices => (Spec => []CountInv)
    <2>. SUFFICES ASSUME DistinctOwnDevices PROVE Spec => []CountInv
        OBVIOUS
    <2>1. CountInv /\ [Next]_vars => CountInv'
        BY NextCountInv
    <2>. QED
        BY InitCountInv, <2>1, PTL DEF Spec
<1>. QED
    BY <1>1, <1>2, PTL

=============================================================================
