------------------------ MODULE GroupedCapacityProofs ------------------------
(***************************************************************************)
(* Proof that, without CDI failures, a prepare fails for lack of CPUs     *)
(* only on a device the claims together overcommit (CapacityHonoured).    *)
(* The CPUs the store holds in a coordinate are bounded by the counts of  *)
(* the (claim, result) pairs on that coordinate's device whose claims are *)
(* not inside AllocateCPUs; the pool a prepare reads is what is left.     *)
(* The bounds are operators of values, so that a step's effect on them is *)
(* a substitution of arguments.                                           *)
(***************************************************************************)
EXTENDS GroupedDriverProofs, TLAPS

PairSum == INSTANCE SumFold WITH f <- LAMBDA c, p : Results[p[1]][p[2]].count

(* The sum of the counts of a set of (claim, result) pairs. *)
PSum(X) == PairSum!Sum(0, X)

(* The (claim, result) pairs Demand(n) sums. *)
DemandPairs(n) ==
    {p \in Claims \X (1..MaxResults) :
        p[2] \in OwnResults(p[1]) /\ Results[p[1]][p[2]].device = n}

(* The pairs of the claims of D that are not inside AllocateCPUs (by the
   pc function p): the only claims whose CPUs the store may hold. *)
StorePairs(D, n, p) == {q \in DemandPairs(n) : q[1] \in D /\ p[q[1]] # "alloc"}

(* The pairs of claim c that AllocateCPUs has gone past at loop index r. *)
AccPairs(c, n, r) == {q \in DemandPairs(n) : q[1] = c /\ q[2] < r}

(* The CPUs the store al holds for the claims of D in coordinate k. *)
HeldIn(D, k, al) == (UNION {al[d] : d \in D}) \cap CPUsIn(CoordOf, k)

(* The store holds CPUs for a claim only after its AllocateCPUs. *)
StoreOwner(c, al, p, k) == al[c] # {} => p[c] = "cdi" \/ (p[c] = "idle" /\ k[c] = "prepared")

(* cpuAssignment a of claim c, at loop index r, holds in coordinate k no
   more CPUs than the results it has gone past on k's device consumed. *)
AccBound(c, k, p, a, r) ==
    p # "idle" =>
        Cardinality(a \cap CPUsIn(CoordOf, k)) <= PSum(AccPairs(c, DeviceName(k), r))

(* The store al holds for D in coordinate k no more CPUs than the results
   of D's claims outside AllocateCPUs consumed on k's device. *)
HeldBound(D, k, al, p) ==
    Cardinality(HeldIn(D, k, al)) <= PSum(StorePairs(D, DeviceName(k), p))

(* The counts, for the coordinates of Ks. *)
CapInvOn(Ks) ==
    /\ WithinInv
    /\ \A c \in Claims : StoreOwner(c, alloc, pc, kst)
    /\ \A c \in Claims : \A k \in Ks : AccBound(c, k, pc[c], acc[c], ri[c])
    /\ \A D \in SUBSET Claims : \A k \in Ks : HeldBound(D, k, alloc, pc)

CapInv == CapInvOn(Nat)

(* CreateSlices fills the index only once Start has run. *)
IndexStarted == DOMAIN index # {} => started

(* A capacity error e of claim c, at loop index r, with started s, comes
   from a device its claims overcommit, and from a process that has run
   Start (the lookup of the device succeeded). *)
ErrCap(c, e, r, s) ==
    e = "capacity" =>
        s /\ Demand(Results[c][r].device) > Capacity(Results[c][r].device)

(* The error invariant: a prepare in progress has no error yet. *)
ErrInv ==
    /\ IndexStarted
    /\ \A c \in Claims : pc[c] # "idle" => err[c] = "ok"
    /\ \A c \in Claims : ErrCap(c, err[c], ri[c], started)

HonourInv == CapInv /\ ErrInv

-----------------------------------------------------------------------------
(* A finite non-empty set of naturals has a greatest element. *)
LEMMA MaxIsGreatest ==
    ASSUME NEW S \in SUBSET Nat, IsFiniteSet(S), S # {}
    PROVE  Max(S) \in S /\ \A y \in S : y <= Max(S)
<1>1. SUFFICES \E x \in S : \A y \in S : x >= y
    BY DEF Max
<1> DEFINE Bad == {n \in Nat : \E T \in SUBSET S :
                      /\ T # {} /\ Cardinality(T) = n
                      /\ ~\E x \in T : \A y \in T : x >= y}
<1>2. SUFFICES Bad = {}
    <2>1. Cardinality(S) \in Nat
        BY FS_CardinalityType
    <2>2. S \in SUBSET S
        OBVIOUS
    <2>. QED
        BY <1>2, <2>1, <2>2
<1>3. SUFFICES ASSUME Bad # {} PROVE FALSE
    OBVIOUS
<1>4. PICK m \in Bad : \A k \in Bad : m <= k
    BY <1>3, PairSum!NatLeast
<1>5. PICK T \in SUBSET S :
          /\ T # {} /\ Cardinality(T) = m
          /\ ~\E x \in T : \A y \in T : x >= y
    BY <1>4
<1>6. m \in Nat /\ IsFiniteSet(T)
    BY <1>4, FS_Subset
<1>. HIDE DEF Bad
<1>7. PICK x \in T : TRUE
    BY <1>5
<1>8. CASE T \ {x} = {}
    BY <1>5, <1>8
<1>9. CASE T \ {x} # {}
    <2>1. Cardinality(T \ {x}) = m - 1 /\ m - 1 \in Nat
        <3>1. Cardinality(T \ {x}) = Cardinality(T) - 1
            BY <1>6, FS_RemoveElement
        <3>2. Cardinality(T) # 0
            BY <1>5, <1>6, FS_EmptySet
        <3>. QED
            BY <1>5, <1>6, <3>1, <3>2
    <2>2. m - 1 \notin Bad
        BY <1>4, <1>6
    <2>3. PICK w \in T \ {x} : \A y \in T \ {x} : w >= y
        BY <1>9, <2>1, <2>2 DEF Bad
    <2>. QED
        BY <1>5, <2>3
<1>. QED
    BY <1>8, <1>9


(* With finitely many claims, MaxResults bounds every result list. *)
LEMMA ResultsBound ==
    ASSUME IsFiniteSet(Claims)
    PROVE  /\ MaxResults \in Nat
           /\ \A c \in Claims : Results[c] # NoAllocation => Len(Results[c]) <= MaxResults
<1>. DEFINE A == {d \in Claims : Results[d] # NoAllocation}
            lens == {Len(Results[c]) : c \in A}
<1>1. lens \subseteq Nat
    BY GroupedAssumption
<1>2. IsFiniteSet(lens)
    <2>. DEFINE g == [c \in A |-> Len(Results[c])]
    <2>1. g \in Surjection(A, lens)
        BY DEF Surjection
    <2>2. IsFiniteSet(A)
        BY FS_Subset
    <2>. QED
        BY <2>1, <2>2, FS_Surjection
<1>3. CASE lens = {}
    BY <1>3 DEF MaxResults
<1>4. CASE lens # {}
    <2>1. Max(lens) \in lens /\ \A y \in lens : y <= Max(lens)
        BY <1>1, <1>2, <1>4, MaxIsGreatest
    <2>. QED
        BY <1>1, <1>4, <2>1 DEF MaxResults
<1>. QED
    BY <1>3, <1>4

(* The pairs of a device are finitely many, and their counts are naturals. *)
LEMMA DemandPairsFacts ==
    ASSUME IsFiniteSet(Claims), NEW n
    PROVE  /\ IsFiniteSet(DemandPairs(n))
           /\ \A q \in DemandPairs(n) : Results[q[1]][q[2]].count \in Nat
<1>1. IsFiniteSet(Claims \X (1..MaxResults))
    <2>1. MaxResults \in Nat
        BY ResultsBound
    <2>2. IsFiniteSet(1..MaxResults)
        BY <2>1, FS_Interval
    <2>. QED
        BY <2>2, FS_Product
<1>2. IsFiniteSet(DemandPairs(n))
    <2>1. DemandPairs(n) \subseteq Claims \X (1..MaxResults)
        BY DEF DemandPairs
    <2>. QED
        BY <1>1, <2>1, FS_Subset
<1>3. ASSUME NEW q \in DemandPairs(n) PROVE Results[q[1]][q[2]].count \in Nat
    <2>1. q[1] \in Claims /\ q[2] \in OwnResults(q[1])
        BY DEF DemandPairs
    <2>2. Results[q[1]] # NoAllocation /\ q[2] \in 1..Len(Results[q[1]])
        BY <2>1 DEF OwnResults
    <2>3. Results[q[1]] \in Seq(Result)
        BY <2>1, <2>2, GroupedAssumption
    <2>4. Results[q[1]][q[2]] \in Result
        BY <2>2, <2>3
    <2>. QED
        BY <2>4 DEF Result
<1>. QED
    BY <1>2, <1>3

(* The demand on device n is the sum of its pairs. *)
LEMMA DemandIsSum ==
    ASSUME NEW n
    PROVE  Demand(n) = PSum(DemandPairs(n))
BY DEF Demand, PSum, DemandPairs, PairSum!Sum, PairSum!MapThenSumSet, MapThenSumSet,
       PairSum!MapThenFoldSet, MapThenFoldSet


(* The fold laws of SumFold, for the counts of pairs. *)
PairTerms(T) == \A q \in T : Results[q[1]][q[2]].count \in Nat

(* Every set of demand pairs is finite and has natural terms. *)
LEMMA SubPairs ==
    ASSUME IsFiniteSet(Claims), NEW n, NEW S \in SUBSET DemandPairs(n)
    PROVE  IsFiniteSet(S) /\ PairTerms(S)
BY DemandPairsFacts, FS_Subset DEF PairTerms

(* The empty sum is 0. *)
LEMMA PSumEmpty == PSum({}) = 0
BY PairSum!SumEmpty DEF PSum

(* A finite sum of naturals is a natural. *)
LEMMA PSumType ==
    ASSUME NEW T, IsFiniteSet(T), PairTerms(T)
    PROVE  PSum(T) \in Nat
BY PairSum!SumType DEF PSum, PairTerms, PairSum!IsFiniteSet, IsFiniteSet

(* The sum over a subset is at most the sum over the set. *)
LEMMA PSumMono ==
    ASSUME NEW S, NEW T, IsFiniteSet(T), S \subseteq T, PairTerms(T)
    PROVE  PSum(S) <= PSum(T)
BY PairSum!SumMono DEF PSum, PairTerms, PairSum!IsFiniteSet, IsFiniteSet

(* The sum over a disjoint union is the sum of the sums. *)
LEMMA PSumUnion ==
    ASSUME NEW S, NEW T, IsFiniteSet(S), IsFiniteSet(T), S \cap T = {},
           PairTerms(S \cup T)
    PROVE  PSum(S \cup T) = PSum(S) + PSum(T)
BY PairSum!SumUnion DEF PSum, PairTerms, PairSum!IsFiniteSet, IsFiniteSet

(* Adding a new pair adds its count. *)
LEMMA PSumAddElement ==
    ASSUME NEW S, IsFiniteSet(S), NEW y, y \notin S, PairTerms(S \cup {y})
    PROVE  PSum(S \cup {y}) = Results[y[1]][y[2]].count + PSum(S)
BY PairSum!SumAddElement DEF PSum, PairTerms, PairSum!IsFiniteSet, IsFiniteSet

(* Removing a pair removes its count. *)
LEMMA PSumRemove ==
    ASSUME NEW S, IsFiniteSet(S), PairTerms(S), NEW y \in S
    PROVE  PSum(S) = Results[y[1]][y[2]].count + PSum(S \ {y})
BY PairSum!SumRemove, ZenonT(60) DEF PSum, PairTerms, PairSum!IsFiniteSet, IsFiniteSet


-----------------------------------------------------------------------------
(* The bound on the store, one kind of step at a time. *)

(* What the store holds in a coordinate is finite. *)
LEMMA HeldFinite ==
    ASSUME NEW D, NEW k, NEW al \in [Claims -> SUBSET CPUs], D \subseteq Claims
    PROVE  IsFiniteSet(HeldIn(D, k, al))
<1>1. HeldIn(D, k, al) \subseteq CPUs
    BY DEF HeldIn, CPUsIn
<1>. QED
    BY <1>1, TopologyAssumption, FS_Subset

(* A step that shrinks the store entries of D and lets no claim of D enter
   AllocateCPUs keeps the bound. *)
LEMMA HeldMono ==
    ASSUME IsFiniteSet(Claims), NEW D \in SUBSET Claims, NEW k,
           NEW al \in [Claims -> SUBSET CPUs], NEW al2, NEW p, NEW p2,
           HeldBound(D, k, al, p),
           \A d \in D : al2[d] \subseteq al[d],
           \A d \in D : p[d] # "alloc" => p2[d] # "alloc"
    PROVE  HeldBound(D, k, al2, p2)
<1>. DEFINE n == DeviceName(k)
<1>1. HeldIn(D, k, al2) \subseteq HeldIn(D, k, al)
    <2>1. SUFFICES ASSUME NEW x \in HeldIn(D, k, al2) PROVE x \in HeldIn(D, k, al)
        OBVIOUS
    <2>2. PICK d \in D : x \in al2[d] /\ x \in CPUsIn(CoordOf, k)
        BY DEF HeldIn
    <2>. QED
        BY <2>2 DEF HeldIn
<1>2. /\ Cardinality(HeldIn(D, k, al2)) <= Cardinality(HeldIn(D, k, al))
      /\ Cardinality(HeldIn(D, k, al)) \in Nat
      /\ Cardinality(HeldIn(D, k, al2)) \in Nat
    BY <1>1, HeldFinite, FS_Subset, FS_CardinalityType
<1>3. StorePairs(D, n, p) \subseteq StorePairs(D, n, p2)
    BY DEF StorePairs
<1>4. /\ PSum(StorePairs(D, n, p)) <= PSum(StorePairs(D, n, p2))
      /\ PSum(StorePairs(D, n, p)) \in Nat
      /\ PSum(StorePairs(D, n, p2)) \in Nat
    <2>1. StorePairs(D, n, p) \subseteq DemandPairs(n)
          /\ StorePairs(D, n, p2) \subseteq DemandPairs(n)
        BY DEF StorePairs
    <2>2. /\ IsFiniteSet(StorePairs(D, n, p)) /\ PairTerms(StorePairs(D, n, p))
          /\ IsFiniteSet(StorePairs(D, n, p2)) /\ PairTerms(StorePairs(D, n, p2))
        BY <2>1, SubPairs
    <2>. QED
        BY <1>3, <2>2, PSumMono, PSumType
<1>. QED
    BY <1>2, <1>4 DEF HeldBound

(* PrepareStart: the claim entering AllocateCPUs has an empty entry. *)
LEMMA HeldPrepareStart ==
    ASSUME NEW D, NEW k, NEW al, NEW p \in [Claims -> {"idle", "alloc", "cdi"}],
           NEW c \in Claims, al[c] = {},
           HeldBound(D \ {c}, k, al, p)
    PROVE  HeldBound(D, k, al, [p EXCEPT ![c] = "alloc"])
<1>1. HeldIn(D, k, al) = HeldIn(D \ {c}, k, al)
    BY DEF HeldIn
<1>2. StorePairs(D, DeviceName(k), [p EXCEPT ![c] = "alloc"])
        = StorePairs(D \ {c}, DeviceName(k), p)
    BY DEF StorePairs, DemandPairs
<1>. QED
    BY <1>1, <1>2 DEF HeldBound

(* AllocDone: the store takes cpuAssignment a of claim c, which holds in
   coordinate k no more CPUs than c's pairs on k's device consumed. *)
LEMMA HeldAllocDone ==
    ASSUME IsFiniteSet(Claims), NEW D \in SUBSET Claims, NEW k,
           NEW al \in [Claims -> SUBSET CPUs], NEW p \in [Claims -> {"idle", "alloc", "cdi"}],
           NEW c \in Claims, NEW a \in SUBSET CPUs,
           HeldBound(D \ {c}, k, al, p),
           Cardinality(a \cap CPUsIn(CoordOf, k))
               <= PSum({q \in DemandPairs(DeviceName(k)) : q[1] = c})
    PROVE  HeldBound(D, k, [al EXCEPT ![c] = a], [p EXCEPT ![c] = "cdi"])
<1>. DEFINE n == DeviceName(k)
            al2 == [al EXCEPT ![c] = a]
            p2 == [p EXCEPT ![c] = "cdi"]
            X == HeldIn(D \ {c}, k, al)
            Y == a \cap CPUsIn(CoordOf, k)
            CP == {q \in DemandPairs(n) : q[1] = c}
            SP == StorePairs(D \ {c}, n, p)
<1>1. CASE c \notin D
    <2>1. HeldIn(D, k, al2) = HeldIn(D \ {c}, k, al)
        BY <1>1 DEF HeldIn
    <2>2. StorePairs(D, n, p2) = SP
        BY <1>1 DEF StorePairs, DemandPairs
    <2>. QED
        BY <2>1, <2>2 DEF HeldBound
<1>2. CASE c \in D
    <2>1. HeldIn(D, k, al2) = X \cup Y
        <3>1. ASSUME NEW x \in HeldIn(D, k, al2) PROVE x \in X \cup Y
            <4>1. PICK d \in D : x \in al2[d] /\ x \in CPUsIn(CoordOf, k)
                BY <3>1 DEF HeldIn
            <4>. QED
                BY <4>1 DEF HeldIn
        <3>2. ASSUME NEW x \in X \cup Y PROVE x \in HeldIn(D, k, al2)
            <4>1. CASE x \in Y
                BY <1>2, <4>1 DEF HeldIn
            <4>2. CASE x \in X
                <5>1. PICK d \in D \ {c} : x \in al[d] /\ x \in CPUsIn(CoordOf, k)
                    BY <4>2 DEF HeldIn
                <5>. QED
                    BY <5>1 DEF HeldIn
            <4>. QED
                BY <3>2, <4>1, <4>2
        <3>. QED
            BY <3>1, <3>2
    <2>2. Cardinality(HeldIn(D, k, al2)) <= Cardinality(X) + Cardinality(Y)
          /\ Cardinality(X) \in Nat /\ Cardinality(Y) \in Nat
          /\ Cardinality(HeldIn(D, k, al2)) \in Nat
        <3>1. IsFiniteSet(X) /\ IsFiniteSet(Y)
            BY HeldFinite, TopologyAssumption, FS_Subset
        <3>2. Cardinality(X \cup Y)
                = Cardinality(X) + Cardinality(Y) - Cardinality(X \cap Y)
            BY <3>1, FS_Union
        <3>3. Cardinality(X \cap Y) \in Nat /\ Cardinality(X) \in Nat
              /\ Cardinality(Y) \in Nat
            BY <3>1, FS_Subset, FS_CardinalityType
        <3>4. Cardinality(X \cup Y) <= Cardinality(X) + Cardinality(Y)
            BY <3>2, <3>3
        <3>5. Cardinality(X \cup Y) \in Nat
            BY <3>1, FS_Union, FS_CardinalityType
        <3>. QED
            BY <2>1, <3>3, <3>4, <3>5
    <2>3. StorePairs(D, n, p2) = SP \cup CP
        BY <1>2 DEF StorePairs, DemandPairs
    <2>4. PSum(SP \cup CP) = PSum(SP) + PSum(CP)
          /\ PSum(SP) \in Nat /\ PSum(CP) \in Nat
        <3>1. SP \subseteq DemandPairs(n) /\ CP \subseteq DemandPairs(n)
            BY DEF StorePairs
        <3>2. IsFiniteSet(SP) /\ IsFiniteSet(CP) /\ PairTerms(SP \cup CP)
              /\ PairTerms(SP) /\ PairTerms(CP)
            BY <3>1, SubPairs
        <3>3. SP \cap CP = {}
            BY DEF StorePairs
        <3>. QED
            BY <3>2, <3>3, PSumUnion, PSumType
    <2>5. Cardinality(X) <= PSum(SP) /\ Cardinality(Y) <= PSum(CP)
        BY DEF HeldBound
    <2>. HIDE DEF X, Y, SP, CP, al2
    <2>6. Cardinality(HeldIn(D, k, al2)) <= PSum(SP \cup CP)
        BY <2>2, <2>4, <2>5
    <2>. QED
        BY <2>3, <2>6 DEF HeldBound, al2
<1>. QED
    BY <1>1, <1>2


-----------------------------------------------------------------------------
(* The bound on cpuAssignment, one kind of step at a time. *)

(* An empty cpuAssignment (PrepareStart) meets the bound. *)
LEMMA AccEmpty ==
    ASSUME IsFiniteSet(Claims), NEW c, NEW k, NEW p, NEW r
    PROVE  AccBound(c, k, p, {}, r)
<1>1. AccPairs(c, DeviceName(k), r) \subseteq DemandPairs(DeviceName(k))
    BY DEF AccPairs
<1>2. PSum(AccPairs(c, DeviceName(k), r)) \in Nat
    BY <1>1, SubPairs, PSumType
<1>. QED
    BY <1>2, FS_EmptySet DEF AccBound

(* Passing a result that is not one of the claim's own (AllocSkipForeign)
   leaves the pairs gone past unchanged. *)
LEMMA AccSkip ==
    ASSUME NEW c, NEW n, NEW r \in Nat, r \notin OwnResults(c)
    PROVE  AccPairs(c, n, r + 1) = AccPairs(c, n, r)
BY DEF AccPairs, DemandPairs

(* Once past the last result, the pairs gone past are all the claim's. *)
LEMMA AccAll ==
    ASSUME NEW c \in Claims, NEW n, NEW r \in Nat, Results[c] # NoAllocation,
           r > Len(Results[c])
    PROVE  AccPairs(c, n, r) = {q \in DemandPairs(n) : q[1] = c}
BY GroupedAssumption DEF AccPairs, DemandPairs, OwnResults

(* Device names are injective in the coordinate. *)
LEMMA DeviceNameInjective ==
    ASSUME NEW j, NEW k, DeviceName(j) = DeviceName(k)
    PROVE  j = k
BY DEF DeviceName

(* AllocTake: adding the CPUs T taken in coordinate j for own result r of
   claim c keeps the bound in every coordinate k. *)
LEMMA AccTake ==
    ASSUME IsFiniteSet(Claims), NEW c \in Claims, NEW k, NEW j,
           NEW r \in 1..MaxResults, r \in OwnResults(c),
           DeviceName(j) = Results[c][r].device,
           NEW a \in SUBSET CPUs, NEW T \in SUBSET CPUsIn(CoordOf, j),
           Cardinality(T) = Results[c][r].count,
           AccBound(c, k, "alloc", a, r)
    PROVE  AccBound(c, k, "alloc", a \cup T, r + 1)
<1>. DEFINE n == DeviceName(k)
            Ck == CPUsIn(CoordOf, k)
            A0 == AccPairs(c, n, r)
<1>1. IsFiniteSet(a) /\ IsFiniteSet(T) /\ IsFiniteSet(a \cap Ck)
      /\ Cardinality(a \cap Ck) \in Nat /\ Cardinality(T) \in Nat
    <2>1. T \subseteq CPUs
        BY DEF CPUsIn
    <2>. QED
        BY <2>1, TopologyAssumption, FS_Subset, FS_CardinalityType
<1>2. IsFiniteSet(A0) /\ PairTerms(A0) /\ PSum(A0) \in Nat
    <2>1. A0 \subseteq DemandPairs(n)
        BY DEF AccPairs
    <2>. QED
        BY <2>1, SubPairs, PSumType
<1>3. Cardinality(a \cap Ck) <= PSum(A0)
    BY DEF AccBound
<1>4. CASE j = k
    <2>1. (a \cup T) \cap Ck = (a \cap Ck) \cup T
        BY <1>4 DEF CPUsIn
    <2>2. Cardinality((a \cap Ck) \cup T) <= Cardinality(a \cap Ck) + Cardinality(T)
        <3>1. Cardinality((a \cap Ck) \cup T)
                = Cardinality(a \cap Ck) + Cardinality(T) - Cardinality((a \cap Ck) \cap T)
            BY <1>1, FS_Union
        <3>2. Cardinality((a \cap Ck) \cap T) \in Nat
            BY <1>1, FS_Subset, FS_CardinalityType
        <3>. QED
            BY <1>1, <3>1, <3>2
    <2>3. AccPairs(c, n, r + 1) = A0 \cup {<<c, r>>} /\ <<c, r>> \notin A0
        BY <1>4 DEF AccPairs, DemandPairs
    <2>4. PSum(A0 \cup {<<c, r>>}) = Results[c][r].count + PSum(A0)
        <3>1. <<c, r>> \in DemandPairs(n)
            BY <1>4 DEF DemandPairs
        <3>2. PairTerms(A0 \cup {<<c, r>>})
            BY <1>2, <3>1, DemandPairsFacts DEF PairTerms
        <3>. QED
            BY <1>2, <2>3, <3>2, PSumAddElement
    <2>5. Cardinality((a \cap Ck) \cup T) \in Nat
        BY <1>1, FS_Union, FS_CardinalityType
    <2>6. Cardinality((a \cup T) \cap Ck) <= PSum(AccPairs(c, n, r + 1))
        <3>1. Cardinality((a \cup T) \cap Ck) = Cardinality((a \cap Ck) \cup T)
            BY <2>1
        <3>2. PSum(AccPairs(c, n, r + 1)) = Results[c][r].count + PSum(A0)
            BY <2>3, <2>4
        <3>. HIDE DEF Ck, A0, n
        <3>. QED
            BY <1>1, <1>2, <1>3, <2>2, <2>5, <3>1, <3>2
    <2>. QED
        BY <2>6 DEF AccBound
<1>5. CASE j # k
    <2>1. (a \cup T) \cap Ck = a \cap Ck
        BY <1>5 DEF CPUsIn
    <2>2. Results[c][r].device # n
        BY <1>5, DeviceNameInjective
    <2>3. AccPairs(c, n, r + 1) = A0
        BY <2>2 DEF AccPairs, DemandPairs
    <2>. QED
        BY <1>3, <2>1, <2>3 DEF AccBound
<1>. QED
    BY <1>4, <1>5


(* The pool AllocateCPUs reads for a device is the device's unreserved CPUs
   less those the store holds in its coordinate. *)
LEMMA PoolIsAllocatableLessHeld ==
    ASSUME NEW c, NEW k, k = index[Cur(c).device]
    PROVE  PoolOf(c) = AllocatableIn(k) \ HeldIn(Claims, k, alloc)
BY DEF PoolOf, SharedCPUs, Allocatable, AllocatableIn, HeldIn, CPUsIn

(* The key step: while the claims' demand on a device stays within its
   capacity, the pool a prepare reads for one of its results is large
   enough for that result's count. *)
LEMMA PoolLargeEnough ==
    ASSUME IsFiniteSet(Claims), CapInv, NEW c \in Claims, InLoop(c),
           Cur(c).driver = DriverName, Cur(c).device \in DOMAIN index,
           Demand(Cur(c).device) <= Capacity(Cur(c).device)
    PROVE  CanTake(PoolOf(c), Cur(c).count)
<1>. DEFINE dv == Cur(c).device
            k == index[dv]
            y == <<c, ri[c]>>
            A == AllocatableIn(k)
            H == HeldIn(Claims, k, alloc)
            DP == DemandPairs(dv)
<1>1. TypeInv /\ IndexNamesCoord
    BY DEF CapInv, CapInvOn, WithinInv
<1>2. DeviceName(k) = dv /\ k \in Nat
    BY <1>1, GroupedAssumption DEF IndexNamesCoord, TypeInv, TypeOK, Coords
<1>3. Capacity(dv) = Cardinality(A)
    BY <1>2 DEF Capacity, DeviceName
<1>4. IsFiniteSet(A) /\ IsFiniteSet(H) /\ Cardinality(A) \in Nat
      /\ Cardinality(H) \in Nat /\ Cardinality(A \cap H) \in Nat
      /\ Cardinality(A \cap H) <= Cardinality(H)
    <2>1. A \subseteq CPUs /\ H \subseteq CPUs
        BY DEF AllocatableIn, HeldIn, CPUsIn
    <2>. QED
        BY <2>1, TopologyAssumption, FS_Subset, FS_CardinalityType
<1>5. Cardinality(PoolOf(c)) = Cardinality(A) - Cardinality(A \cap H)
    BY <1>4, PoolIsAllocatableLessHeld, FS_Difference
<1>6. Cardinality(H) <= PSum(StorePairs(Claims, dv, pc))
    <2>1. HeldBound(Claims, k, alloc, pc)
        BY <1>2 DEF CapInv, CapInvOn
    <2>. QED
        BY <1>2, <2>1 DEF HeldBound
<1>7. y \in DP /\ Cur(c).count \in Nat
    <2>1. MaxResults \in Nat /\ Len(Results[c]) <= MaxResults
        BY <1>1, ResultsBound DEF TypeInv, InLoop
    <2>2. ri[c] \in 1..MaxResults
        BY <1>1, <2>1 DEF TypeInv, TypeOK, InLoop
    <2>3. ri[c] \in OwnResults(c)
        BY <1>1 DEF TypeInv, TypeOK, InLoop, OwnResults, Cur
    <2>. QED
        BY <2>2, <2>3, CurIsResult DEF DemandPairs, Cur, CapInv, CapInvOn, WithinInv
<1>8. StorePairs(Claims, dv, pc) \subseteq DP \ {y}
    BY DEF StorePairs, InLoop
<1>9. IsFiniteSet(DP) /\ PairTerms(DP) /\ IsFiniteSet(DP \ {y}) /\ PairTerms(DP \ {y})
      /\ PSum(DP \ {y}) \in Nat
    <2>1. IsFiniteSet(DP) /\ PairTerms(DP)
        BY SubPairs
    <2>2. IsFiniteSet(DP \ {y}) /\ PairTerms(DP \ {y})
        BY SubPairs
    <2>. QED
        BY <2>1, <2>2, PSumType
<1>10. PSum(StorePairs(Claims, dv, pc)) <= PSum(DP \ {y})
    BY <1>8, <1>9, PSumMono
<1>11. Demand(dv) = Cur(c).count + PSum(DP \ {y})
    BY <1>7, <1>9, DemandIsSum, PSumRemove DEF Cur
<1>12. PSum(StorePairs(Claims, dv, pc)) \in Nat
    BY <1>8, <1>9, SubPairs, PSumType
<1>13. Demand(dv) <= Capacity(dv)
    OBVIOUS
<1>. HIDE DEF dv, k, y, A, H, DP
<1>. QED
    BY <1>13, <1>3, <1>4, <1>5, <1>6, <1>7, <1>9, <1>10, <1>11, <1>12 DEF CanTake


-----------------------------------------------------------------------------
(***************************************************************************)
(* The invariant CapInv is inductive when CDI calls cannot fail.          *)
(***************************************************************************)

(* A store with no entries for D holds nothing for D. *)
LEMMA HeldEmpty ==
    ASSUME IsFiniteSet(Claims), NEW D \in SUBSET Claims, NEW k, NEW al, NEW p,
           \A d \in D : al[d] = {}
    PROVE  HeldBound(D, k, al, p)
<1>1. HeldIn(D, k, al) = {}
    BY DEF HeldIn
<1>2. PSum(StorePairs(D, DeviceName(k), p)) \in Nat
    <2>1. StorePairs(D, DeviceName(k), p) \subseteq DemandPairs(DeviceName(k))
        BY DEF StorePairs
    <2>. QED
        BY <2>1, SubPairs, PSumType
<1>. QED
    BY <1>1, <1>2, FS_EmptySet DEF HeldBound

(* After a restart the store is empty and no claim is inside a prepare. *)
LEMMA RestartCapInv ==
    ASSUME IsFiniteSet(Claims), WithinInv', NEW kk, ProcessRestart(kk)
    PROVE  CapInv'
<1>1. \A c \in Claims : alloc'[c] = {} /\ pc'[c] = "idle"
    BY DEF ProcessRestart
<1>2. \A D \in SUBSET Claims : \A k \in Nat : HeldBound(D, k, alloc', pc')
    BY <1>1, HeldEmpty
<1>. QED
    BY <1>1, <1>2 DEF CapInv, CapInvOn, StoreOwner, AccBound

(* Init satisfies CapInv. *)
LEMMA InitCapInv ==
    ASSUME IsFiniteSet(Claims), Init
    PROVE  CapInv
<1>1. \A c \in Claims : alloc[c] = {} /\ pc[c] = "idle"
    BY DEF Init
<1>2. \A D \in SUBSET Claims : \A k \in Nat : HeldBound(D, k, alloc, pc)
    BY <1>1, HeldEmpty
<1>. QED
    BY <1>1, <1>2, InitWithinInv DEF CapInv, CapInvOn, StoreOwner, AccBound


(* A step that leaves the store, the prepares' progress and kubelet's view
   alone keeps CapInv. *)
LEMMA CapFrame ==
    ASSUME CapInv, WithinInv', UNCHANGED <<alloc, kst, pc, ri, acc>>
    PROVE  CapInv'
BY DEF CapInv, CapInvOn

(* PrepareNoAllocation only fails the claim, which holds nothing. *)
LEMMA CapPrepareNoAllocation ==
    ASSUME CapInv, WithinInv', NEW c \in Claims, PrepareNoAllocation(c)
    PROVE  CapInv'
<1>1. alloc[c] = {}
    BY DEF CapInv, CapInvOn, StoreOwner, PrepareNoAllocation, CanCall
<1>2. \A d \in Claims : StoreOwner(d, alloc', pc', kst')
    BY <1>1 DEF CapInv, CapInvOn, StoreOwner, PrepareNoAllocation
<1>. QED
    BY <1>2 DEF CapInv, CapInvOn, PrepareNoAllocation

(* PrepareStart: the claim enters AllocateCPUs with an empty store entry
   and an empty cpuAssignment. *)
LEMMA CapPrepareStart ==
    ASSUME IsFiniteSet(Claims), CapInv, WithinInv', NEW c \in Claims, PrepareStart(c)
    PROVE  CapInv'
<1>1. TypeInv
    BY DEF CapInv, CapInvOn, WithinInv
<1>2. alloc[c] = {}
    BY DEF CapInv, CapInvOn, StoreOwner, PrepareStart, CanCall
<1>3. \A d \in Claims : StoreOwner(d, alloc', pc', kst')
    BY <1>2 DEF CapInv, CapInvOn, StoreOwner, PrepareStart
<1>4. ASSUME NEW d \in Claims, NEW k \in Nat
      PROVE  AccBound(d, k, pc'[d], acc'[d], ri'[d])
    <2>1. CASE d = c
        <3>1. acc'[d] = {}
            BY <1>1, <2>1 DEF PrepareStart, TypeInv, TypeOK
        <3>. QED
            BY <3>1, AccEmpty
    <2>2. CASE d # c
        BY <2>2 DEF CapInv, CapInvOn, PrepareStart
    <2>. QED
        BY <2>1, <2>2
<1>5. ASSUME NEW D \in SUBSET Claims, NEW k \in Nat
      PROVE  HeldBound(D, k, alloc', pc')
    <2>1. HeldBound(D \ {c}, k, alloc, pc)
        BY DEF CapInv, CapInvOn
    <2>2. pc' = [pc EXCEPT ![c] = "alloc"] /\ alloc' = alloc
        BY DEF PrepareStart
    <2>. QED
        BY <1>1, <1>2, <2>1, <2>2, HeldPrepareStart DEF TypeInv, TypeOK
<1>. QED
    BY <1>3, <1>4, <1>5 DEF CapInv, CapInvOn


(* AllocSkipForeign: the loop moves past a result of another driver. *)
LEMMA CapSkipForeign ==
    ASSUME CapInv, WithinInv', NEW c \in Claims, AllocSkipForeign(c)
    PROVE  CapInv'
<1>1. TypeInv
    BY DEF CapInv, CapInvOn, WithinInv
<1>2. ri[c] \in Nat /\ ri[c] \notin OwnResults(c)
    BY <1>1 DEF AllocSkipForeign, Cur, OwnResults, TypeInv, TypeOK
<1>3. ASSUME NEW d \in Claims, NEW k \in Nat
      PROVE  AccBound(d, k, pc'[d], acc'[d], ri'[d])
    <2>1. CASE d = c
        <3>1. ri'[d] = ri[c] + 1 /\ acc'[d] = acc[c] /\ pc'[d] = pc[c]
            BY <1>1, <2>1 DEF AllocSkipForeign, TypeInv, TypeOK
        <3>2. AccPairs(c, DeviceName(k), ri[c] + 1) = AccPairs(c, DeviceName(k), ri[c])
            BY <1>2, AccSkip
        <3>. QED
            BY <2>1, <3>1, <3>2 DEF CapInv, CapInvOn, AccBound
    <2>2. CASE d # c
        BY <2>2 DEF CapInv, CapInvOn, AllocSkipForeign
    <2>. QED
        BY <2>1, <2>2
<1>. QED
    BY <1>3 DEF CapInv, CapInvOn, AllocSkipForeign

(* A prepare that fails inside AllocateCPUs leaves the store alone: the
   claim's own entry is empty. *)
LEMMA CapAllocFail ==
    ASSUME IsFiniteSet(Claims), CapInv, WithinInv', NEW c \in Claims, NEW e,
           pc[c] = "alloc", Fail(c, e)
    PROVE  CapInv'
<1>1. TypeInv
    BY DEF CapInv, CapInvOn, WithinInv
<1>2. alloc[c] = {}
    BY DEF CapInv, CapInvOn, StoreOwner
<1>3. \A d \in Claims : StoreOwner(d, alloc', pc', kst')
    BY <1>2 DEF CapInv, CapInvOn, StoreOwner, Fail
<1>4. \A d \in Claims : \A k \in Nat : AccBound(d, k, pc'[d], acc'[d], ri'[d])
    BY <1>1 DEF CapInv, CapInvOn, AccBound, Fail, TypeInv, TypeOK
<1>5. ASSUME NEW D \in SUBSET Claims, NEW k \in Nat
      PROVE  HeldBound(D, k, alloc', pc')
    <2>1. HeldBound(D, k, alloc, pc)
        BY DEF CapInv, CapInvOn
    <2>2. \A d \in D : pc[d] # "alloc" => pc'[d] # "alloc"
        BY <1>1 DEF Fail, TypeInv, TypeOK
    <2>3. alloc' = alloc
        BY DEF Fail
    <2>. QED
        BY <1>1, <2>1, <2>2, <2>3, HeldMono DEF TypeInv, TypeOK
<1>. QED
    BY <1>3, <1>4, <1>5 DEF CapInv, CapInvOn


(* AllocTake: the CPUs taken for the current result lie in the coordinate
   of its device, and there are as many as it consumed. *)
LEMMA CapAllocTake ==
    ASSUME IsFiniteSet(Claims), CapInv, WithinInv', NEW c \in Claims, AllocTake(c)
    PROVE  CapInv'
<1>. DEFINE r == ri[c]
            j == index[Cur(c).device]
            T == TakeByTopologyNUMAPacked(PoolOf(c), Cur(c).count)
<1>1. TypeInv /\ IndexNamesCoord
    BY DEF CapInv, CapInvOn, WithinInv
<1>2. InLoop(c) /\ Cur(c).driver = DriverName /\ Cur(c).device \in DOMAIN index
      /\ CanTake(PoolOf(c), Cur(c).count)
    BY DEF AllocTake
<1>3. T \subseteq CPUsIn(CoordOf, j) /\ Cardinality(T) = Results[c][r].count
    <2>1. Cur(c).count \in Nat
        BY <1>1, <1>2, CurIsResult
    <2>2. T \subseteq PoolOf(c) /\ Cardinality(T) = Cur(c).count
        BY <1>2, <2>1, PoolIsFinite, TakeWithinPool
    <2>. QED
        BY <2>2 DEF PoolOf, Cur
<1>4. DeviceName(j) = Results[c][r].device
    BY <1>1, <1>2 DEF IndexNamesCoord, Cur
<1>5. r \in 1..MaxResults /\ r \in OwnResults(c)
    <2>1. MaxResults \in Nat /\ Len(Results[c]) <= MaxResults
        BY <1>1, <1>2, ResultsBound DEF TypeInv, InLoop
    <2>. QED
        BY <1>1, <1>2, <2>1 DEF TypeInv, TypeOK, InLoop, OwnResults, Cur
<1>6. acc[c] \in SUBSET CPUs /\ pc[c] = "alloc"
    BY <1>1, <1>2 DEF TypeInv, TypeOK, InLoop
<1>7. acc' = [acc EXCEPT ![c] = @ \cup T] /\ ri' = [ri EXCEPT ![c] = @ + 1]
      /\ UNCHANGED <<alloc, kst, pc>>
    BY DEF AllocTake
<1>8. ASSUME NEW d \in Claims, NEW k \in Nat
      PROVE  AccBound(d, k, pc'[d], acc'[d], ri'[d])
    <2>1. CASE d = c
        <3>1. AccBound(c, k, "alloc", acc[c], r)
            BY <1>6 DEF CapInv, CapInvOn
        <3>2. AccBound(c, k, "alloc", acc[c] \cup T, r + 1)
            BY <1>3, <1>4, <1>5, <1>6, <3>1, AccTake
        <3>3. acc'[c] = acc[c] \cup T /\ ri'[c] = r + 1 /\ pc'[c] = "alloc"
            BY <1>1, <1>6, <1>7 DEF TypeInv, TypeOK
        <3>. QED
            BY <2>1, <3>2, <3>3
    <2>2. CASE d # c
        BY <1>7, <2>2 DEF CapInv, CapInvOn
    <2>. QED
        BY <2>1, <2>2
<1>. QED
    BY <1>7, <1>8 DEF CapInv, CapInvOn


(* AllocDone: the store takes cpuAssignment, which the loop has filled
   from all of the claim's results. *)
LEMMA CapAllocDone ==
    ASSUME IsFiniteSet(Claims), CapInv, WithinInv', NEW c \in Claims, AllocDone(c)
    PROVE  CapInv'
<1>1. TypeInv
    BY DEF CapInv, CapInvOn, WithinInv
<1>2. alloc' = [alloc EXCEPT ![c] = acc[c]] /\ pc' = [pc EXCEPT ![c] = "cdi"]
      /\ UNCHANGED <<kst, ri, acc>> /\ pc[c] = "alloc" /\ ri[c] > Len(Results[c])
    BY DEF AllocDone
<1>3. \A d \in Claims : StoreOwner(d, alloc', pc', kst')
    BY <1>1, <1>2 DEF CapInv, CapInvOn, StoreOwner, TypeInv, TypeOK
<1>4. \A d \in Claims : \A k \in Nat : AccBound(d, k, pc'[d], acc'[d], ri'[d])
    BY <1>1, <1>2 DEF CapInv, CapInvOn, AccBound, TypeInv, TypeOK
<1>5. ASSUME NEW D \in SUBSET Claims, NEW k \in Nat
      PROVE  HeldBound(D, k, alloc', pc')
    <2>1. HeldBound(D \ {c}, k, alloc, pc)
        BY DEF CapInv, CapInvOn
    <2>2. AccBound(c, k, "alloc", acc[c], ri[c])
        BY <1>2 DEF CapInv, CapInvOn
    <2>3. AccPairs(c, DeviceName(k), ri[c]) = {q \in DemandPairs(DeviceName(k)) : q[1] = c}
        BY <1>1, <1>2, AccAll DEF TypeInv, TypeOK
    <2>4. Cardinality(acc[c] \cap CPUsIn(CoordOf, k))
            <= PSum({q \in DemandPairs(DeviceName(k)) : q[1] = c})
        BY <2>2, <2>3 DEF AccBound
    <2>. QED
        BY <1>1, <1>2, <2>1, <2>4, HeldAllocDone DEF TypeInv, TypeOK
<1>. QED
    BY <1>3, <1>4, <1>5 DEF CapInv, CapInvOn

(* CDIAddDevice: the claim leaves the prepare, prepared. *)
LEMMA CapCDIAddDevice ==
    ASSUME IsFiniteSet(Claims), CapInv, WithinInv', NEW c \in Claims, CDIAddDevice(c)
    PROVE  CapInv'
<1>1. TypeInv
    BY DEF CapInv, CapInvOn, WithinInv
<1>2. pc' = [pc EXCEPT ![c] = "idle"] /\ kst' = [kst EXCEPT ![c] = "prepared"]
      /\ UNCHANGED <<alloc, ri, acc>> /\ pc[c] = "cdi"
    BY DEF CDIAddDevice
<1>3. \A d \in Claims : StoreOwner(d, alloc', pc', kst')
    BY <1>1, <1>2 DEF CapInv, CapInvOn, StoreOwner, TypeInv, TypeOK
<1>4. \A d \in Claims : \A k \in Nat : AccBound(d, k, pc'[d], acc'[d], ri'[d])
    BY <1>1, <1>2 DEF CapInv, CapInvOn, AccBound, TypeInv, TypeOK
<1>5. ASSUME NEW D \in SUBSET Claims, NEW k \in Nat
      PROVE  HeldBound(D, k, alloc', pc')
    <2>1. HeldBound(D, k, alloc, pc)
        BY DEF CapInv, CapInvOn
    <2>2. \A d \in D : pc[d] # "alloc" => pc'[d] # "alloc"
        BY <1>1, <1>2 DEF TypeInv, TypeOK
    <2>. QED
        BY <1>1, <1>2, <2>1, <2>2, HeldMono DEF TypeInv, TypeOK
<1>. QED
    BY <1>3, <1>4, <1>5 DEF CapInv, CapInvOn

(* Unprepare: RemoveResourceClaimAllocation empties the claim's entry. *)
LEMMA CapUnprepare ==
    ASSUME IsFiniteSet(Claims), CapInv, WithinInv', NEW c \in Claims, Unprepare(c)
    PROVE  CapInv'
<1>1. TypeInv
    BY DEF CapInv, CapInvOn, WithinInv
<1>2. alloc' = [alloc EXCEPT ![c] = {}] /\ kst' = [kst EXCEPT ![c] = "none"]
      /\ UNCHANGED <<pc, ri, acc>>
    BY DEF Unprepare
<1>3. \A d \in Claims : StoreOwner(d, alloc', pc', kst')
    BY <1>1, <1>2 DEF CapInv, CapInvOn, StoreOwner, TypeInv, TypeOK
<1>4. ASSUME NEW D \in SUBSET Claims, NEW k \in Nat
      PROVE  HeldBound(D, k, alloc', pc')
    <2>1. HeldBound(D, k, alloc, pc)
        BY DEF CapInv, CapInvOn
    <2>2. \A d \in D : alloc'[d] \subseteq alloc[d]
        BY <1>1, <1>2 DEF TypeInv, TypeOK
    <2>. QED
        BY <1>1, <1>2, <2>1, <2>2, HeldMono DEF TypeInv, TypeOK
<1>. QED
    BY <1>2, <1>3, <1>4 DEF CapInv, CapInvOn


(* Every step of the driver keeps CapInv when CDI calls cannot fail. *)
LEMMA NextCapInv ==
    ASSUME IsFiniteSet(Claims), ~CDIMayFail, CapInv, [Next]_vars
    PROVE  CapInv'
<1>1. WithinInv'
    BY NextWithinInv DEF CapInv, CapInvOn
<1>2. CASE StartComplete \/ Publish
    <2>1. UNCHANGED <<alloc, kst, pc, ri, acc>>
        BY <1>2 DEF StartComplete, Publish, CreateDevice, SkipCoordinate, claimVars
    <2>. QED
        BY <1>1, <2>1, CapFrame
<1>3. ASSUME NEW kk, ProcessRestart(kk) PROVE CapInv'
    BY <1>1, <1>3, RestartCapInv
<1>4. CASE Crash
    BY <1>3, <1>4 DEF Crash
<1>5. ASSUME NEW c \in Claims, Kubelet(c) PROVE CapInv'
    <2>1. CASE PrepareNoAllocation(c)
        BY <1>1, <2>1, CapPrepareNoAllocation
    <2>2. CASE PrepareStart(c)
        BY <1>1, <2>2, CapPrepareStart
    <2>3. CASE Unprepare(c)
        BY <1>1, <2>3, CapUnprepare
    <2>4. CASE UnprepareFail(c)
        BY <2>4 DEF UnprepareFail
    <2>5. CASE UnpreparePanic(c)
        BY <1>3, <2>5 DEF UnpreparePanic
    <2>. QED
        BY <1>5, <2>1, <2>2, <2>3, <2>4, <2>5 DEF Kubelet
<1>6. ASSUME NEW c \in Claims, Prepare(c) PROVE CapInv'
    <2>1. CASE AllocSkipForeign(c)
        BY <1>1, <2>1, CapSkipForeign
    <2>2. CASE AllocLookupFail(c) \/ AllocTakeFail(c)
        <3>1. pc[c] = "alloc" /\ (Fail(c, "lookup") \/ Fail(c, "capacity"))
            BY <2>2 DEF AllocLookupFail, AllocTakeFail, InLoop
        <3>. QED
            BY <1>1, <3>1, CapAllocFail
    <2>3. CASE AllocTake(c)
        BY <1>1, <2>3, CapAllocTake
    <2>4. CASE AllocDone(c)
        BY <1>1, <2>4, CapAllocDone
    <2>5. CASE CDIAddDevice(c)
        BY <1>1, <2>5, CapCDIAddDevice
    <2>6. CASE CDIAddDeviceFail(c)
        BY <2>6 DEF CDIAddDeviceFail
    <2>. QED
        BY <1>6, <2>1, <2>2, <2>3, <2>4, <2>5, <2>6 DEF Prepare
<1>7. CASE UNCHANGED vars
    BY <1>1, <1>7, CapFrame DEF vars
<1>. QED
    BY <1>2, <1>4, <1>5, <1>6, <1>7 DEF Next


-----------------------------------------------------------------------------
(***************************************************************************)
(* The capacity error. A restart resets every loop index, so that a claim *)
(* failed before it would then name another result: the error invariant  *)
(* needs the absence of kills from outside. UnpreparePanic still restarts *)
(* the process, but only before Start, when no lookup has yet succeeded   *)
(* and so no claim has a capacity error.                                  *)
(***************************************************************************)

(* Demand and capacity are numbers. *)
LEMMA DemandCapacityNat ==
    ASSUME IsFiniteSet(Claims), NEW n
    PROVE  Demand(n) \in Nat /\ Capacity(n) \in Nat
<1>1. Demand(n) \in Nat
    BY DemandIsSum, DemandPairsFacts, PSumType DEF PairTerms
<1>2. AllocatableIn(n[2]) \subseteq CPUs
    BY DEF AllocatableIn, CPUsIn
<1>. QED
    BY <1>1, <1>2, TopologyAssumption, FS_Subset, FS_CardinalityType DEF Capacity

(* AllocTakeFail: the pool was too small, so the device is overcommitted. *)
LEMMA TakeFailOvercommitted ==
    ASSUME IsFiniteSet(Claims), CapInv, IndexStarted, NEW c \in Claims, AllocTakeFail(c)
    PROVE  ErrCap(c, "capacity", ri[c], started)
<1>1. InLoop(c) /\ Cur(c).driver = DriverName /\ Cur(c).device \in DOMAIN index
      /\ ~CanTake(PoolOf(c), Cur(c).count)
    BY DEF AllocTakeFail
<1>2. started
    BY <1>1 DEF IndexStarted
<1>3. ~(Demand(Cur(c).device) <= Capacity(Cur(c).device))
    BY <1>1, PoolLargeEnough
<1>4. Demand(Cur(c).device) > Capacity(Cur(c).device)
    BY <1>3, DemandCapacityNat
<1>. QED
    BY <1>2, <1>4 DEF ErrCap, Cur

(* Every step of the driver keeps ErrInv, without kills from outside. *)
LEMMA NextErrInv ==
    ASSUME IsFiniteSet(Claims), ~CDIMayFail, MaxRestarts = 0,
           CapInv, ErrInv, [Next]_vars
    PROVE  ErrInv'
<1>1. TypeInv
    BY DEF CapInv, CapInvOn, WithinInv
<1>. USE DEF ErrInv
<1>2. CASE StartComplete
    BY <1>2 DEF StartComplete, claimVars, IndexStarted, ErrCap
<1>3. CASE Publish
    BY <1>3 DEF Publish, CreateDevice, SkipCoordinate, claimVars, procVars,
                IndexStarted
<1>4. CASE Crash
    BY <1>1, <1>4 DEF Crash, TypeInv, TypeOK
<1>5. ASSUME NEW c \in Claims, Kubelet(c) PROVE ErrInv'
    <2>1. CASE PrepareNoAllocation(c)
        BY <1>1, <2>1 DEF PrepareNoAllocation, CanCall, IndexStarted, ErrCap,
                          TypeInv, TypeOK
    <2>2. CASE PrepareStart(c)
        BY <1>1, <2>2 DEF PrepareStart, IndexStarted, ErrCap, TypeInv, TypeOK
    <2>3. CASE Unprepare(c)
        BY <2>3 DEF Unprepare, IndexStarted
    <2>4. CASE UnprepareFail(c)
        BY <2>4 DEF UnprepareFail
    <2>5. CASE UnpreparePanic(c)
        <3>1. \A d \in Claims : err[d] # "capacity"
            BY <2>5 DEF UnpreparePanic, ErrCap
        <3>. QED
            BY <2>5, <3>1 DEF UnpreparePanic, ProcessRestart, IndexStarted, ErrCap
    <2>. QED
        BY <1>5, <2>1, <2>2, <2>3, <2>4, <2>5 DEF Kubelet
<1>6. ASSUME NEW c \in Claims, Prepare(c) PROVE ErrInv'
    <2>1. CASE AllocSkipForeign(c) \/ AllocTake(c)
        <3>1. err[c] = "ok" /\ UNCHANGED <<index, pc, err, started>>
              /\ \A d \in Claims \ {c} : ri'[d] = ri[d]
            BY <1>1, <2>1 DEF AllocSkipForeign, AllocTake, InLoop, TypeInv, TypeOK
        <3>. QED
            BY <3>1 DEF IndexStarted, ErrCap
    <2>2. CASE AllocLookupFail(c)
        BY <1>1, <2>2 DEF AllocLookupFail, Fail, IndexStarted, ErrCap, TypeInv, TypeOK
    <2>3. CASE AllocTakeFail(c)
        <3>1. ErrCap(c, "capacity", ri[c], started)
            BY <2>3, TakeFailOvercommitted
        <3>. QED
            BY <1>1, <2>3, <3>1 DEF AllocTakeFail, Fail, IndexStarted, TypeInv, TypeOK
    <2>4. CASE AllocDone(c) \/ CDIAddDevice(c)
        BY <1>1, <2>4 DEF AllocDone, CDIAddDevice, IndexStarted, TypeInv, TypeOK
    <2>5. CASE CDIAddDeviceFail(c)
        BY <2>5 DEF CDIAddDeviceFail
    <2>. QED
        BY <1>6, <2>1, <2>2, <2>3, <2>4, <2>5 DEF Prepare
<1>7. CASE UNCHANGED vars
    BY <1>7 DEF vars, IndexStarted
<1>. QED
    BY <1>2, <1>3, <1>4, <1>5, <1>6, <1>7 DEF Next

(***************************************************************************)
(* For every topology, reserved set, finite set of claims and allocation  *)
(* results, with or without serialised gRPC calls: when cdiMgr.AddDevice  *)
(* and RemoveDevice cannot fail and no kill from outside restarts the     *)
(* process, a prepare fails in TakeByTopologyNUMAPacked for lack of CPUs  *)
(* only on a device whose demand, summed over all the claims' results,    *)
(* exceeds the capacity CreateSlices published for it. The store holds   *)
(* only CPUs of claims that finished AllocateCPUs, at most their counts   *)
(* per device, so the pool GetSharedCPUs leaves a device covers the rest. *)
(***************************************************************************)
THEOREM CapacityHonouredHolds ==
    ~CDIMayFail /\ MaxRestarts = 0 /\ IsFiniteSet(Claims) => (Spec => []CapacityHonoured)
<1>. SUFFICES ASSUME ~CDIMayFail, MaxRestarts = 0, IsFiniteSet(Claims)
              PROVE  Spec => []CapacityHonoured
    OBVIOUS
<1>1. Init => HonourInv
    <2>. SUFFICES ASSUME Init PROVE HonourInv
        OBVIOUS
    <2>. QED
        BY InitCapInv DEF Init, HonourInv, ErrInv, IndexStarted, ErrCap
<1>2. HonourInv /\ [Next]_vars => HonourInv'
    BY NextCapInv, NextErrInv DEF HonourInv
<1>3. HonourInv => CapacityHonoured
    BY DEF HonourInv, ErrInv, ErrCap, CapacityHonoured, Cur
<1>. QED
    BY <1>1, <1>2, <1>3, PTL DEF Spec

=============================================================================
