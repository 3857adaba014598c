------------------------------- MODULE SumFold -------------------------------
(***************************************************************************)
(* The laws of MapThenSumSet (FiniteSetsExt) that the proofs about the     *)
(* counts of allocation results need: the sum of the empty set is 0, and  *)
(* adding an element to a finite set adds its term, whichever element the *)
(* fold's CHOOSE happens to take first. f(c, x) is the term of element x  *)
(* in the sum indexed by c (a claim, for RequestedCount).                  *)
(***************************************************************************)
EXTENDS Integers, FiniteSets, FiniteSetsExt, FiniteSetTheorems,
        WellFoundedInduction, TLAPS

CONSTANT f(_, _)

(* The sum of the terms f(c, x), x \in S. *)
Sum(c, S) == MapThenSumSet(LAMBDA x : f(c, x), S)

(* The element the fold takes first, and the function it folds with. *)
Ch(s) == CHOOSE x \in s : TRUE

SumIter(c, S) ==
    CHOOSE g : g = [s \in SUBSET S |->
                      IF s = {} THEN 0 ELSE f(c, Ch(s)) + g[s \ {Ch(s)}]]

(* The fold of S is its iteration function at S. *)
LEMMA SumIsIter ==
    ASSUME NEW c, NEW S
    PROVE  Sum(c, S) = SumIter(c, S)[S]
BY DEF Sum, MapThenSumSet, MapThenFoldSet, SumIter, Ch

(* Every non-empty set of naturals has a least element. *)
LEMMA NatLeast ==
    ASSUME NEW B \in SUBSET Nat, B # {}
    PROVE  \E m \in B : \A k \in B : m <= k
<1>1. PICK m \in B : \A k \in B : ~(<<k, m>> \in OpToRel(<, Nat))
    BY NatLessThanWellFounded, WFMin
<1>2. \A k \in B : ~(k < m)
    BY <1>1 DEF OpToRel
<1>. QED
    BY <1>2

(* A pair of naturals in the less-than relation. *)
LEMMA LessInOpToRel ==
    ASSUME NEW a \in Nat, NEW b \in Nat, a < b
    PROVE  <<a, b>> \in OpToRel(<, Nat)
<1>1. <<a, b>> \in Nat \X Nat /\ <<a, b>>[1] = a /\ <<a, b>>[2] = b
    OBVIOUS
<1>. QED
    BY <1>1, Zenon DEF OpToRel

(* Subsets of a finite set ordered by size. *)
CardLess(S) ==
    {ss \in (SUBSET S) \X (SUBSET S) : Cardinality(ss[1]) < Cardinality(ss[2])}

(* Ordering subsets by size is well-founded. *)
LEMMA CardLessWF ==
    ASSUME NEW S, IsFiniteSet(S)
    PROVE  IsWellFoundedOn(CardLess(S), SUBSET S)
<1>1. \A s \in SUBSET S : Cardinality(s) \in Nat
    BY FS_Subset, FS_CardinalityType
<1>2. SUFFICES ASSUME NEW h \in [Nat -> SUBSET S],
                      \A n \in Nat : <<h[n+1], h[n]>> \in CardLess(S)
               PROVE  FALSE
    BY DEF IsWellFoundedOn
<1>. DEFINE g == [n \in Nat |-> Cardinality(h[n])]
<1>3. g \in [Nat -> Nat]
    BY <1>1
<1>4. ASSUME NEW n \in Nat
      PROVE  <<g[n+1], g[n]>> \in OpToRel(<, Nat)
    <2>1. <<h[n+1], h[n]>> \in CardLess(S)
        BY <1>2
    <2>2. Cardinality(h[n+1]) < Cardinality(h[n])
        BY <2>1 DEF CardLess
    <2>3. g[n+1] \in Nat /\ g[n] \in Nat /\ g[n+1] < g[n]
        BY <1>1, <2>2
    <2>. QED
        BY <2>3, LessInOpToRel
<1>. QED
    BY <1>3, <1>4, NatLessThanWellFounded DEF IsWellFoundedOn

(* The iteration function satisfies its recursion equation. *)
LEMMA SumIterDef ==
    ASSUME NEW c, NEW S, IsFiniteSet(S), NEW s \in SUBSET S
    PROVE  SumIter(c, S)[s] =
              IF s = {} THEN 0 ELSE f(c, Ch(s)) + SumIter(c, S)[s \ {Ch(s)}]
<1> DEFINE Def(g, r) == IF r = {} THEN 0 ELSE f(c, Ch(r)) + g[r \ {Ch(r)}]
<1>1. IsWellFoundedOn(CardLess(S), SUBSET S)
    BY CardLessWF
<1>2. WFDefOn(CardLess(S), SUBSET S, Def)
    <2>1. SUFFICES ASSUME NEW g, NEW h, NEW r \in SUBSET S,
                          \A y \in SetLessThan(r, CardLess(S), SUBSET S) : g[y] = h[y]
                   PROVE  Def(g, r) = Def(h, r)
        BY DEF WFDefOn
    <2>2. CASE r = {}
        BY <2>2
    <2>3. CASE r # {}
        <3>1. Ch(r) \in r
            BY <2>3 DEF Ch
        <3>2. IsFiniteSet(r)
            BY FS_Subset
        <3>3. Cardinality(r \ {Ch(r)}) < Cardinality(r)
            <4>1. Cardinality(r \ {Ch(r)}) = Cardinality(r) - 1
                BY <3>1, <3>2, FS_RemoveElement
            <4>2. Cardinality(r) \in Nat
                BY <3>2, FS_CardinalityType
            <4>. QED
                BY <4>1, <4>2
        <3>4. r \ {Ch(r)} \in SetLessThan(r, CardLess(S), SUBSET S)
            BY <3>3 DEF SetLessThan, CardLess
        <3>. QED
            BY <3>4, <2>1, <2>3
    <2>. QED
        BY <2>2, <2>3
<1>3. OpDefinesFcn(SumIter(c, S), SUBSET S, Def)
    BY DEF OpDefinesFcn, SumIter
<1>4. WFInductiveDefines(SumIter(c, S), SUBSET S, Def)
    BY <1>1, <1>2, <1>3, WFInductiveDef
<1>. QED
    BY <1>4 DEF WFInductiveDefines

(* The iteration function of a finite set S gives, at a subset T of S, the
   sum of T. *)
LEMMA SumRestrict ==
    ASSUME NEW c, NEW S, IsFiniteSet(S), NEW T \in SUBSET S
    PROVE  SumIter(c, S)[T] = Sum(c, T)
<1> DEFINE Bad == {n \in Nat : \E A, B : /\ IsFiniteSet(A) /\ B \subseteq A
                                        /\ Cardinality(B) = n
                                        /\ SumIter(c, A)[B] # SumIter(c, B)[B]}
<1>1. SUFFICES Bad = {}
    <2>1. Cardinality(T) \in Nat
        BY FS_Subset, FS_CardinalityType
    <2>. QED
        BY <1>1, <2>1, SumIsIter
<1>2. SUFFICES ASSUME Bad # {} PROVE FALSE
    OBVIOUS
<1>3. PICK m \in Bad : \A k \in Bad : m <= k
    BY <1>2, NatLeast
<1>4. PICK A, B : /\ IsFiniteSet(A) /\ B \subseteq A
                  /\ Cardinality(B) = m
                  /\ SumIter(c, A)[B] # SumIter(c, B)[B]
    BY <1>3
<1>10. m \in Nat
    BY <1>3
<1>. HIDE DEF Bad
<1>5. IsFiniteSet(B)
    BY <1>4, FS_Subset
<1>8. SumIter(c, A)[B] =
          IF B = {} THEN 0 ELSE f(c, Ch(B)) + SumIter(c, A)[B \ {Ch(B)}]
    BY <1>4, SumIterDef
<1>9. SumIter(c, B)[B] =
          IF B = {} THEN 0 ELSE f(c, Ch(B)) + SumIter(c, B)[B \ {Ch(B)}]
    BY <1>5, SumIterDef
<1>6. CASE B = {}
    BY <1>4, <1>6, <1>8, <1>9
<1>7. CASE B # {}
    <2> DEFINE x == Ch(B)
               W == B \ {x}
    <2>1. x \in B
        BY <1>7 DEF Ch
    <2>2. Cardinality(W) = m - 1 /\ m - 1 \in Nat /\ W \subseteq B
        <3>1. Cardinality(W) = Cardinality(B) - 1
            BY <1>5, <2>1, FS_RemoveElement
        <3>2. Cardinality(B) # 0
            BY <1>5, <1>7, FS_EmptySet
        <3>. QED
            BY <1>4, <1>10, <3>1, <3>2
    <2>3. m - 1 \notin Bad
        BY <1>3, <1>10
    <2>4. SumIter(c, A)[W] = SumIter(c, W)[W] /\ SumIter(c, B)[W] = SumIter(c, W)[W]
        BY <1>4, <1>5, <2>2, <2>3 DEF Bad
    <2>5. SumIter(c, A)[B] = f(c, x) + SumIter(c, A)[W]
        BY <1>4, <1>7, <1>8
    <2>6. SumIter(c, B)[B] = f(c, x) + SumIter(c, B)[W]
        BY <1>7, <1>9
    <2>. QED
        BY <1>4, <2>4, <2>5, <2>6
<1>. QED
    BY <1>6, <1>7

(* The sum of the empty set is 0. *)
LEMMA SumEmpty ==
    ASSUME NEW c
    PROVE  Sum(c, {}) = 0
<1>1. IsFiniteSet({})
    BY FS_EmptySet
<1>2. SumIter(c, {})[{}] = 0
    BY <1>1, SumIterDef
<1>. QED
    BY <1>2, SumIsIter

(* The sum of a non-empty finite set is the term of the element CHOOSE
   takes plus the sum of the rest. *)
LEMMA SumChoose ==
    ASSUME NEW c, NEW S, IsFiniteSet(S), S # {}
    PROVE  Sum(c, S) = f(c, Ch(S)) + Sum(c, S \ {Ch(S)})
<1>1. SumIter(c, S)[S] = f(c, Ch(S)) + SumIter(c, S)[S \ {Ch(S)}]
    BY SumIterDef
<1>2. SumIter(c, S)[S \ {Ch(S)}] = Sum(c, S \ {Ch(S)})
    BY SumRestrict
<1>. QED
    BY <1>1, <1>2, SumIsIter

(* A sum of naturals is a natural. *)
LEMMA SumType ==
    ASSUME NEW c, NEW S, IsFiniteSet(S), \A x \in S : f(c, x) \in Nat
    PROVE  Sum(c, S) \in Nat
<1> DEFINE Bad == {n \in Nat : \E T \in SUBSET S : Cardinality(T) = n /\ Sum(c, T) \notin Nat}
<1>1. SUFFICES Bad = {}
    <2>1. Cardinality(S) \in Nat
        BY FS_CardinalityType
    <2>. QED
        BY <1>1, <2>1
<1>2. SUFFICES ASSUME Bad # {} PROVE FALSE
    OBVIOUS
<1>3. PICK m \in Bad : \A k \in Bad : m <= k
    BY <1>2, NatLeast
<1>4. PICK T \in SUBSET S : Cardinality(T) = m /\ Sum(c, T) \notin Nat
    BY <1>3
<1>5. m \in Nat /\ IsFiniteSet(T)
    BY <1>3, FS_Subset
<1>. HIDE DEF Bad
<1>6. CASE T = {}
    BY <1>4, <1>6, SumEmpty
<1>7. CASE T # {}
    <2> DEFINE x == Ch(T)
               W == T \ {x}
    <2>1. x \in T
        BY <1>7 DEF Ch
    <2>2. Cardinality(W) = m - 1 /\ m - 1 \in Nat
        <3>1. Cardinality(W) = Cardinality(T) - 1
            BY <1>5, <2>1, FS_RemoveElement
        <3>2. Cardinality(T) # 0
            BY <1>5, <1>7, FS_EmptySet
        <3>. QED
            BY <1>4, <1>5, <3>1, <3>2
    <2>3. m - 1 \notin Bad
        BY <1>3, <1>5
    <2>4. Sum(c, W) \in Nat
        BY <2>2, <2>3 DEF Bad
    <2>5. Sum(c, T) = f(c, x) + Sum(c, W)
        BY <1>5, <1>7, SumChoose
    <2>. QED
        BY <1>4, <2>1, <2>4, <2>5
<1>. QED
    BY <1>6, <1>7

(* The sum of a finite set is the term of any of its elements plus the sum
   of the others: the order in which the fold takes the elements does not
   matter. *)
LEMMA SumRemove ==
    ASSUME NEW c, NEW S, IsFiniteSet(S), \A x \in S : f(c, x) \in Nat,
           NEW y \in S
    PROVE  Sum(c, S) = f(c, y) + Sum(c, S \ {y})
<1> DEFINE Bad == {n \in Nat : \E T \in SUBSET S, z \in S :
                                  /\ z \in T /\ Cardinality(T) = n
                                  /\ Sum(c, T) # f(c, z) + Sum(c, T \ {z})}
<1>1. SUFFICES Bad = {}
    <2>1. Cardinality(S) \in Nat
        BY FS_CardinalityType
    <2>. QED
        BY <1>1, <2>1
<1>2. SUFFICES ASSUME Bad # {} PROVE FALSE
    OBVIOUS
<1>3. PICK m \in Bad : \A k \in Bad : m <= k
    BY <1>2, NatLeast
<1>4. PICK T \in SUBSET S, z \in S :
          /\ z \in T /\ Cardinality(T) = m
          /\ Sum(c, T) # f(c, z) + Sum(c, T \ {z})
    BY <1>3
<1>5. m \in Nat /\ IsFiniteSet(T) /\ T # {}
    BY <1>3, <1>4, FS_Subset
<1>. HIDE DEF Bad
<1>. DEFINE x == Ch(T)
<1>6. x \in T
    BY <1>5 DEF Ch
<1>7. Sum(c, T) = f(c, x) + Sum(c, T \ {x})
    BY <1>5, SumChoose
<1>8. CASE x = z
    BY <1>4, <1>7, <1>8
<1>9. CASE x # z
    <2> DEFINE R == (T \ {x}) \ {z}
    <2>1. Cardinality(T \ {x}) = m - 1 /\ Cardinality(T \ {z}) = m - 1
          /\ m - 1 \in Nat
        <3>1. Cardinality(T \ {x}) = Cardinality(T) - 1
              /\ Cardinality(T \ {z}) = Cardinality(T) - 1
            BY <1>4, <1>5, <1>6, FS_RemoveElement
        <3>2. Cardinality(T) # 0
            BY <1>5, FS_EmptySet
        <3>. QED
            BY <1>4, <1>5, <3>1, <3>2
    <2>2. m - 1 \notin Bad
        BY <1>3, <1>5
    <2>6. \A T2 \in SUBSET S, z2 \in S :
              z2 \in T2 /\ Cardinality(T2) = m - 1 =>
                  Sum(c, T2) = f(c, z2) + Sum(c, T2 \ {z2})
        BY <2>1, <2>2 DEF Bad
    <2>3. Sum(c, T \ {x}) = f(c, z) + Sum(c, R)
        <3>1. T \ {x} \in SUBSET S /\ z \in T \ {x}
            BY <1>4, <1>9
        <3>. QED
            BY <1>4, <2>1, <2>6, <3>1
    <2>4. Sum(c, T \ {z}) = f(c, x) + Sum(c, R)
        <3>1. (T \ {z}) \ {x} = R
            OBVIOUS
        <3>2. T \ {z} \in SUBSET S /\ x \in T \ {z} /\ x \in S
            BY <1>4, <1>6, <1>9
        <3>. QED
            BY <2>1, <2>6, <3>1, <3>2
    <2>5. Sum(c, R) \in Nat /\ f(c, x) \in Nat /\ f(c, z) \in Nat
        <3>1. IsFiniteSet(R) /\ R \subseteq S
            BY <1>5, FS_Subset
        <3>. QED
            BY <1>4, <1>6, <3>1, SumType
    <2>. QED
        BY <1>4, <1>7, <2>3, <2>4, <2>5
<1>. QED
    BY <1>8, <1>9

(* Adding an element to a finite set adds its term to the sum. *)
LEMMA SumAddElement ==
    ASSUME NEW c, NEW S, IsFiniteSet(S), NEW y, y \notin S,
           \A x \in S \cup {y} : f(c, x) \in Nat
    PROVE  Sum(c, S \cup {y}) = f(c, y) + Sum(c, S)
<1>1. IsFiniteSet(S \cup {y})
    BY FS_AddElement
<1>2. (S \cup {y}) \ {y} = S
    OBVIOUS
<1>. QED
    BY <1>1, <1>2, SumRemove


(* The sum over two disjoint finite sets is the sum of their sums. *)
LEMMA SumUnion ==
    ASSUME NEW c, NEW S, NEW T, IsFiniteSet(S), IsFiniteSet(T), S \cap T = {},
           \A x \in S \cup T : f(c, x) \in Nat
    PROVE  Sum(c, S \cup T) = Sum(c, S) + Sum(c, T)
<1> DEFINE Bad == {n \in Nat : \E U \in SUBSET T :
                                  Cardinality(U) = n /\ Sum(c, S \cup U) # Sum(c, S) + Sum(c, U)}
<1>1. SUFFICES Bad = {}
    <2>1. Cardinality(T) \in Nat
        BY FS_CardinalityType
    <2>. QED
        BY <1>1, <2>1
<1>2. SUFFICES ASSUME Bad # {} PROVE FALSE
    OBVIOUS
<1>3. PICK m \in Bad : \A k \in Bad : m <= k
    BY <1>2, NatLeast
<1>4. PICK U \in SUBSET T :
          Cardinality(U) = m /\ Sum(c, S \cup U) # Sum(c, S) + Sum(c, U)
    BY <1>3
<1>5. m \in Nat /\ IsFiniteSet(U)
    BY <1>3, FS_Subset
<1>6. Sum(c, S) \in Nat
    BY SumType
<1>. HIDE DEF Bad
<1>7. CASE U = {}
    BY <1>4, <1>6, <1>7, SumEmpty
<1>8. CASE U # {}
    <2> DEFINE x == Ch(U)
               W == U \ {x}
    <2>1. x \in U
        BY <1>8 DEF Ch
    <2>2. Cardinality(W) = m - 1 /\ m - 1 \in Nat
        <3>1. Cardinality(W) = Cardinality(U) - 1
            BY <1>5, <2>1, FS_RemoveElement
        <3>2. Cardinality(U) # 0
            BY <1>5, <1>8, FS_EmptySet
        <3>. QED
            BY <1>4, <1>5, <3>1, <3>2
    <2>3. m - 1 \notin Bad
        BY <1>3, <1>5
    <2>4. Sum(c, S \cup W) = Sum(c, S) + Sum(c, W)
        <3>1. W \in SUBSET T
            OBVIOUS
        <3>. QED
            BY <2>2, <2>3, <3>1 DEF Bad
    <2>5. IsFiniteSet(S \cup W) /\ x \notin S \cup W /\ S \cup U = (S \cup W) \cup {x}
        BY <1>5, <2>1, FS_Subset, FS_Union
    <2>6. Sum(c, S \cup U) = f(c, x) + Sum(c, S \cup W)
        BY <2>1, <2>5, SumAddElement
    <2>7. Sum(c, U) = f(c, x) + Sum(c, W)
        BY <1>5, <2>1, SumRemove
    <2>8. Sum(c, W) \in Nat /\ f(c, x) \in Nat
        <3>1. IsFiniteSet(W)
            BY <1>5, FS_Subset
        <3>. QED
            BY <2>1, <3>1, SumType
    <2>. QED
        BY <1>4, <1>6, <2>4, <2>6, <2>7, <2>8
<1>. QED
    BY <1>7, <1>8

(* With terms that are naturals, a subset has the smaller sum. *)
LEMMA SumMono ==
    ASSUME NEW c, NEW S, NEW T, IsFiniteSet(T), S \subseteq T,
           \A x \in T : f(c, x) \in Nat
    PROVE  Sum(c, S) <= Sum(c, T)
<1>1. IsFiniteSet(S) /\ IsFiniteSet(T \ S)
    BY FS_Subset
<1>2. Sum(c, T) = Sum(c, S) + Sum(c, T \ S)
    <2>1. T = S \cup (T \ S)
        OBVIOUS
    <2>. QED
        BY <1>1, <2>1, SumUnion
<1>3. Sum(c, S) \in Nat /\ Sum(c, T \ S) \in Nat
    BY <1>1, SumType
<1>. QED
    BY <1>2, <1>3

=============================================================================
