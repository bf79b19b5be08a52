----------------------------- MODULE SumsProofs -----------------------------
(***************************************************************************)
(* What SumOf computes, for every finite set, and the facts about minimal  *)
(* elements that stand in for induction here: a least counterexample is    *)
(* taken from a set, as the induction theorems of the library, which have  *)
(* a predicate as parameter, cannot be applied by the provers at hand.     *)
(***************************************************************************)
EXTENDS Sums, FiniteSetTheorems, WellFoundedInduction, TLAPS

\* Most leaves are first-order reasoning; those with arithmetic cite SMTT(60).
USE ZenonT(60)

(* Every non-empty set of naturals has a least element.                    *)
LEMMA LeastNatural ==
    ASSUME NEW T \in SUBSET Nat, T # {}
    PROVE  \E x \in T : \A y \in T : x <= y
<1>1. PICK x \in T : \A y \in T : <<y, x>> \notin OpToRel(<, Nat)
  BY NatLessThanWellFounded, WFMin
<1>2. ASSUME NEW y \in T, y < x PROVE FALSE
  <2>1. <<y, x>> \in Nat \X Nat /\ <<y, x>>[1] < <<y, x>>[2]
    BY <1>2
  <2>. QED
    BY <2>1, <1>1 DEF OpToRel
<1>. QED
  BY <1>2, SMTT(60)

(* Of the subsets of a finite set that are in B, one is minimal.           *)
LEMMA MinimalSubset ==
    ASSUME NEW U, IsFiniteSet(U), NEW B \in SUBSET (SUBSET U), B # {}
    PROVE  \E T \in B : \A V \in B : V \subseteq T => V = T
<1>1. B \subseteq FiniteSubsetsOf(U)
  BY FS_FiniteSubsetsOfFinite
<1>2. PICK T \in B : \A V \in B : <<V, T>> \notin StrictSubsetOrdering(U)
  BY <1>1, FS_StrictSubsetOrderingWellFounded, WFMin
<1>3. ASSUME NEW V \in B, V \subseteq T PROVE V = T
  BY <1>2, <1>3, <1>1 DEF StrictSubsetOrdering, FiniteSubsetsOf
<1>. QED
  BY <1>3

(* G gives every subset of U the sum of its weights.                       *)
Additive(w, U, G) ==
    /\ G \in [SUBSET U -> Int]
    /\ G[{}] = 0
    /\ \A T \in SUBSET U : \A x \in T : G[T] = w[x] + G[T \ {x}]

(* Such a function exists for every finite set.                            *)
LEMMA AdditiveExists ==
    ASSUME NEW U, IsFiniteSet(U), NEW w, \A x \in U : w[x] \in Int
    PROVE  \E G : Additive(w, U, G)
<1>. DEFINE Bad == {T \in SUBSET U : ~ \E G : Additive(w, T, G)}
<1>. SUFFICES ASSUME Bad # {} PROVE FALSE
  OBVIOUS
<1>1. PICK T \in Bad : \A V \in Bad : V \subseteq T => V = T
  <2>1. Bad \in SUBSET (SUBSET U)
    OBVIOUS
  <2>. HIDE DEF Bad
  <2>. QED
    BY <2>1, MinimalSubset, SMTT(60)
<1>2. T # {}
  <2>1. Additive(w, {}, [V \in {{}} |-> 0])
    BY SMTT(60) DEF Additive
  <2>. QED
    BY <2>1, <1>1
<1>3. PICK x \in T : TRUE
  BY <1>2
<1>4. PICK H : Additive(w, T \ {x}, H)
  BY <1>1, <1>3, SMTT(60)
<1>. DEFINE G == [V \in SUBSET T |-> IF x \in V THEN w[x] + H[V \ {x}] ELSE H[V]]
<1>5. \A V \in SUBSET T : V \ {x} \in SUBSET (T \ {x}) /\ (x \notin V => V \in SUBSET (T \ {x}))
  OBVIOUS
<1>6. w[x] \in Int
  BY <1>1, <1>3
<1>7. G \in [SUBSET T -> Int] /\ G[{}] = 0
  BY <1>4, <1>5, <1>6, SMTT(60) DEF Additive
<1>8. ASSUME NEW V \in SUBSET T, NEW y \in V PROVE G[V] = w[y] + G[V \ {y}]
  <2>1. CASE y = x
    BY <2>1, <1>5 
  <2>2. CASE y # x /\ x \in V
    <3>1. H[V \ {x}] = w[y] + H[(V \ {x}) \ {y}]
      BY <1>4, <1>5, <2>2 DEF Additive
    <3>2. (V \ {x}) \ {y} = (V \ {y}) \ {x}
      OBVIOUS
    <3>3. G[V \ {y}] = w[x] + H[(V \ {y}) \ {x}]
      BY <2>2
    <3>4. w[y] \in Int /\ H[(V \ {y}) \ {x}] \in Int
      <4>1. (V \ {y}) \ {x} \in SUBSET (T \ {x})
        OBVIOUS
      <4>. QED
        BY <4>1, <1>1, <1>4 DEF Additive
    <3>5. G[V] = w[x] + H[V \ {x}]
      BY <2>2
    <3>. DEFINE h == H[(V \ {y}) \ {x}]
    <3>6. G[V] = w[x] + (w[y] + h) /\ G[V \ {y}] = w[x] + h /\ h \in Int
      BY <3>1, <3>2, <3>3, <3>4, <3>5
    <3>. HIDE DEF G, h
    <3>. QED
      BY <3>4, <3>6, <1>6, SMTT(60)
  <2>3. CASE x \notin V
    BY <1>4, <1>5, <2>3 DEF Additive
  <2>. QED
    BY <2>1, <2>2, <2>3
<1>9. Additive(w, T, G)
  BY <1>7, <1>8 DEF Additive
<1>. QED
  BY <1>1, <1>9

(* One step of the recursion that defines SumOf.                           *)
Step(w, S, g) ==
    [s \in SUBSET S |-> IF s = {} THEN 0
                        ELSE w[CHOOSE x \in s : TRUE] + g[s \ {CHOOSE x \in s : TRUE}]]

(* SumOf is the function that the recursion determines.                    *)
LEMMA SumOfUnfold ==
    ASSUME NEW S, NEW w
    PROVE  SumOf(w, S) = (CHOOSE g : g = Step(w, S, g))[S]
BY DEF SumOf, MapThenSumSet, MapThenFoldSet, Step

(* SumOf is the additive function.                                         *)
LEMMA SumOfAdditive ==
    ASSUME NEW U, IsFiniteSet(U), NEW w, NEW G, Additive(w, U, G),
           NEW S \in SUBSET U
    PROVE  SumOf(w, S) = G[S]
<1>. DEFINE g == CHOOSE h : h = Step(w, S, h)
<1>1. g = Step(w, S, g)
  <2>. DEFINE h == [s \in SUBSET S |-> G[s]]
  <2>1. ASSUME NEW s \in SUBSET S
        PROVE  h[s] = Step(w, S, h)[s]
    <3>1. CASE s = {}
      BY <3>1 DEF Step, Additive
    <3>2. CASE s # {}
      <4>. DEFINE x == CHOOSE y \in s : TRUE
      <4>1. x \in s
        BY <3>2
      <4>. HIDE DEF x
      <4>2. s \ {x} \in SUBSET S /\ s \in SUBSET U
        OBVIOUS
      <4>3. G[s] = w[x] + G[s \ {x}]
        BY <4>1, <4>2 DEF Additive
      <4>4. h[s] = w[x] + h[s \ {x}]
        BY <4>2, <4>3
      <4>. QED
        BY <3>2, <4>4 DEF Step, x
    <3>. QED
      BY <3>1, <3>2
  <2>2. h = Step(w, S, h)
    BY <2>1 DEF Step
  <2>. QED
    BY <2>2
<1>. HIDE DEF g
<1>. DEFINE Bad == {T \in SUBSET S : g[T] # G[T]}
<1>2. Bad = {}
  <2>. SUFFICES ASSUME Bad # {} PROVE FALSE
    OBVIOUS
  <2>1. IsFiniteSet(S)
    BY FS_Subset
  <2>2. PICK T \in Bad : \A V \in Bad : V \subseteq T => V = T
    <3>1. Bad \in SUBSET (SUBSET S)
      OBVIOUS
    <3>. HIDE DEF Bad
    <3>. QED
      BY <2>1, <3>1, MinimalSubset, SMTT(60)
  <2>3. T # {}
    BY <1>1, <2>2 DEF Step, Additive
  <2>. DEFINE x == CHOOSE y \in T : TRUE
  <2>4. x \in T
    BY <2>3
  <2>5. g[T] = w[x] + g[T \ {x}]
    BY <1>1, <2>2, <2>3 DEF Step
  <2>. HIDE DEF x
  <2>6. T \ {x} \in SUBSET S /\ T \in SUBSET U
    BY <2>2
  <2>7. G[T] = w[x] + G[T \ {x}]
    BY <2>4, <2>6 DEF Additive
  <2>8. g[T \ {x}] = G[T \ {x}]
    BY <2>2, <2>4, <2>6, SMTT(60)
  <2>. QED
    BY <2>2, <2>5, <2>7, <2>8
<1>3. SumOf(w, S) = g[S]
  BY SumOfUnfold DEF g
<1>. QED
  BY <1>2, <1>3

(* The sum of no weights is 0, and that of some is the weight of any of    *)
(* them and the sum of the others.                                         *)
LEMMA SumOfFacts ==
    ASSUME NEW U, IsFiniteSet(U), NEW w, \A x \in U : w[x] \in Int
    PROVE  /\ SumOf(w, {}) = 0
           /\ \A S \in SUBSET U : SumOf(w, S) \in Int
           /\ \A S \in SUBSET U : \A x \in S : SumOf(w, S) = w[x] + SumOf(w, S \ {x})
<1>1. PICK G : Additive(w, U, G)
  BY AdditiveExists
<1>2. \A S \in SUBSET U : SumOf(w, S) = G[S]
  BY <1>1, SumOfAdditive, SMTT(60)
<1>3. \A S \in SUBSET U : \A x : S \ {x} \in SUBSET U
  OBVIOUS
<1>. QED
  BY <1>1, <1>2, <1>3 DEF Additive

(* The sum over no members is 0.                                           *)
LEMMA SumOfEmpty == \A w : SumOf(w, {}) = 0
<1>. TAKE w
<1>1. \A x \in {} : w[x] \in Int
  OBVIOUS
<1>. QED
  BY ONLY <1>1, FS_EmptySet, SumOfFacts, SMTT(60)

(* A sum is one weight and the sum of the others.                          *)
LEMMA SumOfRemove ==
    ASSUME NEW S, IsFiniteSet(S), NEW w, \A x \in S : w[x] \in Int, NEW i \in S
    PROVE  /\ SumOf(w, S) \in Int
           /\ SumOf(w, S \ {i}) \in Int
           /\ SumOf(w, S) = w[i] + SumOf(w, S \ {i})
BY SumOfFacts, SMTT(60)

(* Non-negative weights have a non-negative sum.                           *)
LEMMA SumOfNat ==
    ASSUME NEW S, IsFiniteSet(S), NEW w, \A x \in S : w[x] \in Nat
    PROVE  SumOf(w, S) \in Nat
<1>. DEFINE Bad == {T \in SUBSET S : SumOf(w, T) \notin Nat}
<1>. SUFFICES ASSUME Bad # {} PROVE FALSE
  OBVIOUS
<1>0. /\ SumOf(w, {}) = 0
      /\ \A T \in SUBSET S : \A x \in T : SumOf(w, T) = w[x] + SumOf(w, T \ {x})
  BY SumOfFacts, SMTT(60)
<1>1. PICK T \in Bad : \A V \in Bad : V \subseteq T => V = T
  <2>1. Bad \in SUBSET (SUBSET S)
    OBVIOUS
  <2>. HIDE DEF Bad
  <2>. QED
    BY <2>1, MinimalSubset, SMTT(60)
<1>2. T # {}
  <2>1. 0 \in Nat
    OBVIOUS
  <2>. QED
    BY <1>0, <1>1, <2>1
<1>3. PICK x \in T : TRUE
  BY <1>2
<1>4. SumOf(w, T \ {x}) \in Nat
  BY <1>1, <1>3, SMTT(60)
<1>5. SumOf(w, T) = w[x] + SumOf(w, T \ {x})
  BY <1>0, <1>1, <1>3
<1>6. w[x] \in Nat
  BY <1>1, <1>3
<1>7. SumOf(w, T) \in Nat
  BY <1>4, <1>5, <1>6, SMTT(60)
<1>. QED
  BY <1>1, <1>7

(* Sums of disjoint sets add up.                                           *)
LEMMA SumOfDisjoint ==
    ASSUME NEW U, IsFiniteSet(U), NEW w, \A x \in U : w[x] \in Int,
           NEW S \in SUBSET U, NEW T \in SUBSET U, S \cap T = {}
    PROVE  SumOf(w, S \cup T) = SumOf(w, S) + SumOf(w, T)
<1>. DEFINE Bad == {V \in SUBSET T : SumOf(w, S \cup V) # SumOf(w, S) + SumOf(w, V)}
<1>. SUFFICES ASSUME Bad # {} PROVE FALSE
  OBVIOUS
<1>0. /\ SumOf(w, {}) = 0
      /\ \A V \in SUBSET U : SumOf(w, V) \in Int
      /\ \A V \in SUBSET U : \A x \in V : SumOf(w, V) = w[x] + SumOf(w, V \ {x})
  BY SumOfFacts, SMTT(60)
<1>1. PICK V \in Bad : \A W \in Bad : W \subseteq V => W = V
  <2>1. Bad \in SUBSET (SUBSET T)
    OBVIOUS
  <2>2. IsFiniteSet(T)
    BY FS_Subset
  <2>. HIDE DEF Bad
  <2>. QED
    BY <2>1, <2>2, MinimalSubset, SMTT(60)
<1>2. V # {}
  <2>1. S \cup {} = S /\ SumOf(w, S) + 0 = SumOf(w, S)
    BY <1>0, SMTT(60)
  <2>. QED
    BY <1>0, <1>1, <2>1
<1>3. PICK x \in V : TRUE
  BY <1>2
<1>4. SumOf(w, S \cup (V \ {x})) = SumOf(w, S) + SumOf(w, V \ {x})
  BY <1>1, <1>3, SMTT(60)
<1>5. S \cup V \in SUBSET U /\ V \in SUBSET U /\ V \ {x} \in SUBSET U
  BY <1>1
<1>6. (S \cup V) \ {x} = S \cup (V \ {x})
  BY <1>1, <1>3
<1>7. SumOf(w, S \cup V) = w[x] + SumOf(w, S \cup (V \ {x}))
  <2>1. x \in S \cup V
    BY <1>3
  <2>2. SumOf(w, S \cup V) = w[x] + SumOf(w, (S \cup V) \ {x})
    BY ONLY <1>0, <1>5, <2>1, SMTT(60)
  <2>. QED
    BY <1>6, <2>2
<1>8. SumOf(w, V) = w[x] + SumOf(w, V \ {x})
  BY <1>0, <1>3, <1>5
<1>9. w[x] \in Int /\ SumOf(w, S) \in Int /\ SumOf(w, V \ {x}) \in Int
  BY <1>0, <1>3, <1>5
<1>10. SumOf(w, S \cup V) = SumOf(w, S) + SumOf(w, V)
  BY <1>4, <1>7, <1>8, <1>9, SMTT(60)
<1>. QED
  BY <1>1, <1>10

(* A part of non-negative weights sums up to no more than the whole.       *)
LEMMA SumOfMonotone ==
    ASSUME NEW T, IsFiniteSet(T), NEW w, \A x \in T : w[x] \in Nat, NEW S \in SUBSET T
    PROVE  SumOf(w, S) <= SumOf(w, T)
<1>1. T \ S \in SUBSET T /\ S \cap (T \ S) = {} /\ S \cup (T \ S) = T
  OBVIOUS
<1>2. SumOf(w, T) = SumOf(w, S) + SumOf(w, T \ S)
  <2>1. \A x \in T : w[x] \in Int
    BY SMTT(60)
  <2>. QED
    BY <1>1, <2>1, SumOfDisjoint, SMTT(60)
<1>3. IsFiniteSet(S) /\ IsFiniteSet(T \ S)
  BY <1>1, FS_Subset
<1>4. SumOf(w, S) \in Nat /\ SumOf(w, T \ S) \in Nat
  BY <1>3, SumOfNat
<1>. QED
  BY <1>2, <1>4, SMTT(60)

(* A non-empty finite set of naturals has a greatest element.              *)
LEMMA GreatestNatural ==
    ASSUME NEW S, S \subseteq Nat, IsFiniteSet(S), S # {}
    PROVE  \E x \in S : \A y \in S : y <= x
<1>. DEFINE Bad == {T \in SUBSET S : T # {} /\ ~ \E x \in T : \A y \in T : y <= x}
<1>. SUFFICES ASSUME Bad # {} PROVE FALSE
  OBVIOUS
<1>1. PICK T \in Bad : \A V \in Bad : V \subseteq T => V = T
  <2>1. Bad \in SUBSET (SUBSET S)
    OBVIOUS
  <2>. HIDE DEF Bad
  <2>. QED
    BY ONLY IsFiniteSet(S), Bad # {}, <2>1, MinimalSubset, SMTT(60)
<1>2. PICK x \in T : TRUE
  BY <1>1
<1>3. T \subseteq Nat
  BY <1>1
<1>4. CASE T \ {x} = {}
  BY <1>1, <1>2, <1>3, <1>4, SMTT(60)
<1>5. CASE T \ {x} # {}
  <2>1. PICK m \in T \ {x} : \A y \in T \ {x} : y <= m
    <3>1. T \ {x} \in SUBSET S /\ T \ {x} \subseteq T /\ T \ {x} # T
      BY <1>1, <1>2
    <3>2. T \ {x} \notin Bad
      BY <1>1, <3>1
    <3>. QED
      BY <1>5, <3>1, <3>2
  <2>2. CASE x <= m
    BY <1>1, <1>3, <2>1, <2>2
  <2>3. CASE m < x
    BY <1>1, <1>2, <1>3, <2>1, <2>3, SMTT(60)
  <2>. QED
    BY <1>2, <1>3, <2>1, <2>2, <2>3, SMTT(60)
<1>. QED
  BY <1>4, <1>5

(* The sum depends on the weights of the members only.                     *)
LEMMA SumOfSame ==
    ASSUME NEW S, IsFiniteSet(S), NEW v, NEW w,
           \A x \in S : v[x] \in Int /\ v[x] = w[x]
    PROVE  SumOf(v, S) = SumOf(w, S)
<1>. DEFINE Bad == {T \in SUBSET S : SumOf(v, T) # SumOf(w, T)}
<1>. SUFFICES ASSUME Bad # {} PROVE FALSE
  OBVIOUS
<1>1. PICK T \in Bad : \A V \in Bad : V \subseteq T => V = T
  <2>1. Bad \in SUBSET (SUBSET S)
    OBVIOUS
  <2>. HIDE DEF Bad
  <2>. QED
    BY ONLY IsFiniteSet(S), Bad # {}, <2>1, MinimalSubset, SMTT(60)
<1>2. T # {}
  BY <1>1, SumOfEmpty
<1>3. PICK x \in T : TRUE
  BY <1>2
<1>4. IsFiniteSet(T)
  BY <1>1, FS_Subset
<1>5. \A y \in T : v[y] \in Int /\ w[y] \in Int
  BY <1>1
<1>6. SumOf(v, T) = v[x] + SumOf(v, T \ {x})
  BY <1>4, <1>5, SumOfRemove
<1>7. SumOf(w, T) = w[x] + SumOf(w, T \ {x})
  BY <1>4, <1>5, SumOfRemove
<1>8. SumOf(v, T \ {x}) = SumOf(w, T \ {x})
  BY <1>1, SMTT(60)
<1>. QED
  BY <1>1, <1>6, <1>7, <1>8

(* The members of X that f takes to v.                                     *)
Preimage(X, f, v) == {x \in X : f[x] = v}

(* The members of X that f takes to one of the values o has on S.          *)
Fibre(X, f, o, S) == {x \in X : \E i \in S : f[x] = o[i]}

(* Counting the members of a set value by value counts each of them once.  *)
LEMMA SumOfFibres ==
    ASSUME NEW X, IsFiniteSet(X), NEW f, NEW o, NEW w, NEW S, IsFiniteSet(S),
           \A i, j \in S : i # j => o[i] # o[j],
           \A i \in S : w[i] = Cardinality(Preimage(X, f, o[i]))
    PROVE  SumOf(w, S) = Cardinality(Fibre(X, f, o, S))
<1>. DEFINE Bad == {T \in SUBSET S : SumOf(w, T) # Cardinality(Fibre(X, f, o, T))}
<1>. SUFFICES ASSUME Bad # {} PROVE FALSE
  OBVIOUS
<1>1. PICK T \in Bad : \A V \in Bad : V \subseteq T => V = T
  <2>1. Bad \in SUBSET (SUBSET S)
    OBVIOUS
  <2>. HIDE DEF Bad
  <2>. QED
    BY ONLY IsFiniteSet(S), Bad # {}, <2>1, MinimalSubset, SMTT(60)
<1>2. T # {}
  <2>1. Fibre(X, f, o, {}) = {}
    BY DEF Fibre
  <2>. QED
    BY <1>1, <2>1, SumOfEmpty, FS_EmptySet
<1>3. PICK i \in T : TRUE
  BY <1>2
<1>. DEFINE One == Preimage(X, f, o[i])
            Rest == Fibre(X, f, o, T \ {i})
<1>4. IsFiniteSet(T) /\ IsFiniteSet(One) /\ IsFiniteSet(Rest)
  <2>1. One \subseteq X /\ Rest \subseteq X
    BY DEF Fibre, Preimage
  <2>. QED
    BY <1>1, <2>1, FS_Subset
<1>5. \A j \in T : w[j] \in Int
  <2>. TAKE j \in T
  <2>1. IsFiniteSet(Preimage(X, f, o[j]))
    BY FS_Subset DEF Preimage
  <2>2. Cardinality(Preimage(X, f, o[j])) \in Nat
    BY <2>1, FS_CardinalityType
  <2>3. w[j] = Cardinality(Preimage(X, f, o[j]))
    BY <1>1
  <2>4. w[j] \in Nat
    BY <2>2, <2>3
  <2>. QED
    BY <2>4, SMTT(60)
<1>6. SumOf(w, T) = w[i] + SumOf(w, T \ {i})
  BY <1>4, <1>5, SumOfRemove
<1>7. SumOf(w, T \ {i}) = Cardinality(Rest)
  BY <1>1, SMTT(60)
<1>8. Fibre(X, f, o, T) = One \cup Rest /\ One \cap Rest = {}
  BY <1>1, SMTT(60) DEF Fibre, Preimage
<1>9. w[i] = Cardinality(One)
  BY <1>1
<1>. HIDE DEF One, Rest
<1>10. /\ Cardinality(One \cup Rest) = Cardinality(One) + Cardinality(Rest) - Cardinality(One \cap Rest)
       /\ Cardinality(One) \in Nat /\ Cardinality(Rest) \in Nat
  BY <1>4, FS_Union, FS_CardinalityType
<1>11. Cardinality(Fibre(X, f, o, T)) = Cardinality(One) + Cardinality(Rest)
  <2>1. Cardinality(One \cap Rest) = 0 /\ Cardinality(Fibre(X, f, o, T)) = Cardinality(One \cup Rest)
    BY <1>8, FS_EmptySet
  <2>. QED
    BY <1>10, <2>1, SMTT(60)
<1>. QED
  BY <1>1, <1>6, <1>7, <1>9, <1>11

=============================================================================
