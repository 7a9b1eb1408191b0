----------------------------- MODULE SetLemmas -----------------------------
(***************************************************************************)
(* Facts about finite sets that the proofs of several components rest on:  *)
(* induction on the subsets of a set, the sums of FiniteSetsExt and        *)
(* Functions, the largest and the least member, the places of the members  *)
(* in a strict order.  They mention no component.                          *)
(***************************************************************************)
EXTENDS Integers, Sequences, FiniteSetsExt, Functions,
        FiniteSetTheorems, WellFoundedInduction, TLAPS

(* A set of naturals has a least element.                                  *)
LEMMA LeastOf ==
  ASSUME NEW T \in SUBSET Nat, T # {}
  PROVE  \E x \in T : \A y \in T : x <= y
<1> DEFINE R == OpToRel(<, Nat)
<1>1. IsWellFoundedOn(R, Nat)
  BY NatLessThanWellFounded
<1>2. \A a, b \in Nat : a < b => <<a, b>> \in R
  BY DEF OpToRel
<1> HIDE DEF R
<1>3. PICK x \in T : \A y \in T : <<y, x>> \notin R
  BY <1>1, WFMin
<1>4. \A y \in T : ~(y < x)
  BY <1>2, <1>3
<1> QED BY <1>3, <1>4

(* Induction on the subsets of a finite set, P being the set of those that   *)
(* have the property.                                                        *)
LEMMA SubsetInduction ==
  ASSUME NEW T, IsFiniteSet(T), NEW P, {} \in P,
         \A s \in SUBSET T : \A x \in T \ s : s \in P => s \cup {x} \in P
  PROVE  T \in P
<1> DEFINE Bad == {s \in SUBSET T : s \notin P}
           Sizes == {Cardinality(s) : s \in Bad}
<1>1. \A s \in SUBSET T : IsFiniteSet(s) /\ Cardinality(s) \in Nat
  BY FS_Subset, FS_CardinalityType
<1>2. ASSUME Bad # {} PROVE FALSE
  <2>1. Sizes \in SUBSET Nat /\ Sizes # {}
    BY <1>1, <1>2
  <2> HIDE DEF Sizes
  <2>2. PICK n \in Sizes : \A m \in Sizes : n <= m
    BY <2>1, LeastOf
  <2>3. PICK s \in Bad : n = Cardinality(s)
    BY <2>2 DEF Sizes
  <2>4. PICK x \in s : TRUE
    BY <2>3
  <2>5. s \ {x} \in SUBSET T /\ IsFiniteSet(s) /\ s = (s \ {x}) \cup {x}
    BY <1>1, <2>3
  <2>6. Cardinality(s \ {x}) = Cardinality(s) - 1 /\ Cardinality(s) \in Nat
    BY <1>1, <2>3, <2>4, FS_RemoveElement
  <2>7. s \ {x} \in P
    <3>1. CASE s \ {x} \in Bad
      <4>1. Cardinality(s \ {x}) \in Sizes
        BY <3>1 DEF Sizes
      <4> QED BY <2>2, <2>3, <2>6, <4>1
    <3> QED BY <2>5, <3>1
  <2>8. x \in T \ (s \ {x})
    BY <2>3, <2>4
  <2> QED BY <2>3, <2>5, <2>7, <2>8
<1> QED BY <1>2

-----------------------------------------------------------------------------
(* The recursion of the folds over a set: one element, the chosen one, after *)
(* the other.                                                                *)
Chosen(s) == CHOOSE x \in s : TRUE
Recursion(it, T, base, G) ==
  \A s \in SUBSET T :
     it[s] = IF s = {} THEN base ELSE G[<<Chosen(s), it[s \ {Chosen(s)}]>>]

(* The chosen element is one of the set.                                   *)
LEMMA ChosenIn == \A s : s # {} => Chosen(s) \in s
BY DEF Chosen

(* A recursion over the subsets of a finite set has a solution.            *)
LEMMA FoldExists ==
  ASSUME NEW T, IsFiniteSet(T), NEW V, NEW base \in V, NEW G \in [T \X V -> V]
  PROVE  \E it \in [SUBSET T -> V] : Recursion(it, T, base, G)
<1> DEFINE D(n) == {s \in SUBSET T : Cardinality(s) <= n}
           Step(it, s) == IF s = {} THEN base ELSE G[<<Chosen(s), it[s \ {Chosen(s)}]>>]
           Good(n) == {it \in [D(n) -> V] : \A s \in D(n) : it[s] = Step(it, s)}
           Bad == {n \in Nat : Good(n) = {}}
<1>1. \A s \in SUBSET T : IsFiniteSet(s) /\ Cardinality(s) \in Nat
  BY FS_Subset, FS_CardinalityType
<1>2. \A s \in SUBSET T : s # {} =>
         /\ Chosen(s) \in s /\ s \ {Chosen(s)} \in SUBSET T
         /\ Cardinality(s \ {Chosen(s)}) = Cardinality(s) - 1
  <2> SUFFICES ASSUME NEW s \in SUBSET T, s # {}
               PROVE  /\ Chosen(s) \in s /\ s \ {Chosen(s)} \in SUBSET T
                      /\ Cardinality(s \ {Chosen(s)}) = Cardinality(s) - 1
    OBVIOUS
  <2>1. Chosen(s) \in s
    BY ChosenIn
  <2> QED BY <1>1, <2>1, FS_RemoveElement
<1>3. ASSUME Bad # {} PROVE FALSE
  <2>1. Bad \in SUBSET Nat
    OBVIOUS
  <2> HIDE DEF Bad
  <2>2. PICK n \in Bad : \A m \in Bad : n <= m
    BY <1>3, <2>1, LeastOf
  <2>3. n \in Nat /\ Good(n) = {}
    BY <2>2 DEF Bad
  <2>4. CASE n = 0
    <3>1. \A s \in D(0) : s = {}
      <4> SUFFICES ASSUME NEW s \in SUBSET T, Cardinality(s) <= 0 PROVE s = {}
        OBVIOUS
      <4>1. IsFiniteSet(s) /\ Cardinality(s) = 0
        BY <1>1
      <4> QED BY <4>1, FS_EmptySet
    <3>2. [s \in D(0) |-> base] \in Good(0)
      BY <3>1
    <3> QED BY <2>3, <2>4, <3>2
  <2>5. CASE n # 0
    <3>1. n - 1 \in Nat /\ n - 1 \notin Bad
      BY <2>2, <2>3, <2>5
    <3>2. PICK g \in Good(n - 1) : TRUE
      BY <3>1 DEF Bad
    <3>3. g \in [D(n - 1) -> V] /\ \A s \in D(n - 1) : g[s] = Step(g, s)
      BY <3>2
    <3> DEFINE h == [s \in D(n) |-> Step(g, s)]
    <3>4. \A s \in D(n) : s # {} => s \ {Chosen(s)} \in D(n - 1)
      BY <1>1, <1>2, <2>3, <3>1
    <3>5. h \in [D(n) -> V]
      <4> SUFFICES ASSUME NEW s \in D(n) PROVE Step(g, s) \in V
        OBVIOUS
      <4>1. CASE s = {}
        BY <4>1
      <4>2. CASE s # {}
        <5>1. <<Chosen(s), g[s \ {Chosen(s)}]>> \in T \X V
          BY <1>2, <3>3, <3>4, <4>2
        <5> QED BY <4>2, <5>1
      <4> QED BY <4>1, <4>2
    <3>6. \A s \in D(n - 1) : s \in D(n) /\ h[s] = g[s]
      BY <1>1, <2>3, <3>3
    <3>7. \A s \in D(n) : h[s] = Step(h, s)
      <4> SUFFICES ASSUME NEW s \in D(n) PROVE h[s] = Step(h, s)
        OBVIOUS
      <4>1. h[s] = Step(g, s)
        OBVIOUS
      <4>2. s # {} => h[s \ {Chosen(s)}] = g[s \ {Chosen(s)}]
        BY <3>4, <3>6
      <4> HIDE DEF h
      <4> QED BY <4>1, <4>2
    <3> HIDE DEF h
    <3>8. h \in Good(n)
      BY <3>5, <3>7
    <3> QED BY <2>3, <3>8
  <2> QED BY <2>4, <2>5
<1>4. Cardinality(T) \in Nat /\ Good(Cardinality(T)) # {}
  BY <1>1, <1>3
<1>5. D(Cardinality(T)) = SUBSET T
  <2> SUFFICES ASSUME NEW s \in SUBSET T PROVE Cardinality(s) <= Cardinality(T)
    OBVIOUS
  <2> QED BY FS_Subset
<1>6. PICK it \in Good(Cardinality(T)) : TRUE
  BY <1>4
<1>7. it \in [SUBSET T -> V] /\ \A s \in SUBSET T : it[s] = Step(it, s)
  BY <1>5, <1>6
<1>8. Recursion(it, T, base, G)
  BY <1>7 DEF Recursion
<1> QED BY <1>7, <1>8

(* What a sum is computed by.                                                *)
IsFold(it, f, T) ==
  it = [s \in SUBSET T |-> IF s = {} THEN 0 ELSE f[Chosen(s)] + it[s \ {Chosen(s)}]]
TheFold(f, T) == CHOOSE it : IsFold(it, f, T)

(* Expanding FoldFunctionOnSet: the sum is the last value of such a        *)
(* solution.                                                               *)
LEMMA SumIsFold ==
  ASSUME NEW f, NEW T
  PROVE  SumFunctionOnSet(f, T) = TheFold(f, T)[T]
BY DEF SumFunctionOnSet, FoldFunctionOnSet, MapThenFoldSet, TheFold, IsFold, Chosen

LEMMA SumFoldExists ==
  ASSUME NEW T, IsFiniteSet(T), NEW f, \A x \in T : f[x] \in Int
  PROVE  \E it : IsFold(it, f, T)
<1> DEFINE G == [z \in T \X Int |-> f[z[1]] + z[2]]
<1>1. G \in [T \X Int -> Int]
  OBVIOUS
<1>2. \A x \in T : \A v \in Int : G[<<x, v>>] = f[x] + v
  OBVIOUS
<1> HIDE DEF G
<1>5. PICK zero : zero = 0 /\ zero \in Int
  OBVIOUS
<1>6. PICK V : V = Int
  OBVIOUS
<1>3. PICK it \in [SUBSET T -> Int] : Recursion(it, T, zero, G)
  <2>1. zero \in V /\ G \in [T \X V -> V]
    BY <1>1, <1>5, <1>6
  <2>2. \E it \in [SUBSET T -> V] : Recursion(it, T, zero, G)
    BY <2>1, FoldExists
  <2> QED BY <1>6, <2>2
<1>4. ASSUME NEW s \in SUBSET T
      PROVE  it[s] = IF s = {} THEN 0 ELSE f[Chosen(s)] + it[s \ {Chosen(s)}]
  <2>1. s # {} => Chosen(s) \in T /\ it[s \ {Chosen(s)}] \in Int
    <3>1. s \ {Chosen(s)} \in SUBSET T
      OBVIOUS
    <3> QED BY <3>1, ChosenIn
  <2> QED BY <1>2, <1>3, <1>5, <2>1 DEF Recursion
<1> QED BY <1>3, <1>4 DEF IsFold

(* The order in which the elements are chosen does not matter: any one can *)
(* be taken first.                                                         *)
LEMMA IsFoldFacts ==
  ASSUME NEW T, IsFiniteSet(T), NEW f, \A x \in T : f[x] \in Int, NEW it, IsFold(it, f, T)
  PROVE  /\ it[{}] = 0
         /\ \A s \in SUBSET T : it[s] \in Int
         /\ \A s \in SUBSET T : \A x \in s : it[s] = f[x] + it[s \ {x}]
<1>1. it[{}] = 0
  BY DEF IsFold
<1>2. \A s \in SUBSET T : s # {} => it[s] = f[Chosen(s)] + it[s \ {Chosen(s)}]
  BY DEF IsFold
<1>3. \A s \in SUBSET T : s # {} => Chosen(s) \in s
  BY ChosenIn
<1> DEFINE Fine(s) == /\ \A r \in SUBSET s : it[r] \in Int
                      /\ \A r \in SUBSET s : \A x \in r : it[r] = f[x] + it[r \ {x}]
           P == {s \in SUBSET T : Fine(s)}
           Sizes == {n \in Nat : \E s \in SUBSET T : Cardinality(s) = n /\ ~Fine(s)}
<1>4. \A s \in SUBSET T : IsFiniteSet(s) /\ Cardinality(s) \in Nat
  BY FS_Subset, FS_CardinalityType
<1>5. ASSUME Sizes # {} PROVE FALSE
  <2>1. Sizes \in SUBSET Nat
    OBVIOUS
  <2> HIDE DEF Sizes
  <2>2. PICK n \in Sizes : \A m \in Sizes : n <= m
    BY <1>5, <2>1, LeastOf
  <2>3. PICK s \in SUBSET T : Cardinality(s) = n /\ ~Fine(s)
    BY <2>2 DEF Sizes
  <2>4. ASSUME NEW r \in SUBSET s, r # s PROVE Fine(r)
    <3>1. Cardinality(r) < Cardinality(s)
      BY <1>4, <2>3, <2>4, FS_Subset
    <3>2. Cardinality(r) \in Nat /\ Cardinality(r) \notin Sizes
      BY <1>4, <2>2, <2>3, <3>1
    <3> QED BY <3>2 DEF Sizes
  <2>5. s # {}
    <3>1. \A r \in SUBSET {} : it[r] = 0 /\ ~\E x \in r : TRUE
      <4>1. \A r \in SUBSET {} : r = {}
        OBVIOUS
      <4> QED BY <1>1, <4>1
    <3>2. Fine({})
      BY <3>1
    <3> QED BY <2>3, <3>2
  <2> DEFINE c == Chosen(s)
  <2>6. c \in s /\ it[s] = f[c] + it[s \ {c}] /\ f[c] \in Int
    BY <1>2, <1>3, <2>5
  <2> HIDE DEF c
  <2>7. \A x \in s : Fine(s \ {x}) /\ it[s \ {x}] \in Int
    <3> SUFFICES ASSUME NEW x \in s PROVE Fine(s \ {x}) /\ it[s \ {x}] \in Int
      OBVIOUS
    <3>1. Fine(s \ {x})
      BY <2>4
    <3> QED BY <3>1
  <2>8. it[s] \in Int
    BY <2>6, <2>7
  <2>9. ASSUME NEW x \in s PROVE it[s] = f[x] + it[s \ {x}]
    <3>1. CASE x = c
      BY <2>6, <3>1
    <3>2. CASE x # c
      <4>1. it[s \ {c}] = f[x] + it[(s \ {c}) \ {x}]
        BY <2>6, <2>7, <3>2
      <4>2. it[s \ {x}] = f[c] + it[(s \ {x}) \ {c}]
        BY <2>6, <2>7, <3>2
      <4>3. (s \ {c}) \ {x} = (s \ {x}) \ {c}
        OBVIOUS
      <4>4. it[(s \ {x}) \ {c}] \in Int
        <5>1. (s \ {x}) \ {c} \in SUBSET (s \ {x})
          OBVIOUS
        <5> QED BY <2>7, <5>1
      <4>5. f[x] \in Int /\ f[c] \in Int
        BY <2>6
      <4>6. \A i, j, k \in Int : i + (j + k) = j + (i + k)
        OBVIOUS
      <4>7. f[c] + (f[x] + it[(s \ {x}) \ {c}]) = f[x] + (f[c] + it[(s \ {x}) \ {c}])
        BY <4>4, <4>5, <4>6
      <4> QED BY <2>6, <4>1, <4>2, <4>3, <4>7, Zenon
    <3> QED BY <3>1, <3>2
  <2>10. Fine(s)
    <3>1. \A r \in SUBSET s : it[r] \in Int /\ \A x \in r : it[r] = f[x] + it[r \ {x}]
      <4> SUFFICES ASSUME NEW r \in SUBSET s
                   PROVE  it[r] \in Int /\ \A x \in r : it[r] = f[x] + it[r \ {x}]
        OBVIOUS
      <4>1. CASE r = s
        BY <2>8, <2>9, <4>1
      <4>2. CASE r # s
        BY <2>4, <4>2
      <4> QED BY <4>1, <4>2
    <3> QED BY <3>1
  <2> QED BY <2>3, <2>10
<1>6. Cardinality(T) \in Nat /\ T \in SUBSET T
  BY <1>4
<1>7. Fine(T)
  BY <1>5, <1>6
<1> QED BY <1>1, <1>7

LEMMA TheFoldFacts ==
  ASSUME NEW T, IsFiniteSet(T), NEW f, \A x \in T : f[x] \in Int
  PROVE  /\ TheFold(f, T)[{}] = 0
         /\ \A s \in SUBSET T : TheFold(f, T)[s] \in Int
         /\ \A s \in SUBSET T : \A x \in s :
               TheFold(f, T)[s] = f[x] + TheFold(f, T)[s \ {x}]
<1>1. \E it : IsFold(it, f, T)
  BY SumFoldExists
<1>2. IsFold(TheFold(f, T), f, T)
  BY <1>1 DEF TheFold
<1> QED BY <1>2, IsFoldFacts

(* Two folds of functions that agree on s agree on s.                        *)
LEMMA FoldsAgree ==
  ASSUME NEW T, IsFiniteSet(T), NEW f, \A x \in T : f[x] \in Int,
         NEW R, IsFiniteSet(R), NEW g, \A x \in R : g[x] \in Int,
         NEW S, S \subseteq T, S \subseteq R, \A x \in S : f[x] = g[x]
  PROVE  TheFold(f, T)[S] = TheFold(g, R)[S]
<1> DEFINE P == {s \in SUBSET S : TheFold(f, T)[s] = TheFold(g, R)[s]}
<1>1. IsFiniteSet(S)
  BY FS_Subset
<1>2. {} \in P
  BY TheFoldFacts
<1>3. ASSUME NEW s \in SUBSET S, NEW x \in S \ s, s \in P
      PROVE  s \cup {x} \in P
  <2>1. (s \cup {x}) \ {x} = s /\ x \in s \cup {x} /\ s \cup {x} \in SUBSET S
    BY <1>3
  <2>2. /\ TheFold(f, T)[s \cup {x}] = f[x] + TheFold(f, T)[s]
        /\ TheFold(g, R)[s \cup {x}] = g[x] + TheFold(g, R)[s]
    <3>1. s \cup {x} \in SUBSET T /\ s \cup {x} \in SUBSET R
      BY <2>1
    <3> QED BY <2>1, <3>1, TheFoldFacts
  <2> QED BY <1>3, <2>1, <2>2
<1> HIDE DEF P
<1>4. S \in P
  BY <1>1, <1>2, <1>3, SubsetInduction
<1> QED BY <1>4 DEF P

-----------------------------------------------------------------------------
(* Sums: of nothing, of one element more, of equal terms.                    *)
Sum(f, S) == SumFunctionOnSet(f, S)

LEMMA SumEmpty ==
  ASSUME NEW f
  PROVE  Sum(f, {}) = 0
<1>1. IsFiniteSet({})
  BY FS_EmptySet
<1> QED BY <1>1, SumIsFold, TheFoldFacts DEF Sum

LEMMA SumAdd ==
  ASSUME NEW S, IsFiniteSet(S), NEW x, x \notin S, NEW f,
         \A y \in S \cup {x} : f[y] \in Int
  PROVE  Sum(f, S \cup {x}) = f[x] + Sum(f, S)
<1> DEFINE T == S \cup {x}
<1>1. IsFiniteSet(T)
  BY FS_AddElement
<1>2. T \in SUBSET T /\ x \in T /\ T \ {x} = S /\ S \subseteq T
  OBVIOUS
<1> HIDE DEF T
<1>3. \A y \in T : f[y] \in Int
  BY DEF T
<1>4. TheFold(f, T)[T] = f[x] + TheFold(f, T)[S]
  BY <1>1, <1>2, <1>3, TheFoldFacts
<1>5. TheFold(f, T)[S] = TheFold(f, S)[S]
  BY <1>1, <1>2, <1>3, FoldsAgree
<1>6. Sum(f, T) = f[x] + Sum(f, S)
  BY <1>4, <1>5, SumIsFold DEF Sum
<1> QED BY <1>6 DEF T

LEMMA SumType ==
  ASSUME NEW S, IsFiniteSet(S), NEW f, \A x \in S : f[x] \in Int
  PROVE  Sum(f, S) \in Int
BY SumIsFold, TheFoldFacts DEF Sum

LEMMA SumSame ==
  ASSUME NEW S, IsFiniteSet(S), NEW f, \A x \in S : f[x] \in Int,
         NEW g, \A x \in S : f[x] = g[x]
  PROVE  Sum(f, S) = Sum(g, S)
BY SumIsFold, FoldsAgree DEF Sum

LEMMA SumNat ==
  ASSUME NEW S, IsFiniteSet(S), NEW f, \A x \in S : f[x] \in Nat
  PROVE  Sum(f, S) \in Nat
<1> DEFINE P == {s \in SUBSET S : Sum(f, s) \in Nat}
<1>1. {} \in P
  BY SumEmpty
<1>2. ASSUME NEW s \in SUBSET S, NEW x \in S \ s, s \in P
      PROVE  s \cup {x} \in P
  <2>1. IsFiniteSet(s) /\ x \notin s /\ \A y \in s \cup {x} : f[y] \in Int
    BY FS_Subset
  <2>2. Sum(f, s \cup {x}) = f[x] + Sum(f, s)
    BY <2>1, SumAdd
  <2> QED BY <1>2, <2>2
<1> HIDE DEF P
<1>3. S \in P
  BY <1>1, <1>2, SubsetInduction
<1> QED BY <1>3 DEF P

LEMMA SumDisjoint ==
  ASSUME NEW S, IsFiniteSet(S), NEW R, IsFiniteSet(R), S \cap R = {},
         NEW f, \A x \in S \cup R : f[x] \in Int
  PROVE  Sum(f, S \cup R) = Sum(f, S) + Sum(f, R)
<1> DEFINE P == {r \in SUBSET R : Sum(f, S \cup r) = Sum(f, S) + Sum(f, r)}
<1>1. {} \in P
  BY SumEmpty, SumType
<1>2. ASSUME NEW r \in SUBSET R, NEW x \in R \ r, r \in P
      PROVE  r \cup {x} \in P
  <2>1. /\ IsFiniteSet(r) /\ IsFiniteSet(S \cup r) /\ x \notin r /\ x \notin S \cup r
        /\ \A y \in (S \cup r) \cup {x} : f[y] \in Int
    BY FS_Subset, FS_Union
  <2>2. Sum(f, (S \cup r) \cup {x}) = f[x] + Sum(f, S \cup r)
    BY <2>1, SumAdd
  <2>3. Sum(f, r \cup {x}) = f[x] + Sum(f, r)
    BY <2>1, SumAdd
  <2>4. S \cup (r \cup {x}) = (S \cup r) \cup {x}
    OBVIOUS
  <2>5. Sum(f, S) \in Int /\ Sum(f, r) \in Int /\ f[x] \in Int
    BY <2>1, SumType
  <2>6. Sum(f, S \cup r) = Sum(f, S) + Sum(f, r)
    BY <1>2
  <2>7. f[x] + (Sum(f, S) + Sum(f, r)) = Sum(f, S) + (f[x] + Sum(f, r))
    <3>1. \A i, j, k \in Int : i + (j + k) = j + (i + k)
      OBVIOUS
    <3> QED BY <2>5, <3>1
  <2>8. Sum(f, S \cup (r \cup {x})) = Sum(f, S) + Sum(f, r \cup {x})
    BY <2>2, <2>3, <2>4, <2>6, <2>7, Zenon
  <2> QED BY <2>8
<1> HIDE DEF P
<1>3. R \in P
  BY <1>1, <1>2, SubsetInduction
<1> QED BY <1>3 DEF P

(* The sum over S is the sum, over the values of h, of the sums over the     *)
(* elements with each value.                                                 *)
Fiber(S, h, y) == {x \in S : h[x] = y}

LEMMA SumFibers ==
  ASSUME NEW S, IsFiniteSet(S), NEW f, \A x \in S : f[x] \in Int,
         NEW Y, IsFiniteSet(Y), NEW h, \A x \in S : h[x] \in Y,
         NEW F, \A y \in Y : F[y] = Sum(f, Fiber(S, h, y))
  PROVE  Sum(F, Y) = Sum(f, S)
<1> DEFINE Over(z) == {x \in S : h[x] \in z}
           P == {z \in SUBSET Y : Sum(F, z) = Sum(f, Over(z))}
<1>1. {} \in P
  <2>1. Over({}) = {}
    OBVIOUS
  <2> QED BY <2>1, SumEmpty
<1>2. ASSUME NEW z \in SUBSET Y, NEW y \in Y \ z, z \in P
      PROVE  z \cup {y} \in P
  <2> DEFINE At == Fiber(S, h, y)
  <2>1. Over(z \cup {y}) = Over(z) \cup At /\ Over(z) \cap At = {}
    BY DEF Fiber
  <2>2. IsFiniteSet(Over(z)) /\ IsFiniteSet(At) /\ IsFiniteSet(z)
    <3>1. At \subseteq S
      BY DEF Fiber
    <3> QED BY <3>1, FS_Subset
  <2>3. Sum(f, Over(z) \cup At) = Sum(f, Over(z)) + Sum(f, At)
    BY <2>1, <2>2, SumDisjoint
  <2>4. \A v \in z \cup {y} : F[v] \in Int
    <3> SUFFICES ASSUME NEW v \in Y PROVE F[v] \in Int
      BY <1>2
    <3>1. IsFiniteSet(Fiber(S, h, v)) /\ Fiber(S, h, v) \subseteq S
      <4>1. Fiber(S, h, v) \subseteq S
        BY DEF Fiber
      <4> QED BY <4>1, FS_Subset
    <3>2. Sum(f, Fiber(S, h, v)) \in Int
      BY <3>1, SumType
    <3> QED BY <3>2
  <2>5. Sum(F, z \cup {y}) = F[y] + Sum(F, z)
    BY <1>2, <2>2, <2>4, SumAdd
  <2>6. F[y] = Sum(f, At) /\ Sum(F, z) = Sum(f, Over(z))
    BY <1>2
  <2>7. Sum(f, At) \in Int /\ Sum(f, Over(z)) \in Int
    <3>1. \A x \in At : f[x] \in Int
      BY DEF Fiber
    <3> QED BY <2>2, <3>1, SumType
  <2> HIDE DEF Over, At
  <2>8. \A i, j \in Int : i + j = j + i
    OBVIOUS
  <2>9. Sum(F, z \cup {y}) = Sum(f, Over(z \cup {y}))
    BY <2>1, <2>3, <2>5, <2>6, <2>7, <2>8
  <2> QED BY <2>9
<1>3. Over(Y) = S
  OBVIOUS
<1> HIDE DEF P
<1>4. Y \in P
  BY <1>1, <1>2, SubsetInduction
<1> QED BY <1>3, <1>4 DEF P

LEMMA SumOne ==
  ASSUME NEW x, NEW f, f[x] \in Int
  PROVE  Sum(f, {x}) = f[x]
<1>1. IsFiniteSet({}) /\ x \notin {} /\ {x} = {} \cup {x}
  BY FS_EmptySet
<1>2. Sum(f, {} \cup {x}) = f[x] + Sum(f, {})
  BY <1>1, SumAdd
<1> QED BY <1>1, <1>2, SumEmpty

(* The terms may be taken in any order: b renames them.                      *)
LEMMA SumRenamed ==
  ASSUME NEW S, IsFiniteSet(S), NEW f, \A x \in S : f[x] \in Int,
         NEW R, IsFiniteSet(R), NEW g,
         NEW b, \A x \in S : b[x] \in R /\ g[b[x]] = f[x],
         \A x, y \in S : b[x] = b[y] => x = y,
         \A r \in R : \E x \in S : b[x] = r
  PROVE  Sum(g, R) = Sum(f, S)
<1>1. ASSUME NEW r \in R
      PROVE  g[r] = Sum(f, Fiber(S, b, r))
  <2>1. PICK x \in S : b[x] = r
    OBVIOUS
  <2>2. Fiber(S, b, r) = {x}
    BY <2>1 DEF Fiber
  <2>3. Sum(f, {x}) = f[x]
    BY SumOne
  <2> QED BY <2>1, <2>2, <2>3
<1>2. \A x \in S : b[x] \in R
  OBVIOUS
<1> QED BY <1>1, <1>2, SumFibers

-----------------------------------------------------------------------------
ImageOf(f, S) == {f[x] : x \in S}

(* The image of a finite set is finite.                                    *)
LEMMA ImageFinite ==
  ASSUME NEW S, IsFiniteSet(S), NEW f
  PROVE  IsFiniteSet(ImageOf(f, S))
<1> DEFINE P == {s \in SUBSET S : IsFiniteSet(ImageOf(f, s))}
<1>1. {} \in P
  <2>1. ImageOf(f, {}) = {}
    BY DEF ImageOf
  <2> QED BY <2>1, FS_EmptySet
<1>2. ASSUME NEW s \in SUBSET S, NEW y \in S \ s, s \in P
      PROVE  s \cup {y} \in P
  <2>1. ImageOf(f, s \cup {y}) = ImageOf(f, s) \cup {f[y]}
    BY DEF ImageOf
  <2>2. IsFiniteSet(ImageOf(f, s))
    BY <1>2
  <2>3. IsFiniteSet(ImageOf(f, s \cup {y}))
    <3>1. \A A, z : IsFiniteSet(A) => IsFiniteSet(A \cup {z})
      BY FS_AddElement
    <3>2. IsFiniteSet(ImageOf(f, s) \cup {f[y]})
      BY <2>2, <3>1
    <3> QED BY <2>1, <3>2
  <2> QED BY <2>3
<1> HIDE DEF P
<1>3. S \in P
  BY <1>1, <1>2, SubsetInduction
<1> QED BY <1>3 DEF P

(* ... and has as many members as S when f tells them apart.                 *)
LEMMA ImageCardinality ==
  ASSUME NEW S, IsFiniteSet(S), NEW f, \A x, y \in S : f[x] = f[y] => x = y
  PROVE  Cardinality(ImageOf(f, S)) = Cardinality(S)
<1> DEFINE P == {s \in SUBSET S : Cardinality(ImageOf(f, s)) = Cardinality(s)}
<1>1. {} \in P
  <2>1. ImageOf(f, {}) = {}
    BY DEF ImageOf
  <2> QED BY <2>1
<1>2. ASSUME NEW s \in SUBSET S, NEW y \in S \ s, s \in P
      PROVE  s \cup {y} \in P
  <2>1. ImageOf(f, s \cup {y}) = ImageOf(f, s) \cup {f[y]} /\ f[y] \notin ImageOf(f, s)
    BY DEF ImageOf
  <2>2. IsFiniteSet(s) /\ IsFiniteSet(ImageOf(f, s))
    BY FS_Subset, ImageFinite
  <2>3. Cardinality(s \cup {y}) = Cardinality(s) + 1
    BY <2>2, FS_AddElement
  <2>4. Cardinality(ImageOf(f, s) \cup {f[y]}) = Cardinality(ImageOf(f, s)) + 1
    BY <2>1, <2>2, FS_AddElement
  <2> QED BY <1>2, <2>1, <2>3, <2>4
<1> HIDE DEF P
<1>3. S \in P
  BY <1>1, <1>2, SubsetInduction
<1> QED BY <1>3 DEF P

(* The FiniteSetsExt extremes of a finite set of integers are what their   *)
(* names say.                                                              *)
LEMMA MaxIs ==
  ASSUME NEW S \in SUBSET Int, IsFiniteSet(S), S # {}
  PROVE  Max(S) \in S /\ \A x \in S : x <= Max(S)
<1> DEFINE P == {s \in SUBSET S : s # {} => \E x \in s : \A y \in s : x >= y}
<1>1. {} \in P
  OBVIOUS
<1>2. ASSUME NEW s \in SUBSET S, NEW z \in S \ s, s \in P
      PROVE  s \cup {z} \in P
  <2>1. CASE s = {}
    BY <2>1
  <2>2. CASE s # {}
    <3>1. PICK x \in s : \A y \in s : x >= y
      BY <1>2, <2>2
    <3>2. CASE z >= x
      <4>1. \A y \in s \cup {z} : z >= y
        BY <3>1, <3>2
      <4> QED BY <4>1
    <3>3. CASE x >= z
      <4>1. \A y \in s \cup {z} : x >= y
        BY <3>1, <3>3
      <4> QED BY <4>1
    <3> QED BY <3>2, <3>3
  <2> QED BY <2>1, <2>2
<1> HIDE DEF P
<1>3. S \in P
  BY <1>1, <1>2, SubsetInduction
<1>4. \E x \in S : \A y \in S : x >= y
  BY <1>3 DEF P
<1>5. Max(S) \in S /\ \A y \in S : Max(S) >= y
  BY <1>4 DEF Max
<1> QED BY <1>5

LEMMA MinIs ==
  ASSUME NEW S \in SUBSET Int, IsFiniteSet(S), S # {}
  PROVE  Min(S) \in S /\ \A x \in S : Min(S) <= x
<1> DEFINE P == {s \in SUBSET S : s # {} => \E x \in s : \A y \in s : x <= y}
<1>1. {} \in P
  OBVIOUS
<1>2. ASSUME NEW s \in SUBSET S, NEW z \in S \ s, s \in P
      PROVE  s \cup {z} \in P
  <2>1. CASE s = {}
    BY <2>1
  <2>2. CASE s # {}
    <3>1. PICK x \in s : \A y \in s : x <= y
      BY <1>2, <2>2
    <3>2. CASE z <= x
      <4>1. \A y \in s \cup {z} : z <= y
        BY <3>1, <3>2
      <4> QED BY <4>1
    <3>3. CASE x <= z
      <4>1. \A y \in s \cup {z} : x <= y
        BY <3>1, <3>3
      <4> QED BY <4>1
    <3> QED BY <3>2, <3>3
  <2> QED BY <2>1, <2>2
<1> HIDE DEF P
<1>3. S \in P
  BY <1>1, <1>2, SubsetInduction
<1>4. \E x \in S : \A y \in S : x <= y
  BY <1>3 DEF P
<1> QED BY <1>4 DEF Min

(* SumFunction sums over the whole domain.                                 *)
LEMMA SumFunctionIs ==
  ASSUME NEW f
  PROVE  SumFunction(f) = Sum(f, DOMAIN f)
BY DEF SumFunction, Sum

-----------------------------------------------------------------------------
(* A strict total order B of the members of S, and the members up to x.      *)
Orders(B, S) ==
  /\ \A x, y, z \in S : <<x, y>> \in B /\ <<y, z>> \in B => <<x, z>> \in B
  /\ \A x, y \in S : x = y \/ <<x, y>> \in B \/ <<y, x>> \in B
  /\ \A x \in S : <<x, x>> \notin B
UpTo(B, S, x) == {y \in S : y = x \/ <<y, x>> \in B}

(* The number of members up to x is its place: it grows with the order.      *)
LEMMA PlaceInOrder ==
  ASSUME NEW S, IsFiniteSet(S), NEW B, Orders(B, S), NEW x \in S
  PROVE  /\ Cardinality(UpTo(B, S, x)) \in 1 .. Cardinality(S)
         /\ \A y \in S : <<x, y>> \in B =>
               Cardinality(UpTo(B, S, x)) < Cardinality(UpTo(B, S, y))
<1>1. \A y \in S : /\ IsFiniteSet(UpTo(B, S, y)) /\ Cardinality(UpTo(B, S, y)) \in Nat
                   /\ Cardinality(UpTo(B, S, y)) <= Cardinality(S)
  <2> SUFFICES ASSUME NEW y \in S
               PROVE  /\ IsFiniteSet(UpTo(B, S, y)) /\ Cardinality(UpTo(B, S, y)) \in Nat
                      /\ Cardinality(UpTo(B, S, y)) <= Cardinality(S)
    OBVIOUS
  <2>1. UpTo(B, S, y) \in SUBSET S
    BY DEF UpTo
  <2> QED BY <2>1, FS_Subset, FS_CardinalityType
<1>2. x \in UpTo(B, S, x)
  BY DEF UpTo
<1>3. Cardinality(UpTo(B, S, x)) # 0
  BY <1>1, <1>2, FS_EmptySet
<1>4. ASSUME NEW y \in S, <<x, y>> \in B
      PROVE  Cardinality(UpTo(B, S, x)) < Cardinality(UpTo(B, S, y))
  <2>1. UpTo(B, S, x) \subseteq UpTo(B, S, y)
    BY <1>4 DEF Orders, UpTo
  <2>2. y \in UpTo(B, S, y) /\ y \notin UpTo(B, S, x)
    BY <1>4 DEF Orders, UpTo
  <2> QED BY <1>1, <2>1, <2>2, FS_Subset
<1>5. Cardinality(S) \in Nat
  BY FS_CardinalityType
<1> QED BY <1>1, <1>3, <1>4, <1>5

(* No two members have one place, and every place is taken.                  *)
LEMMA PlacesApart ==
  ASSUME NEW S, IsFiniteSet(S), NEW B, Orders(B, S), NEW x \in S, NEW y \in S,
         Cardinality(UpTo(B, S, x)) = Cardinality(UpTo(B, S, y))
  PROVE  x = y
<1>1. /\ Cardinality(UpTo(B, S, x)) \in 1 .. Cardinality(S)
      /\ Cardinality(UpTo(B, S, y)) \in 1 .. Cardinality(S)
      /\ Cardinality(S) \in Nat
  BY PlaceInOrder, FS_CardinalityType
<1>2. ~(<<x, y>> \in B) /\ ~(<<y, x>> \in B)
  BY <1>1, PlaceInOrder
<1> QED BY <1>2 DEF Orders

LEMMA PlacesTaken ==
  ASSUME NEW S, IsFiniteSet(S), NEW B, Orders(B, S), NEW k \in 1 .. Cardinality(S)
  PROVE  \E x \in S : Cardinality(UpTo(B, S, x)) = k
<1> DEFINE place == [x \in S |-> Cardinality(UpTo(B, S, x))]
           n == Cardinality(S)
<1>1. n \in Nat
  BY FS_CardinalityType
<1>2. place \in [S -> 1 .. n]
  BY PlaceInOrder
<1>3. \A x, y \in S : place[x] = place[y] => x = y
  BY PlacesApart
<1>4. \A x \in S : place[x] = Cardinality(UpTo(B, S, x))
  OBVIOUS
<1> HIDE DEF place
<1>5. IsFiniteSet(1 .. n) /\ Cardinality(1 .. n) = n
  BY <1>1, FS_Interval
<1>6. ImageOf(place, S) \subseteq 1 .. n
  BY <1>2 DEF ImageOf
<1>7. Cardinality(ImageOf(place, S)) = n
  BY <1>3, ImageCardinality
<1>8. ImageOf(place, S) = 1 .. n
  BY <1>5, <1>6, <1>7, FS_Subset
<1>9. k \in ImageOf(place, S)
  BY <1>8
<1> QED BY <1>4, <1>9 DEF ImageOf
=============================================================================
