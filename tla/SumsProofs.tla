---- MODULE SumsProofs ----
(***************************************************************************)
(* Proofs about Sums.  The induction theorems of the library quantify over *)
(* an operator, which the provers at hand can not instantiate; what        *)
(* follows goes by induction over sets of sets instead (SubsetInduction),  *)
(* from the fact that every set of natural numbers has a least element.    *)
(***************************************************************************)
EXTENDS Sums, FiniteSetTheorems, WellFoundedInduction, TLAPS

(* A non-empty set of natural numbers has a least element. *)
LEMMA Least ==
  ASSUME NEW T \in SUBSET Nat, T # {}
  PROVE  \E n \in T : \A m \in T : n <= m
<1>. DEFINE R == OpToRel(<, Nat)
<1>1. IsWellFoundedOn(R, Nat)
  BY NatLessThanWellFounded
<1>2. \A m, n \in Nat : m < n => <<m, n>> \in R
  BY DEF OpToRel
<1>. HIDE DEF R
<1>3. PICK n \in T : \A m \in T : ~ (<<m, n>> \in R)
  BY <1>1, WFMin
<1>4. ASSUME NEW m \in T PROVE n <= m
  <2>1. m \in Nat /\ n \in Nat /\ ~(m < n)
    BY <1>2, <1>3
  <2>. QED
    BY <2>1
<1>. QED
  BY <1>4

(* A set of natural numbers that holds 0, and with n also n + 1, is Nat. *)
LEMMA AllOfNat ==
  ASSUME NEW P \in SUBSET Nat, 0 \in P, \A n \in P : n + 1 \in P
  PROVE  P = Nat
<1>. SUFFICES ASSUME Nat \ P # {} PROVE FALSE
  OBVIOUS
<1>1. PICK n \in Nat \ P : \A m \in Nat \ P : n <= m
  BY Least
<1>2. n # 0 /\ n - 1 \in Nat /\ ~(n <= n - 1)
  BY <1>1
<1>3. n - 1 \in P
  BY <1>1, <1>2
<1>4. (n - 1) + 1 \in P
  BY <1>3
<1>. QED
  BY <1>1, <1>4

(* An element less makes a finite set smaller by one. *)
LEMMA SmallerRest ==
  ASSUME NEW s, IsFiniteSet(s), NEW x \in s
  PROVE  IsFiniteSet(s \ {x}) /\ Cardinality(s \ {x}) \in Nat /\ Cardinality(s) = Cardinality(s \ {x}) + 1
<1>1. IsFiniteSet(s \ {x}) /\ Cardinality(s \ {x}) = Cardinality(s) - 1
  BY FS_RemoveElement
<1>2. Cardinality(s) \in Nat /\ Cardinality(s \ {x}) \in Nat
  BY <1>1, FS_CardinalityType
<1>. QED
  BY <1>1, <1>2

(***************************************************************************)
(* Induction over the subsets of a finite set: a set P holds all of them   *)
(* if it holds every one all of whose proper subsets with one element less *)
(* it holds.                                                               *)
(***************************************************************************)
LEMMA SubsetInduction ==
  ASSUME NEW S, IsFiniteSet(S), NEW P,
         \A s \in SUBSET S : (\A x \in s : s \ {x} \in P) => s \in P
  PROVE  \A s \in SUBSET S : s \in P
<1>. DEFINE N == {n \in Nat : \A s \in SUBSET S : Cardinality(s) = n => s \in P}
<1>1. \A s \in SUBSET S : IsFiniteSet(s) /\ Cardinality(s) \in Nat
  BY FS_Subset, FS_CardinalityType
<1>2. 0 \in N
  <2>1. \A s \in SUBSET S : Cardinality(s) = 0 => s = {}
    BY <1>1, FS_EmptySet
  <2>2. {} \in P
    OBVIOUS
  <2>. QED
    BY <2>1, <2>2
<1>3. ASSUME NEW n \in N PROVE n + 1 \in N
  <2>. SUFFICES ASSUME NEW s \in SUBSET S, Cardinality(s) = n + 1 PROVE s \in P
    OBVIOUS
  <2>1. \A x \in s : Cardinality(s \ {x}) = n
    BY <1>1, SmallerRest
  <2>2. \A x \in s : s \ {x} \in P
    BY <2>1
  <2>. QED
    BY <2>2
<1>4. N = Nat
  <2>. HIDE DEF N
  <2>1. N \in SUBSET Nat
    BY DEF N
  <2>. QED
    BY <1>2, <1>3, <2>1, AllOfNat
<1>. QED
  BY <1>1, <1>4

----
(* The element the fold takes next. *)
Pick(s) == CHOOSE x \in s : TRUE

(* It is an element. *)
LEMMA PickIn == ASSUME NEW s, s # {} PROVE Pick(s) \in s
BY DEF Pick

(* The recursive function a fold over the set D is computed with. *)
Adds(it, f, D) == it = [s \in SUBSET D |-> IF s = {} THEN 0 ELSE f[Pick(s)] + it[s \ {Pick(s)}]]

(* If there is such a function, the sum is a value of one. *)
LEMMA Unfold ==
  ASSUME NEW f, NEW S, \E it : Adds(it, f, S)
  PROVE  \E it : Adds(it, f, S) /\ SumOf(f, S) = it[S]
BY DEF Adds, Pick, SumOf, MapThenSumSet, MapThenFoldSet

(***************************************************************************)
(* There is one for every finite set: it is built for the subsets of at    *)
(* most n elements, for one n after the other.                             *)
(***************************************************************************)
LEMMA AddsExists ==
  ASSUME NEW f, NEW D, IsFiniteSet(D)
  PROVE  \E it : Adds(it, f, D)
<1>. DEFINE Upto(n) == {s \in SUBSET D : Cardinality(s) <= n}
            Rest(s) == s \ {Pick(s)}
            Good(g, n) == \A s \in Upto(n) : g[s] = IF s = {} THEN 0 ELSE f[Pick(s)] + g[Rest(s)]
            P == {n \in Nat : \E g : Good(g, n)}
<1>1. \A s \in SUBSET D : IsFiniteSet(s) /\ Cardinality(s) \in Nat
  BY FS_Subset, FS_CardinalityType
<1>2. 0 \in P
  <2>1. \A s \in Upto(0) : s = {}
    BY <1>1, FS_EmptySet
  <2>2. Good([s \in SUBSET D |-> 0], 0)
    BY <2>1
  <2>. QED
    BY <2>2
<1>3. ASSUME NEW n \in P PROVE n + 1 \in P
  <2>1. PICK g : Good(g, n)
    OBVIOUS
  <2>. DEFINE h == [s \in SUBSET D |-> IF Cardinality(s) <= n THEN g[s] ELSE f[Pick(s)] + g[Rest(s)]]
  <2>2. ASSUME NEW s \in Upto(n + 1)
        PROVE  h[s] = IF s = {} THEN 0 ELSE f[Pick(s)] + h[Rest(s)]
    <3>1. CASE s = {}
      <4>1. Cardinality(s) <= n
        BY <3>1, FS_EmptySet
      <4>. QED
        BY <2>1, <3>1, <4>1
    <3>2. CASE s # {}
      <4>1. Pick(s) \in s
        BY <3>2, PickIn
      <4>2. Rest(s) \in SUBSET D /\ Cardinality(Rest(s)) \in Nat /\ Cardinality(s) = Cardinality(Rest(s)) + 1
        BY <1>1, <4>1, SmallerRest
      <4>3. Cardinality(Rest(s)) <= n
        BY <1>1, <4>2
      <4>4. h[Rest(s)] = g[Rest(s)]
        BY <4>2, <4>3
      <4>5. CASE Cardinality(s) <= n
        BY <2>1, <3>2, <4>4, <4>5
      <4>6. CASE ~(Cardinality(s) <= n)
        BY <3>2, <4>4, <4>6
      <4>. QED
        BY <4>5, <4>6
    <3>. QED
      BY <3>1, <3>2
  <2>3. Good(h, n + 1)
    BY <2>2
  <2>. QED
    <3>. HIDE DEF h, Good
    <3>. QED
      BY <2>3
<1>4. P = Nat
  <2>. HIDE DEF P
  <2>1. P \in SUBSET Nat
    BY DEF P
  <2>. QED
    BY <1>2, <1>3, <2>1, AllOfNat
<1>5. PICK g : Good(g, Cardinality(D))
  BY <1>1, <1>4
<1>6. \A s \in SUBSET D : s \in Upto(Cardinality(D)) /\ Rest(s) \in SUBSET D
  BY FS_Subset
<1>. DEFINE it == [s \in SUBSET D |-> g[s]]
<1>7. \A s \in SUBSET D : it[s] = IF s = {} THEN 0 ELSE f[Pick(s)] + it[s \ {Pick(s)}]
  BY <1>5, <1>6
<1>8. it = [s \in SUBSET D |-> it[s]]
  OBVIOUS
<1>9. it = [s \in SUBSET D |-> IF s = {} THEN 0 ELSE f[Pick(s)] + it[s \ {Pick(s)}]]
  <2>. HIDE DEF it
  <2>. QED BY <1>7, <1>8
<1>. QED
  BY <1>9 DEF Adds

(* Two of them agree where both are defined. *)
LEMMA AddsUnique ==
  ASSUME NEW f, NEW D, NEW E, NEW g, NEW h, Adds(g, f, D), Adds(h, f, E), D \subseteq E, IsFiniteSet(D)
  PROVE  \A s \in SUBSET D : g[s] = h[s]
<1>. DEFINE P == {s \in SUBSET D : g[s] = h[s]}
<1>1. ASSUME NEW s \in SUBSET D, \A x \in s : s \ {x} \in P PROVE s \in P
  <2>1. CASE s = {}
    BY <2>1 DEF Adds
  <2>2. CASE s # {}
    <3>1. g[s \ {Pick(s)}] = h[s \ {Pick(s)}]
      BY <1>1, <2>2, PickIn
    <3>2. g[s] = f[Pick(s)] + g[s \ {Pick(s)}] /\ h[s] = f[Pick(s)] + h[s \ {Pick(s)}]
      BY <2>2 DEF Adds
    <3>. QED
      BY <3>1, <3>2
  <2>. QED
    BY <2>1, <2>2
<1>. HIDE DEF P
<1>2. \A s \in SUBSET D : s \in P
  BY <1>1, SubsetInduction
<1>. QED
  BY <1>2 DEF P

(* The sums over all subsets of a finite set come from one such function. *)
LEMMA SumUnfolds ==
  ASSUME NEW f, NEW S, IsFiniteSet(S)
  PROVE  \E it : Adds(it, f, S) /\ \A s \in SUBSET S : SumOf(f, s) = it[s]
<1>1. PICK it : Adds(it, f, S)
  BY AddsExists
<1>2. ASSUME NEW s \in SUBSET S PROVE SumOf(f, s) = it[s]
  <2>1. IsFiniteSet(s)
    BY FS_Subset
  <2>2. PICK g : Adds(g, f, s) /\ SumOf(f, s) = g[s]
    BY <2>1, AddsExists, Unfold
  <2>3. s \in SUBSET s
    OBVIOUS
  <2>4. g[s] = it[s]
    BY <1>1, <2>1, <2>2, <2>3, AddsUnique
  <2>. QED
    BY <2>2, <2>4
<1>. QED
  BY <1>1, <1>2

----
(* Nothing adds up to 0. *)
THEOREM SumOfNothing == ASSUME NEW f PROVE SumOf(f, {}) = 0
<1>1. PICK it : Adds(it, f, {}) /\ SumOf(f, {}) = it[{}]
  BY SumUnfolds, FS_EmptySet
<1>. QED
  BY <1>1 DEF Adds

(* The first step of the fold. *)
LEMMA SumOfPick ==
  ASSUME NEW f, NEW S, IsFiniteSet(S), S # {}
  PROVE  SumOf(f, S) = f[Pick(S)] + SumOf(f, S \ {Pick(S)})
<1>1. PICK it : Adds(it, f, S) /\ \A s \in SUBSET S : SumOf(f, s) = it[s]
  BY SumUnfolds
<1>. QED
  BY <1>1 DEF Adds

(* A sum of integers is one. *)
THEOREM SumOfType ==
  ASSUME NEW f, NEW S, IsFiniteSet(S), \A x \in S : f[x] \in Int
  PROVE  SumOf(f, S) \in Int
<1>. DEFINE P == {s \in SUBSET S : SumOf(f, s) \in Int}
<1>1. ASSUME NEW s \in SUBSET S, \A x \in s : s \ {x} \in P PROVE s \in P
  <2>1. CASE s = {}
    BY <2>1, SumOfNothing
  <2>2. CASE s # {}
    <3>1. IsFiniteSet(s)
      BY FS_Subset
    <3>2. Pick(s) \in s /\ SumOf(f, s) = f[Pick(s)] + SumOf(f, s \ {Pick(s)})
      BY <2>2, <3>1, PickIn, SumOfPick
    <3>. QED
      BY <1>1, <3>2
  <2>. QED
    BY <2>1, <2>2
<1>. HIDE DEF P
<1>2. \A s \in SUBSET S : s \in P
  BY <1>1, SubsetInduction
<1>. QED
  BY <1>2 DEF P

(* The order in which the elements are taken does not matter. *)
LEMMA SumOfAny ==
  ASSUME NEW f, NEW S, IsFiniteSet(S), \A x \in S : f[x] \in Int
  PROVE  \A x \in S : SumOf(f, S) = f[x] + SumOf(f, S \ {x})
<1>. DEFINE P == {s \in SUBSET S : \A x \in s : SumOf(f, s) = f[x] + SumOf(f, s \ {x})}
<1>1. ASSUME NEW s \in SUBSET S, \A x \in s : s \ {x} \in P PROVE s \in P
  <2>. SUFFICES ASSUME NEW x \in s PROVE SumOf(f, s) = f[x] + SumOf(f, s \ {x})
    OBVIOUS
  <2>. DEFINE c == Pick(s)
  <2>0. IsFiniteSet(s)
    BY FS_Subset
  <2>1. c \in s /\ SumOf(f, s) = f[c] + SumOf(f, s \ {c})
    BY <2>0, PickIn, SumOfPick
  <2>. HIDE DEF c
  <2>2. CASE x = c
    BY <2>1, <2>2
  <2>3. CASE x # c
    <3>1. x \in s \ {c} /\ c \in s \ {x}
      BY <2>1, <2>3
    <3>. DEFINE r == (s \ {c}) \ {x}
    <3>2. SumOf(f, s \ {c}) = f[x] + SumOf(f, r)
      BY <1>1, <2>1, <3>1
    <3>3. r = (s \ {x}) \ {c} /\ r \in SUBSET S
      OBVIOUS
    <3>. HIDE DEF r
    <3>4. SumOf(f, s \ {x}) = f[c] + SumOf(f, (s \ {x}) \ {c})
      BY <1>1, <3>1
    <3>5. SumOf(f, s \ {x}) = f[c] + SumOf(f, r)
      BY <3>3, <3>4, Zenon
    <3>6. SumOf(f, r) \in Int /\ f[x] \in Int /\ f[c] \in Int
      BY <2>1, <3>3, FS_Subset, SumOfType
    <3>. QED
      BY <2>1, <3>2, <3>5, <3>6
  <2>. QED
    BY <2>2, <2>3
<1>. HIDE DEF P
<1>2. \A s \in SUBSET S : s \in P
  BY <1>1, SubsetInduction
<1>. QED
  BY <1>2 DEF P

(* One element more adds its value. *)
THEOREM SumOfOneMore ==
  ASSUME NEW f, NEW S, IsFiniteSet(S), NEW x, x \notin S, \A y \in S \cup {x} : f[y] \in Int
  PROVE  SumOf(f, S \cup {x}) = SumOf(f, S) + f[x]
<1>1. IsFiniteSet(S \cup {x})
  BY FS_AddElement
<1>2. SumOf(f, S \cup {x}) = f[x] + SumOf(f, (S \cup {x}) \ {x})
  BY <1>1, SumOfAny
<1>3. (S \cup {x}) \ {x} = S
  OBVIOUS
<1>4. SumOf(f, S \cup {x}) = f[x] + SumOf(f, S)
  BY <1>2, <1>3, Zenon
<1>5. SumOf(f, S) \in Int /\ f[x] \in Int
  BY SumOfType
<1>. QED
  BY <1>4, <1>5

(* The sum depends on nothing but the values at the elements of the set. *)
THEOREM SumOfSame ==
  ASSUME NEW f, NEW g, NEW S, IsFiniteSet(S), \A x \in S : f[x] = g[x]
  PROVE  SumOf(f, S) = SumOf(g, S)
<1>. DEFINE P == {s \in SUBSET S : SumOf(f, s) = SumOf(g, s)}
<1>1. ASSUME NEW s \in SUBSET S, \A x \in s : s \ {x} \in P PROVE s \in P
  <2>1. CASE s = {}
    BY <2>1, SumOfNothing
  <2>2. CASE s # {}
    <3>1. IsFiniteSet(s) /\ Pick(s) \in s
      BY <2>2, FS_Subset, PickIn
    <3>2. /\ SumOf(f, s) = f[Pick(s)] + SumOf(f, s \ {Pick(s)})
          /\ SumOf(g, s) = g[Pick(s)] + SumOf(g, s \ {Pick(s)})
      BY <2>2, <3>1, SumOfPick
    <3>. QED
      BY <1>1, <3>1, <3>2
  <2>. QED
    BY <2>1, <2>2
<1>. HIDE DEF P
<1>2. \A s \in SUBSET S : s \in P
  BY <1>1, SubsetInduction
<1>. QED
  BY <1>2 DEF P

(* When one value changes, the sum changes by as much. *)
THEOREM SumOfChange ==
  ASSUME NEW S, IsFiniteSet(S), NEW f, NEW g, NEW x \in S,
         \A y \in S : f[y] \in Int /\ g[y] \in Int,
         \A y \in S \ {x} : g[y] = f[y]
  PROVE  SumOf(g, S) = SumOf(f, S) + (g[x] - f[x])
<1>1. IsFiniteSet(S \ {x})
  BY FS_RemoveElement
<1>2. SumOf(f, S) = f[x] + SumOf(f, S \ {x}) /\ SumOf(g, S) = g[x] + SumOf(g, S \ {x})
  BY SumOfAny
<1>3. SumOf(f, S \ {x}) = SumOf(g, S \ {x})
  BY <1>1, SumOfSame
<1>4. SumOf(f, S \ {x}) \in Int
  BY <1>1, SumOfType
<1>. QED
  BY <1>2, <1>3, <1>4

(* Zeros add up to 0. *)
THEOREM SumOfZeros ==
  ASSUME NEW f, NEW S, IsFiniteSet(S), \A x \in S : f[x] = 0
  PROVE  SumOf(f, S) = 0
<1>. DEFINE P == {s \in SUBSET S : SumOf(f, s) = 0}
<1>1. ASSUME NEW s \in SUBSET S, \A x \in s : s \ {x} \in P PROVE s \in P
  <2>1. CASE s = {}
    BY <2>1, SumOfNothing
  <2>2. CASE s # {}
    <3>1. IsFiniteSet(s) /\ Pick(s) \in s
      BY <2>2, FS_Subset, PickIn
    <3>2. SumOf(f, s) = f[Pick(s)] + SumOf(f, s \ {Pick(s)})
      BY <2>2, <3>1, SumOfPick
    <3>. QED
      BY <1>1, <3>1, <3>2
  <2>. QED
    BY <2>1, <2>2
<1>. HIDE DEF P
<1>2. \A s \in SUBSET S : s \in P
  BY <1>1, SubsetInduction
<1>. QED
  BY <1>2 DEF P

(* The same of a function one value of which is set. *)
THEOREM SumOfExcept ==
  ASSUME NEW S, IsFiniteSet(S), NEW f \in [S -> Int], NEW x \in S, NEW v \in Int
  PROVE  SumOf([f EXCEPT ![x] = v], S) = SumOf(f, S) + (v - f[x])
<1>. DEFINE g == [f EXCEPT ![x] = v]
<1>1. \A y \in S : f[y] \in Int /\ g[y] \in Int
  OBVIOUS
<1>2. (\A y \in S \ {x} : g[y] = f[y]) /\ g[x] = v
  OBVIOUS
<1>. HIDE DEF g
<1>3. SumOf(g, S) = SumOf(f, S) + (g[x] - f[x])
  BY <1>1, <1>2, SumOfChange
<1>. QED
  BY <1>2, <1>3 DEF g

(* A list that grows by an entry adds up to as much more. *)
THEOREM SumOfLonger ==
  ASSUME NEW n \in Nat, NEW f, NEW g, g[n + 1] \in Int,
         \A i \in 1 .. n : f[i] \in Int /\ g[i] = f[i]
  PROVE  SumOf(g, 1 .. n + 1) = SumOf(f, 1 .. n) + g[n + 1]
<1>. DEFINE S == 1 .. n
            T == 1 .. n + 1
<1>0. n + 1 \notin S /\ T = S \cup {n + 1}
  OBVIOUS
<1>1. IsFiniteSet(S)
  BY FS_Interval
<1>2. \A i \in S : f[i] = g[i]
  OBVIOUS
<1>3. \A i \in S \cup {n + 1} : g[i] \in Int
  OBVIOUS
<1>. HIDE DEF S, T
<1>4. SumOf(g, S \cup {n + 1}) = SumOf(g, S) + g[n + 1]
  BY <1>0, <1>1, <1>3, SumOfOneMore
<1>5. SumOf(f, S) = SumOf(g, S)
  BY <1>1, <1>2, SumOfSame
<1>6. SumOf(g, T) = SumOf(g, S) + g[n + 1]
  BY <1>0, <1>4, Zenon
<1>. QED
  BY <1>5, <1>6 DEF S, T

(* A sum of natural numbers is not negative. *)
THEOREM SumOfNaturals ==
  ASSUME NEW f, NEW S, IsFiniteSet(S), \A x \in S : f[x] \in Int /\ f[x] >= 0
  PROVE  SumOf(f, S) >= 0
<1>. DEFINE P == {s \in SUBSET S : SumOf(f, s) \in Int /\ SumOf(f, s) >= 0}
<1>1. ASSUME NEW s \in SUBSET S, \A x \in s : s \ {x} \in P PROVE s \in P
  <2>1. CASE s = {}
    BY <2>1, SumOfNothing
  <2>2. CASE s # {}
    <3>1. IsFiniteSet(s) /\ Pick(s) \in s
      BY <2>2, FS_Subset, PickIn
    <3>2. SumOf(f, s) = f[Pick(s)] + SumOf(f, s \ {Pick(s)})
      BY <2>2, <3>1, SumOfPick
    <3>. QED
      BY <1>1, <3>1, <3>2
  <2>. QED
    BY <2>1, <2>2
<1>. HIDE DEF P
<1>2. \A s \in SUBSET S : s \in P
  BY <1>1, SubsetInduction
<1>. QED
  BY <1>2 DEF P

----
(* A sum is that of a part and that of the rest. *)
THEOREM SumOfParts ==
  ASSUME NEW f, NEW S, IsFiniteSet(S), NEW A, \A x \in S : f[x] \in Int
  PROVE  SumOf(f, S) = SumOf(f, S \cap A) + SumOf(f, S \ A)
<1>. DEFINE P == {s \in SUBSET S : SumOf(f, s) = SumOf(f, s \cap A) + SumOf(f, s \ A)}
<1>1. ASSUME NEW s \in SUBSET S, \A x \in s : s \ {x} \in P PROVE s \in P
  <2>1. CASE s = {}
    <3>1. s \cap A = {} /\ s \ A = {}
      BY <2>1
    <3>. QED
      BY <2>1, <3>1, SumOfNothing
  <2>2. CASE s # {}
    <3>1. IsFiniteSet(s) /\ IsFiniteSet(s \cap A) /\ IsFiniteSet(s \ A)
      BY FS_Subset
    <3>2. PICK x \in s : TRUE
      BY <2>2
    <3>3. SumOf(f, s) = f[x] + SumOf(f, s \ {x})
      BY <3>1, SumOfAny
    <3>4. SumOf(f, s \ {x}) = SumOf(f, (s \ {x}) \cap A) + SumOf(f, (s \ {x}) \ A)
      BY <1>1
    <3>5. /\ SumOf(f, (s \ {x}) \cap A) \in Int /\ SumOf(f, (s \ {x}) \ A) \in Int
          /\ f[x] \in Int
      <4>1. IsFiniteSet((s \ {x}) \cap A) /\ IsFiniteSet((s \ {x}) \ A)
        BY <3>1, FS_Subset
      <4>. QED
        BY <4>1, SumOfType
    <3>6. CASE x \in A
      <4>1. (s \ {x}) \cap A = (s \cap A) \ {x} /\ (s \ {x}) \ A = s \ A /\ x \in s \cap A
        BY <3>6
      <4>2. SumOf(f, s \cap A) = f[x] + SumOf(f, (s \cap A) \ {x})
        BY <3>1, <4>1, SumOfAny
      <4>3. SumOf(f, s \ {x}) = SumOf(f, (s \cap A) \ {x}) + SumOf(f, s \ A)
        BY <3>4, <4>1, Zenon
      <4>4. SumOf(f, (s \cap A) \ {x}) \in Int /\ SumOf(f, s \ A) \in Int
        BY <3>5, <4>1, Zenon
      <4>. QED
        BY <3>3, <3>5, <4>2, <4>3, <4>4
    <3>7. CASE x \notin A
      <4>1. (s \ {x}) \ A = (s \ A) \ {x} /\ (s \ {x}) \cap A = s \cap A /\ x \in s \ A
        BY <3>7
      <4>2. SumOf(f, s \ A) = f[x] + SumOf(f, (s \ A) \ {x})
        BY <3>1, <4>1, SumOfAny
      <4>3. SumOf(f, s \ {x}) = SumOf(f, s \cap A) + SumOf(f, (s \ A) \ {x})
        BY <3>4, <4>1, Zenon
      <4>4. SumOf(f, (s \ A) \ {x}) \in Int /\ SumOf(f, s \cap A) \in Int
        BY <3>5, <4>1, Zenon
      <4>. QED
        BY <3>3, <3>5, <4>2, <4>3, <4>4
    <3>. QED
      BY <3>6, <3>7
  <2>. QED
    BY <2>1, <2>2
<1>. HIDE DEF P
<1>2. \A s \in SUBSET S : s \in P
  BY <1>1, SubsetInduction
<1>. QED
  BY <1>2 DEF P

(* Of natural numbers a part has no larger sum than the whole ... *)
THEOREM SumOfSubset ==
  ASSUME NEW f, NEW S, IsFiniteSet(S), NEW A \in SUBSET S, \A x \in S : f[x] \in Nat
  PROVE  SumOf(f, A) <= SumOf(f, S)
<1>1. S \cap A = A /\ IsFiniteSet(A) /\ IsFiniteSet(S \ A)
  BY FS_Subset
<1>2. SumOf(f, A) \in Int /\ SumOf(f, S \ A) \in Int /\ SumOf(f, S \ A) >= 0
  BY <1>1, SumOfType, SumOfNaturals
<1>3. SumOf(f, S) = SumOf(f, S \cap A) + SumOf(f, S \ A)
  BY SumOfParts
<1>. QED
  BY <1>1, <1>2, <1>3

(* ... and the whole no larger one than parts that cover it. *)
THEOREM SumOfCover ==
  ASSUME NEW f, NEW A, IsFiniteSet(A), NEW B, IsFiniteSet(B), NEW S \in SUBSET (A \cup B),
         \A x \in A \cup B : f[x] \in Nat
  PROVE  SumOf(f, S) <= SumOf(f, A) + SumOf(f, B)
<1>1. IsFiniteSet(S) /\ IsFiniteSet(S \cap A) /\ IsFiniteSet(S \ A)
  BY FS_Union, FS_Subset
<1>2. SumOf(f, S \cap A) <= SumOf(f, A) /\ SumOf(f, S \ A) <= SumOf(f, B)
  <2>1. S \cap A \in SUBSET A /\ S \ A \in SUBSET B
    OBVIOUS
  <2>. QED
    BY <2>1, SumOfSubset
<1>3. SumOf(f, S) = SumOf(f, S \cap A) + SumOf(f, S \ A)
  <2>1. \A x \in S : f[x] \in Int
    OBVIOUS
  <2>2. IsFiniteSet(S)
    BY <1>1
  <2>. QED
    BY <2>1, <2>2, SumOfParts
<1>4. /\ SumOf(f, A) \in Int /\ SumOf(f, B) \in Int
      /\ SumOf(f, S \cap A) \in Int /\ SumOf(f, S \ A) \in Int
  BY <1>1, SumOfType
<1>. QED
  BY <1>2, <1>3, <1>4

(* One more at x is one more in the sum of what x is in, and in no other. *)
THEOREM SumOfIncrement ==
  ASSUME NEW S, IsFiniteSet(S), NEW f, NEW g, NEW x, f[x] \in Int, g[x] = f[x] + 1,
         \A y \in S : f[y] \in Int /\ (y # x => g[y] = f[y])
  PROVE  SumOf(g, S) = IF x \in S THEN SumOf(f, S) + 1 ELSE SumOf(f, S)
<1>1. ASSUME x \in S PROVE SumOf(g, S) = SumOf(f, S) + 1
  <2>1. \A y \in S : f[y] \in Int /\ g[y] \in Int
    OBVIOUS
  <2>2. \A y \in S \ {x} : g[y] = f[y]
    OBVIOUS
  <2>3. SumOf(g, S) = SumOf(f, S) + (g[x] - f[x])
    BY <1>1, <2>1, <2>2, SumOfChange
  <2>4. SumOf(f, S) \in Int
    BY <2>1, SumOfType
  <2>. QED
    BY <2>3, <2>4
<1>2. ASSUME x \notin S PROVE SumOf(g, S) = SumOf(f, S)
  <2>1. \A y \in S : g[y] = f[y]
    BY <1>2
  <2>. QED
    BY <2>1, SumOfSame
<1>. QED
  BY <1>1, <1>2
====
