-------------------------------- MODULE Sums --------------------------------
(***************************************************************************)
(* Sums over a finite set, for the properties that compare a counter with  *)
(* the quantities it stands for: a sum does not depend on the order of its *)
(* terms, and one term more or less changes it by that term.               *)
(*                                                                         *)
(* The induction is over a set of numbers, not over a predicate: the set   *)
(* of the n for which a statement holds contains every n.                  *)
(***************************************************************************)
EXTENDS FiniteSetsExt, FiniteSetTheorems, WellFoundedInduction, TLAPS

SumOf(f, S) == MapThenSumSet(LAMBDA x : f[x], S)

(* A set that contains 0 and the successor of each of its members contains *)
(* every natural number.                                                   *)
LEMMA Induction ==
    ASSUME NEW S, 0 \in S, \A n \in Nat : n \in S => n + 1 \in S
    PROVE  \A n \in Nat : n \in S
<1> DEFINE R == {ss \in Nat \X Nat : ss[1] < ss[2]}
<1>1. SUFFICES ASSUME Nat \ S # {} PROVE FALSE
  OBVIOUS
<1>2. IsWellFoundedOn(R, Nat)
  BY NatLessThanWellFounded DEF OpToRel
<1>3. PICK x \in Nat \ S : \A y \in Nat \ S : << y, x >> \notin R
  <2>1. Nat \ S \subseteq Nat /\ Nat \ S # {}
    BY <1>1
  <2> HIDE DEF R
  <2>2. QED
    BY <1>2, <2>1, WFMin
<1>4. \A y \in Nat : y < x => << y, x >> \in R
  OBVIOUS
<1>5. x # 0 /\ x - 1 \in Nat /\ x - 1 < x /\ (x - 1) + 1 = x
  OBVIOUS
<1>6. QED
  BY <1>3, <1>4, <1>5

(* How the fold goes through a set s: it picks an element, and goes on     *)
(* without it.  A function g that gives every subset of S its sum.         *)
Pick(s) == CHOOSE x \in s : TRUE

IsSum(g, f, S) ==
    g = [s \in SUBSET S |-> IF s = {} THEN 0 ELSE f[Pick(s)] + g[s \ {Pick(s)}]]

LEMMA PickIn ==
    ASSUME NEW s, s # {}
    PROVE  Pick(s) \in s
BY DEF Pick

(* The subsets of a finite set, by their number of elements.                *)
LEMMA Smaller ==
    ASSUME NEW S, IsFiniteSet(S), NEW s \in SUBSET S
    PROVE  /\ IsFiniteSet(s) /\ Cardinality(s) \in Nat
           /\ Cardinality(s) = 0 <=> s = {}
           /\ \A x \in s : Cardinality(s \ {x}) = Cardinality(s) - 1
<1>1. IsFiniteSet(s)
  BY FS_Subset
<1>2. QED
  BY <1>1, FS_CardinalityType, FS_EmptySet, FS_RemoveElement

(* Every finite set has such a function.                                    *)
LEMMA SumExists ==
    ASSUME NEW S, IsFiniteSet(S), NEW f, \A x \in S : f[x] \in Int
    PROVE  \E g : IsSum(g, f, S)
<1> DEFINE Upto(n) == {s \in SUBSET S : Cardinality(s) <= n}
           Fits(g, n) == \A s \in Upto(n) :
                             g[s] = IF s = {} THEN 0 ELSE f[Pick(s)] + g[s \ {Pick(s)}]
           Good == {n \in Nat : \E g \in [Upto(n) -> Int] : Fits(g, n)}
<1>1. 0 \in Good
  <2> DEFINE g == [s \in Upto(0) |-> 0]
  <2>1. \A s \in Upto(0) : s = {}
    BY Smaller
  <2>2. g \in [Upto(0) -> Int] /\ Fits(g, 0)
    BY <2>1
  <2>3. QED
    BY <2>2
<1>2. ASSUME NEW n \in Nat, n \in Good
      PROVE  n + 1 \in Good
  <2>1. PICK g \in [Upto(n) -> Int] : Fits(g, n)
    BY <1>2
  <2> DEFINE h == [s \in Upto(n + 1) |-> IF s = {} THEN 0 ELSE f[Pick(s)] + g[s \ {Pick(s)}]]
  <2>2. ASSUME NEW s \in Upto(n + 1), s # {}
        PROVE  Pick(s) \in S /\ s \ {Pick(s)} \in Upto(n)
    BY <2>2, Smaller, PickIn
  <2>3. h \in [Upto(n + 1) -> Int]
    BY <2>2
  <2>4. \A s \in Upto(n) : s \in Upto(n + 1) /\ h[s] = g[s]
    <3>1. \A s \in Upto(n) : s \in Upto(n + 1)
      BY Smaller
    <3>2. QED
      BY <2>1, <3>1
  <2>5. Fits(h, n + 1)
    BY <2>2, <2>4
  <2> HIDE DEF h, Upto, Fits
  <2>6. QED
    BY <2>3, <2>5
<1>3. Cardinality(S) \in Good
  <2>1. Cardinality(S) \in Nat
    BY FS_CardinalityType
  <2> HIDE DEF Good
  <2>2. QED
    BY <1>1, <1>2, <2>1, Induction
<1>4. PICK g \in [Upto(Cardinality(S)) -> Int] : Fits(g, Cardinality(S))
  BY <1>3
<1>5. Upto(Cardinality(S)) = SUBSET S
  BY FS_Subset
<1>6. IsSum(g, f, S)
  BY <1>4, <1>5 DEF IsSum
<1>7. QED
  BY <1>6

(* It follows the recursion, and its values are integers.                   *)
LEMMA SumSteps ==
    ASSUME NEW f, NEW S, NEW g, IsSum(g, f, S)
    PROVE  /\ g[{}] = 0
           /\ \A s \in SUBSET S : s # {} => g[s] = f[Pick(s)] + g[s \ {Pick(s)}]
BY DEF IsSum

LEMMA SumIsInt ==
    ASSUME NEW S, IsFiniteSet(S), NEW f, \A x \in S : f[x] \in Int,
           NEW g, IsSum(g, f, S)
    PROVE  \A s \in SUBSET S : g[s] \in Int
<1> DEFINE Good == {n \in Nat : \A s \in SUBSET S : Cardinality(s) = n => g[s] \in Int}
<1>1. 0 \in Good
  <2>1. g[{}] \in Int
    BY SumSteps
  <2>2. \A s \in SUBSET S : Cardinality(s) = 0 => s = {}
    BY Smaller
  <2>3. QED
    BY <2>1, <2>2
<1>2. ASSUME NEW n \in Nat, n \in Good
      PROVE  n + 1 \in Good
  <2>1. ASSUME NEW s \in SUBSET S, Cardinality(s) = n + 1
        PROVE  g[s] \in Int
    <3>1. s # {} /\ Pick(s) \in s
      BY <2>1, Smaller, PickIn
    <3>2. Cardinality(s \ {Pick(s)}) = n /\ s \ {Pick(s)} \in SUBSET S
      BY <2>1, <3>1, Smaller
    <3>3. g[s \ {Pick(s)}] \in Int
      BY <1>2, <3>2
    <3>4. QED
      BY <3>1, <3>3, SumSteps
  <2>2. QED
    BY <2>1
<1>3. \A n \in Nat : n \in Good
  <2> HIDE DEF Good
  <2>1. QED
    BY <1>1, <1>2, Induction
<1>4. QED
  BY <1>3, Smaller

(* Any element may be the one that is taken out.                            *)
LEMMA SumTakes ==
    ASSUME NEW S, IsFiniteSet(S), NEW f, \A x \in S : f[x] \in Int,
           NEW g, IsSum(g, f, S)
    PROVE  \A s \in SUBSET S : \A x \in s : g[s] = f[x] + g[s \ {x}]
<1> DEFINE Good == {n \in Nat : \A s \in SUBSET S : Cardinality(s) = n =>
                        \A x \in s : g[s] = f[x] + g[s \ {x}]}
<1>1. 0 \in Good
  BY Smaller
<1>2. ASSUME NEW n \in Nat, n \in Good
      PROVE  n + 1 \in Good
  <2>1. ASSUME NEW s \in SUBSET S, Cardinality(s) = n + 1, NEW x \in s
        PROVE  g[s] = f[x] + g[s \ {x}]
    <3>1. PICK p \in s : g[s] = f[p] + g[s \ {p}]
      BY <2>1, PickIn, SumSteps
    <3>2. \A y \in s : Cardinality(s \ {y}) = n /\ s \ {y} \in SUBSET S
      BY <2>1, Smaller
    <3>3. \A y \in s : \A z \in s \ {y} : g[s \ {y}] = f[z] + g[(s \ {y}) \ {z}]
      BY <1>2, <3>2
    <3>4. CASE x = p
      BY <3>1, <3>4
    <3>5. CASE x # p
      <4>1. g[s \ {p}] = f[x] + g[(s \ {p}) \ {x}]
        BY <3>3, <3>5
      <4>2. g[s \ {x}] = f[p] + g[(s \ {x}) \ {p}]
        BY <3>3, <3>5
      <4>3. (s \ {p}) \ {x} = (s \ {x}) \ {p}
        OBVIOUS
      <4>4. g[s \ {p}] = f[x] + g[(s \ {x}) \ {p}]
        BY <4>1, <4>3
      <4>5. f[x] \in Int /\ f[p] \in Int /\ g[(s \ {x}) \ {p}] \in Int
        BY SumIsInt
      <4>6. QED
        BY <3>1, <4>2, <4>4, <4>5
    <3>6. QED
      BY <3>4, <3>5
  <2>2. QED
    BY <2>1
<1>3. \A n \in Nat : n \in Good
  <2> HIDE DEF Good
  <2>1. QED
    BY <1>1, <1>2, Induction
<1>4. QED
  BY <1>3, Smaller

(* The sum of a set depends on its terms alone.                             *)
LEMMA SumsAgree ==
    ASSUME NEW S, NEW T, NEW f, NEW e, NEW g, NEW h, IsSum(g, f, S), IsSum(h, e, T),
           NEW U \in SUBSET (S \cap T), IsFiniteSet(U), \A x \in U : f[x] = e[x]
    PROVE  g[U] = h[U]
<1> DEFINE Good == {n \in Nat : \A s \in SUBSET U : Cardinality(s) = n => g[s] = h[s]}
<1>1. 0 \in Good
  BY Smaller, SumSteps
<1>2. ASSUME NEW n \in Nat, n \in Good
      PROVE  n + 1 \in Good
  <2>1. ASSUME NEW s \in SUBSET U, Cardinality(s) = n + 1
        PROVE  g[s] = h[s]
    <3>1. s # {} /\ Pick(s) \in s
      BY <2>1, Smaller, PickIn
    <3>2. Cardinality(s \ {Pick(s)}) = n /\ s \ {Pick(s)} \in SUBSET U
      BY <2>1, <3>1, Smaller
    <3>3. g[s \ {Pick(s)}] = h[s \ {Pick(s)}]
      BY <1>2, <3>2
    <3>4. s \in SUBSET S /\ s \in SUBSET T /\ f[Pick(s)] = e[Pick(s)]
      BY <3>1
    <3>5. QED
      BY <3>1, <3>3, <3>4, SumSteps
  <2>2. QED
    BY <2>1
<1>3. \A n \in Nat : n \in Good
  <2> HIDE DEF Good
  <2>1. QED
    BY <1>1, <1>2, Induction
<1>4. QED
  BY <1>3, Smaller

(* The fold's own function is one of them.                                  *)
LEMMA SumIs ==
    ASSUME NEW S, IsFiniteSet(S), NEW f, \A x \in S : f[x] \in Int
    PROVE  \E g : IsSum(g, f, S) /\ SumOf(f, S) = g[S]
<1>1. \E g : g = [s \in SUBSET S |-> IF s = {} THEN 0
                                       ELSE LET x == CHOOSE x \in s : TRUE
                                            IN  f[x] + g[s \ {x}]]
  <2>1. \E g : IsSum(g, f, S)
    BY SumExists
  <2>2. QED
    BY <2>1 DEF IsSum, Pick
<1>2. \E g : /\ g = [s \in SUBSET S |-> IF s = {} THEN 0
                                          ELSE LET x == CHOOSE x \in s : TRUE
                                               IN  f[x] + g[s \ {x}]]
             /\ SumOf(f, S) = g[S]
  BY <1>1 DEF SumOf, MapThenSumSet, MapThenFoldSet
<1>3. QED
  BY <1>2 DEF IsSum, Pick
-----------------------------------------------------------------------------
(* What the other modules use of the sums.                                  *)

LEMMA SumEmpty ==
    ASSUME NEW f
    PROVE  SumOf(f, {}) = 0
BY SumIs, SumSteps, FS_EmptySet

LEMMA SumType ==
    ASSUME NEW S, IsFiniteSet(S), NEW f, \A x \in S : f[x] \in Int
    PROVE  SumOf(f, S) \in Int
BY SumIs, SumIsInt

(* A term more.                                                             *)
LEMMA SumAdd ==
    ASSUME NEW S, IsFiniteSet(S), NEW x, x \notin S,
           NEW f, \A y \in S \cup {x} : f[y] \in Int
    PROVE  SumOf(f, S \cup {x}) = f[x] + SumOf(f, S)
<1> DEFINE T == S \cup {x}
<1>1. IsFiniteSet(T)
  BY FS_AddElement
<1>2. PICK g : IsSum(g, f, T) /\ SumOf(f, T) = g[T]
  BY <1>1, SumIs
<1>3. PICK h : IsSum(h, f, S) /\ SumOf(f, S) = h[S]
  BY SumIs
<1>4. g[T] = f[x] + g[T \ {x}]
  <2>1. x \in T /\ \A y \in T : f[y] \in Int
    OBVIOUS
  <2> HIDE DEF T
  <2>2. QED
    BY <1>1, <1>2, <2>1, SumTakes
<1>5. T \ {x} = S /\ S \in SUBSET (T \cap S)
  OBVIOUS
<1>6. g[S] = h[S]
  BY <1>2, <1>3, <1>5, SumsAgree
<1>7. QED
  BY <1>2, <1>3, <1>4, <1>5, <1>6

(* The same terms.                                                          *)
LEMMA SumSame ==
    ASSUME NEW S, IsFiniteSet(S), NEW f, \A x \in S : f[x] \in Int,
           NEW e, \A x \in S : e[x] = f[x]
    PROVE  SumOf(e, S) = SumOf(f, S)
<1>1. PICK g : IsSum(g, f, S) /\ SumOf(f, S) = g[S]
  BY SumIs
<1>2. PICK h : IsSum(h, e, S) /\ SumOf(e, S) = h[S]
  BY SumIs
<1>3. S \in SUBSET (S \cap S)
  OBVIOUS
<1>4. QED
  BY <1>1, <1>2, <1>3, SumsAgree

(* Natural numbers add up to one.                                           *)
LEMMA SumNat ==
    ASSUME NEW S, IsFiniteSet(S), NEW f, \A x \in S : f[x] \in Nat
    PROVE  SumOf(f, S) \in Nat
<1> DEFINE Good == {n \in Nat : \A s \in SUBSET S : Cardinality(s) = n => SumOf(f, s) \in Nat}
<1>1. 0 \in Good
  BY Smaller, SumEmpty
<1>2. ASSUME NEW n \in Nat, n \in Good
      PROVE  n + 1 \in Good
  <2>1. ASSUME NEW s \in SUBSET S, Cardinality(s) = n + 1
        PROVE  SumOf(f, s) \in Nat
    <3>1. s # {} /\ Pick(s) \in s
      BY <2>1, Smaller, PickIn
    <3> DEFINE t == s \ {Pick(s)}
    <3>2. Cardinality(t) = n /\ t \in SUBSET S /\ IsFiniteSet(t) /\ Pick(s) \notin t
      BY <2>1, <3>1, Smaller
    <3>3. SumOf(f, t) \in Nat /\ f[Pick(s)] \in Nat
      BY <1>2, <3>1, <3>2
    <3>4. t \cup {Pick(s)} = s
      BY <3>1
    <3>5. SumOf(f, t \cup {Pick(s)}) = f[Pick(s)] + SumOf(f, t)
      <4>1. \A y \in t \cup {Pick(s)} : f[y] \in Int
        BY <3>4
      <4> HIDE DEF t
      <4>2. QED
        BY <3>2, <4>1, SumAdd
    <3>6. SumOf(f, s) = f[Pick(s)] + SumOf(f, t)
      BY <3>4, <3>5
    <3> HIDE DEF t
    <3>7. QED
      BY <3>3, <3>6
  <2>2. QED
    BY <2>1
<1>3. \A n \in Nat : n \in Good
  <2> HIDE DEF Good
  <2>1. QED
    BY <1>1, <1>2, Induction
<1>4. QED
  BY <1>3, Smaller

(* Fewer natural numbers add up to no more.                                 *)
LEMMA SumPart ==
    ASSUME NEW S, IsFiniteSet(S), NEW f, \A x \in S : f[x] \in Nat, NEW U \in SUBSET S
    PROVE  SumOf(f, U) <= SumOf(f, S)
<1> DEFINE Good == {n \in Nat : \A s \in SUBSET S :
                       Cardinality(s) = n => SumOf(f, S \ s) <= SumOf(f, S)}
<1>0. \A s \in SUBSET S : SumOf(f, s) \in Nat
  BY FS_Subset, SumNat
<1>1. 0 \in Good
  <2>1. \A s \in SUBSET S : Cardinality(s) = 0 => S \ s = S
    BY Smaller
  <2>2. SumOf(f, S) <= SumOf(f, S)
    BY <1>0
  <2>3. QED
    BY <2>1, <2>2
<1>2. ASSUME NEW n \in Nat, n \in Good
      PROVE  n + 1 \in Good
  <2>1. ASSUME NEW s \in SUBSET S, Cardinality(s) = n + 1
        PROVE  SumOf(f, S \ s) <= SumOf(f, S)
    <3>1. s # {} /\ Pick(s) \in s
      BY <2>1, Smaller, PickIn
    <3> DEFINE t == s \ {Pick(s)}
               r == S \ s
    <3>2. Cardinality(t) = n /\ t \in SUBSET S
      BY <2>1, <3>1, Smaller
    <3>3. SumOf(f, S \ t) <= SumOf(f, S)
      BY <1>2, <3>2
    <3>4. S \ t = r \cup {Pick(s)} /\ IsFiniteSet(r) /\ Pick(s) \notin r
      BY <3>1, FS_Subset
    <3>5. SumOf(f, r \cup {Pick(s)}) = f[Pick(s)] + SumOf(f, r)
      <4>1. \A y \in r \cup {Pick(s)} : f[y] \in Int
        BY <3>1
      <4> HIDE DEF r
      <4>2. QED
        BY <3>4, <4>1, SumAdd
    <3>6. SumOf(f, r) \in Nat /\ SumOf(f, S) \in Nat /\ f[Pick(s)] \in Nat
      BY <1>0, <3>1
    <3>7. SumOf(f, S \ t) = f[Pick(s)] + SumOf(f, r)
      BY <3>4, <3>5
    <3> HIDE DEF t
    <3>8. SumOf(f, r) <= SumOf(f, S)
      <4> HIDE DEF r
      <4>1. QED
        BY <3>3, <3>6, <3>7
    <3>9. QED
      BY <3>8
  <2>2. QED
    BY <2>1
<1>3. \A n \in Nat : n \in Good
  <2> HIDE DEF Good
  <2>1. QED
    BY <1>1, <1>2, Induction
<1>4. Cardinality(S \ U) \in Nat /\ S \ (S \ U) = U /\ S \ U \in SUBSET S
  BY Smaller
<1>5. QED
  BY <1>3, <1>4

(* Terms that are 0 do not count.                                           *)
LEMMA SumZeros ==
    ASSUME NEW S, IsFiniteSet(S), NEW f, \A x \in S : f[x] \in Int,
           NEW U \in SUBSET S, \A x \in S \ U : f[x] = 0
    PROVE  SumOf(f, U) = SumOf(f, S)
<1> DEFINE Good == {n \in Nat : \A s \in SUBSET (S \ U) :
                       Cardinality(s) = n => SumOf(f, S \ s) = SumOf(f, S)}
<1>0. IsFiniteSet(S \ U)
  BY FS_Subset
<1>1. 0 \in Good
  <2>1. \A s \in SUBSET (S \ U) : Cardinality(s) = 0 => S \ s = S
    BY <1>0, Smaller
  <2>2. QED
    BY <2>1
<1>2. ASSUME NEW n \in Nat, n \in Good
      PROVE  n + 1 \in Good
  <2>1. ASSUME NEW s \in SUBSET (S \ U), Cardinality(s) = n + 1
        PROVE  SumOf(f, S \ s) = SumOf(f, S)
    <3>1. s # {} /\ Pick(s) \in s
      BY <1>0, <2>1, Smaller, PickIn
    <3> DEFINE t == s \ {Pick(s)}
               r == S \ s
    <3>2. Cardinality(t) = n /\ t \in SUBSET (S \ U)
      BY <1>0, <2>1, <3>1, Smaller
    <3>3. SumOf(f, S \ t) = SumOf(f, S)
      BY <1>2, <3>2
    <3>4. S \ t = r \cup {Pick(s)} /\ IsFiniteSet(r) /\ Pick(s) \notin r
      BY <3>1, FS_Subset
    <3>5. SumOf(f, r \cup {Pick(s)}) = f[Pick(s)] + SumOf(f, r)
      <4>1. \A y \in r \cup {Pick(s)} : f[y] \in Int
        BY <3>1
      <4> HIDE DEF r
      <4>2. QED
        BY <3>4, <4>1, SumAdd
    <3>6. SumOf(f, r) \in Int
      BY <3>4, SumType
    <3>7. f[Pick(s)] = 0
      BY <3>1
    <3>8. SumOf(f, S \ t) = f[Pick(s)] + SumOf(f, r)
      BY <3>4, <3>5
    <3>9. SumOf(f, S \ t) = SumOf(f, r)
      <4> HIDE DEF r, t
      <4>1. QED
        BY <3>6, <3>7, <3>8
    <3>10. QED
      BY <3>3, <3>9
  <2>2. QED
    BY <2>1
<1>3. \A n \in Nat : n \in Good
  <2> HIDE DEF Good
  <2>1. QED
    BY <1>1, <1>2, Induction
<1>4. Cardinality(S \ U) \in Nat /\ S \ (S \ U) = U
  BY Smaller
<1>5. QED
  BY <1>3, <1>4
=============================================================================
