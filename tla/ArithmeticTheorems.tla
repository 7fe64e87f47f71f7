-------------------------- MODULE ArithmeticTheorems --------------------------
(***************************************************************************)
(* The facts the proofs share: sums over finite sets, as SumFunction of    *)
(* the community modules defines them, folds along a sequence as FoldLeft  *)
(* does, least and greatest elements, and division with remainder.         *)
(* Induction is over sets: a property of naturals or of finite sets is the *)
(* set of those that have it, so that the induction lemmas below are       *)
(* first-order and every prover can instantiate them.                      *)
(***************************************************************************)
EXTENDS Integers, Sequences, FiniteSetsExt, FiniteSetTheorems, WellFoundedInduction, TLAPS

(* Induction on the naturals, for the set P of those that have a property. *)
LEMMA InductionOnNat ==
  ASSUME NEW P, 0 \in P, \A n \in Nat : n \in P => n + 1 \in P
  PROVE  Nat \subseteq P
<1> DEFINE R == {ss \in Nat \X Nat : ss[1] < ss[2]}
           Bad == Nat \ P
<1>1. IsWellFoundedOn(R, Nat)
  <2>1. R = OpToRel(<, Nat)
    BY DEF OpToRel
  <2> QED BY <2>1, NatLessThanWellFounded
<1>2. ASSUME Bad # {} PROVE FALSE
  <2>1. PICK n \in Bad : \A m \in Bad : <<m, n>> \notin R
    <3>1. Bad \subseteq Nat
      OBVIOUS
    <3> HIDE DEF R, Bad
    <3> QED BY <1>1, <1>2, <3>1, WFMin
  <2>2. n \in Nat /\ n # 0 /\ n - 1 \in Nat
    OBVIOUS
  <2>3. n - 1 \notin Bad
    <3>1. <<n - 1, n>> \in R
      BY <2>2
    <3> HIDE DEF R, Bad
    <3> QED BY <2>1, <3>1
  <2>4. (n - 1) + 1 \in P
    BY <2>2, <2>3
  <2> QED BY <2>2, <2>4
<1> QED BY <1>2

(* Induction on the subsets of a finite set, one element at a time.        *)
LEMMA InductionOnSubsets ==
  ASSUME NEW S, IsFiniteSet(S), NEW P, {} \in P,
         \A s \in SUBSET S : s # {} /\ (\A x \in s : s \ {x} \in P) => s \in P
  PROVE  SUBSET S \subseteq P
<1> DEFINE Q == {n \in Nat : \A s \in SUBSET S : Cardinality(s) = n => s \in P}
<1>1. ASSUME NEW s \in SUBSET S
      PROVE  IsFiniteSet(s) /\ Cardinality(s) \in Nat
  BY FS_Subset, FS_CardinalityType
<1>2. 0 \in Q
  BY <1>1, FS_EmptySet
<1>3. ASSUME NEW n \in Nat, n \in Q PROVE n + 1 \in Q
  <2> SUFFICES ASSUME NEW s \in SUBSET S, Cardinality(s) = n + 1 PROVE s \in P
    OBVIOUS
  <2>1. s # {}
    BY FS_EmptySet
  <2>2. ASSUME NEW x \in s PROVE s \ {x} \in P
    <3>1. Cardinality(s \ {x}) = n
      BY <1>1, FS_RemoveElement
    <3> QED BY <1>3, <3>1
  <2> QED BY <2>1, <2>2
<1>4. Nat \subseteq Q
  <2> HIDE DEF Q
  <2> QED BY <1>2, <1>3, InductionOnNat
<1> QED BY <1>1, <1>4
-----------------------------------------------------------------------------
(* A finite set of integers that is not empty has a greatest and a least   *)
(* element, and Max and Min return them.                                   *)
LEMMA MaxMin ==
  ASSUME NEW S, IsFiniteSet(S), S \subseteq Int, S # {}
  PROVE  /\ Max(S) \in S /\ \A y \in S : y <= Max(S)
         /\ Min(S) \in S /\ \A y \in S : Min(S) <= y
<1> DEFINE P == {s \in SUBSET S :
                   s # {} => /\ \E x \in s : \A y \in s : x >= y
                             /\ \E x \in s : \A y \in s : x =< y}
<1>1. {} \in P
  OBVIOUS
<1>2. ASSUME NEW s \in SUBSET S, s # {}, \A x \in s : s \ {x} \in P PROVE s \in P
  <2> PICK z : z \in s
    BY <1>2
  <2>1. CASE s = {z}
    BY <2>1
  <2>2. CASE s # {z}
    <3>1. s \ {z} # {}
      BY <2>2
    <3>2. PICK a \in s \ {z} : \A y \in s \ {z} : a >= y
      BY <1>2, <3>1
    <3>3. PICK b \in s \ {z} : \A y \in s \ {z} : b =< y
      BY <1>2, <3>1
    <3>4. \E x \in s : \A y \in s : x >= y
      <4>1. CASE a >= z BY <3>2, <4>1
      <4>2. CASE z >= a BY <3>2, <4>2
      <4> QED BY <4>1, <4>2
    <3>5. \E x \in s : \A y \in s : x =< y
      <4>1. CASE b =< z BY <3>3, <4>1
      <4>2. CASE z =< b BY <3>3, <4>2
      <4> QED BY <4>1, <4>2
    <3> QED BY <3>4, <3>5
  <2> QED BY <2>1, <2>2
<1>3. SUBSET S \subseteq P
  <2> HIDE DEF P
  <2> QED BY <1>1, <1>2, InductionOnSubsets
<1>4. (\E x \in S : \A y \in S : x >= y) /\ (\E x \in S : \A y \in S : x =< y)
  BY <1>3
<1> QED BY <1>4 DEF Max, Min
-----------------------------------------------------------------------------
(* The recursion behind a sum: f holds the sum of g over every subset.     *)
Pick(s) == CHOOSE x \in s : TRUE
Term(f, g, s) == IF s = {} THEN 0 ELSE g[Pick(s)] + f[s \ {Pick(s)}]
Sums(f, g, S) == f = [s \in SUBSET S |-> Term(f, g, s)]

(* SumFunctionOnSet is that recursion.                                     *)
LEMMA SumUnfold ==
  ASSUME NEW g, NEW S
  PROVE  SumFunctionOnSet(g, S) = (CHOOSE f : Sums(f, g, S))[S]
BY DEF SumFunctionOnSet, FoldFunctionOnSet, MapThenFoldSet, Sums, Term, Pick

(* The choice picks an element, and leaves a smaller set.                  *)
LEMMA PickIn ==
  ASSUME NEW s, s # {}
  PROVE  Pick(s) \in s
BY DEF Pick

(* The subsets of S with at most n elements, and sums over those only.     *)
Small(n, S) == {s \in SUBSET S : Cardinality(s) <= n}
SumsTo(f, g, S, n) ==
  f \in [Small(n, S) -> Int] /\ \A s \in Small(n, S) : f[s] = Term(f, g, s)

(* Sums over the subsets of size n give those over size n + 1.             *)
LEMMA SumsToStep ==
  ASSUME NEW S, IsFiniteSet(S), NEW g \in [S -> Int], NEW n \in Nat,
         NEW f, SumsTo(f, g, S, n)
  PROVE  \E h : SumsTo(h, g, S, n + 1)
<1> DEFINE h == [s \in Small(n + 1, S) |-> Term(f, g, s)]
<1>1. ASSUME NEW s \in Small(n + 1, S), s # {}
      PROVE  /\ s \ {Pick(s)} \in Small(n, S) /\ g[Pick(s)] \in Int
             /\ f[s \ {Pick(s)}] \in Int
  <2>1. IsFiniteSet(s) /\ Cardinality(s) \in Nat /\ Pick(s) \in s
    BY <1>1, PickIn, FS_Subset, FS_CardinalityType DEF Small
  <2>2. Cardinality(s \ {Pick(s)}) = Cardinality(s) - 1
    BY <2>1, FS_RemoveElement
  <2>3. s \ {Pick(s)} \in Small(n, S)
    BY <2>1, <2>2 DEF Small
  <2> QED BY <2>1, <2>3 DEF Small, SumsTo
<1>2. ASSUME NEW s \in Small(n + 1, S) PROVE Term(f, g, s) \in Int
  BY <1>1 DEF Term
<1>3. ASSUME NEW s \in Small(n, S) PROVE s \in Small(n + 1, S) /\ h[s] = f[s]
  <2>1. s \in Small(n + 1, S)
    BY FS_Subset, FS_CardinalityType DEF Small
  <2> QED BY <2>1 DEF SumsTo
<1>4. ASSUME NEW s \in Small(n + 1, S) PROVE Term(f, g, s) = Term(h, g, s)
  <2> HIDE DEF h
  <2> QED BY <1>1, <1>3 DEF Term
<1>5. SumsTo(h, g, S, n + 1)
  BY <1>2, <1>4 DEF SumsTo
<1> QED BY <1>5

(* The recursion has a solution on all subsets of a finite set.            *)
LEMMA SumsExist ==
  ASSUME NEW S, IsFiniteSet(S), NEW g \in [S -> Int]
  PROVE  \E f \in [SUBSET S -> Int] : Sums(f, g, S)
<1> DEFINE P == {n \in Nat : \E f : SumsTo(f, g, S, n)}
<1>1. 0 \in P
  <2> DEFINE h == [s \in Small(0, S) |-> 0]
  <2>1. ASSUME NEW s \in Small(0, S) PROVE s = {}
    BY FS_Subset, FS_CardinalityType, FS_EmptySet DEF Small
  <2>2. SumsTo(h, g, S, 0)
    BY <2>1 DEF SumsTo, Term
  <2> QED BY <2>2
<1>2. ASSUME NEW n \in Nat, n \in P PROVE n + 1 \in P
  BY <1>2, SumsToStep
<1>3. Nat \subseteq P
  <2> HIDE DEF P
  <2> QED BY <1>1, <1>2, InductionOnNat
<1>4. Cardinality(S) \in P
  BY <1>3, FS_CardinalityType
<1>5. PICK f : SumsTo(f, g, S, Cardinality(S))
  BY <1>4
<1>6. Small(Cardinality(S), S) = SUBSET S
  BY FS_Subset DEF Small
<1> QED BY <1>5, <1>6 DEF SumsTo, Sums

(* Two solutions agree where both are defined.                             *)
LEMMA SumsAgree ==
  ASSUME NEW S, IsFiniteSet(S), NEW T \in SUBSET S, NEW g, NEW f, NEW h,
         Sums(f, g, S), Sums(h, g, T)
  PROVE  f[T] = h[T]
<1> DEFINE P == {s \in SUBSET T : f[s] = h[s]}
<1>1. ASSUME NEW s \in SUBSET T
      PROVE  f[s] = Term(f, g, s) /\ h[s] = Term(h, g, s)
  BY DEF Sums
<1>2. {} \in P
  BY <1>1 DEF Term
<1>3. ASSUME NEW s \in SUBSET T, s # {}, \A x \in s : s \ {x} \in P PROVE s \in P
  BY <1>1, <1>3, PickIn DEF Term
<1>4. IsFiniteSet(T)
  BY FS_Subset
<1>5. SUBSET T \subseteq P
  <2> HIDE DEF P
  <2> QED BY <1>2, <1>3, <1>4, InductionOnSubsets
<1> QED BY <1>5

(* What SumFunctionOnSet returns on every subset of S is one such solution. *)
Totals(f, g, S) ==
  /\ f \in [SUBSET S -> Int] /\ Sums(f, g, S)
  /\ \A T \in SUBSET S : SumFunctionOnSet(g, T) = f[T]

LEMMA SumsTotal ==
  ASSUME NEW S, IsFiniteSet(S), NEW g, \A x \in S : g[x] \in Int
  PROVE  \E f : Totals(f, g, S)
<1> DEFINE r == [x \in S |-> g[x]]
<1>1. r \in [S -> Int]
  OBVIOUS
<1>2. PICK f \in [SUBSET S -> Int] : Sums(f, r, S)
  <2> HIDE DEF r
  <2> QED BY <1>1, SumsExist
<1>3. Sums(f, g, S)
  <2>1. ASSUME NEW s \in SUBSET S PROVE Term(f, r, s) = Term(f, g, s)
    <3>1. s # {} => Pick(s) \in S
      BY PickIn
    <3> QED BY <3>1 DEF Term
  <2> HIDE DEF r
  <2> QED BY <1>2, <2>1 DEF Sums
<1>4. ASSUME NEW T \in SUBSET S
      PROVE  SumFunctionOnSet(g, T) = f[T]
  <2> DEFINE h == [s \in SUBSET T |-> f[s]]
  <2>1. Sums(h, g, T)
    <3>1. ASSUME NEW s \in SUBSET T PROVE f[s] = Term(h, g, s)
      <4>1. f[s] = Term(f, g, s)
        BY <1>3 DEF Sums
      <4>2. s \ {Pick(s)} \in SUBSET T
        OBVIOUS
      <4> QED BY <4>1, <4>2 DEF Term
    <3>2. h = [s \in SUBSET T |-> Term(h, g, s)]
      <4>1. \A s \in SUBSET T : f[s] = Term(h, g, s)
        BY <3>1
      <4> QED BY <4>1
    <3> HIDE DEF h
    <3> QED BY <3>2 DEF Sums
  <2>2. Sums(CHOOSE k : Sums(k, g, T), g, T)
    <3> HIDE DEF h
    <3> QED BY <2>1
  <2>3. f[T] = (CHOOSE k : Sums(k, g, T))[T]
    BY <1>3, <2>2, SumsAgree
  <2> QED BY <2>3, SumUnfold
<1>5. Totals(f, g, S)
  BY <1>3, <1>4 DEF Totals
<1> QED BY <1>5
-----------------------------------------------------------------------------
(* The sum over no element is 0.                                           *)
LEMMA SumEmpty ==
  ASSUME NEW g
  PROVE  SumFunctionOnSet(g, {}) = 0
<1>1. PICK f : Totals(f, g, {})
  BY FS_EmptySet, SumsTotal
<1>2. f[{}] = 0 /\ SumFunctionOnSet(g, {}) = f[{}]
  BY <1>1 DEF Totals, Sums, Term
<1> QED BY <1>2

(* A sum of integers is an integer.                                        *)
LEMMA SumType ==
  ASSUME NEW S, IsFiniteSet(S), NEW g, \A x \in S : g[x] \in Int
  PROVE  SumFunctionOnSet(g, S) \in Int
<1>1. PICK f : Totals(f, g, S)
  BY SumsTotal
<1> QED BY <1>1 DEF Totals

(* Any element can be summed first.                                        *)
LEMMA SumRemove ==
  ASSUME NEW S, IsFiniteSet(S), NEW g, \A x \in S : g[x] \in Int, NEW x \in S
  PROVE  SumFunctionOnSet(g, S) = g[x] + SumFunctionOnSet(g, S \ {x})
<1>1. PICK f : Totals(f, g, S)
  BY SumsTotal
<1> DEFINE P == {s \in SUBSET S : \A y \in s : f[s] = g[y] + f[s \ {y}]}
<1>2. {} \in P
  OBVIOUS
<1>3. ASSUME NEW s \in SUBSET S, s # {}, \A y \in s : s \ {y} \in P PROVE s \in P
  <2> SUFFICES ASSUME NEW y \in s PROVE f[s] = g[y] + f[s \ {y}]
    OBVIOUS
  <2> DEFINE z == Pick(s)
  <2>1. z \in s /\ f[s] = g[z] + f[s \ {z}]
    BY <1>1, <1>3, PickIn DEF Totals, Sums, Term
  <2> HIDE DEF z
  <2>2. CASE y = z
    BY <2>1, <2>2
  <2>3. CASE y # z
    <3>1. /\ f[s \ {z}] = g[y] + f[(s \ {z}) \ {y}]
          /\ f[s \ {y}] = g[z] + f[(s \ {y}) \ {z}]
      BY <1>3, <2>1, <2>3
    <3>2. (s \ {z}) \ {y} = (s \ {y}) \ {z}
      OBVIOUS
    <3>3. g[y] \in Int /\ g[z] \in Int /\ f[(s \ {y}) \ {z}] \in Int
      BY <1>1, <2>1 DEF Totals
    <3>4. f[s] = g[z] + (g[y] + f[(s \ {y}) \ {z}])
      BY <2>1, <3>1, <3>2
    <3>5. g[y] + f[s \ {y}] = g[y] + (g[z] + f[(s \ {y}) \ {z}])
      BY <3>1
    <3> HIDE DEF P
    <3> QED BY <3>3, <3>4, <3>5
  <2> QED BY <2>2, <2>3
<1>4. SUBSET S \subseteq P
  <2> HIDE DEF P
  <2> QED BY <1>2, <1>3, InductionOnSubsets
<1>5. f[S] = g[x] + f[S \ {x}]
  BY <1>4
<1> QED BY <1>1, <1>5 DEF Totals

(* What a sum over s is once its element x is taken out.                   *)
LEMMA SumStep ==
  ASSUME NEW S, IsFiniteSet(S), NEW g, \A x \in S : g[x] \in Int,
         NEW s \in SUBSET S, NEW x \in s
  PROVE  /\ SumFunctionOnSet(g, s) = g[x] + SumFunctionOnSet(g, s \ {x})
         /\ SumFunctionOnSet(g, s) \in Int /\ SumFunctionOnSet(g, s \ {x}) \in Int
         /\ g[x] \in Int
<1>1. IsFiniteSet(s) /\ IsFiniteSet(s \ {x})
  BY FS_Subset
<1>2. SumFunctionOnSet(g, s) \in Int
  BY <1>1, SumType
<1>3. SumFunctionOnSet(g, s \ {x}) \in Int
  BY <1>1, SumType
<1>4. SumFunctionOnSet(g, s) = g[x] + SumFunctionOnSet(g, s \ {x})
  BY <1>1, SumRemove
<1> QED BY <1>2, <1>3, <1>4

(* The sum of a difference is the difference of the sums.                  *)
LEMMA SumDifference ==
  ASSUME NEW S, IsFiniteSet(S), NEW f, NEW g, NEW h,
         \A x \in S : f[x] \in Int /\ g[x] \in Int /\ h[x] = f[x] - g[x]
  PROVE  SumFunctionOnSet(h, S) = SumFunctionOnSet(f, S) - SumFunctionOnSet(g, S)
<1> DEFINE P == {s \in SUBSET S :
                   SumFunctionOnSet(h, s) = SumFunctionOnSet(f, s) - SumFunctionOnSet(g, s)}
<1>1. {} \in P
  BY SumEmpty
<1>2. ASSUME NEW s \in SUBSET S, s # {}, \A x \in s : s \ {x} \in P PROVE s \in P
  <2>1. PICK x : x \in s
    BY <1>2
  <2>2. SumFunctionOnSet(h, s \ {x}) = SumFunctionOnSet(f, s \ {x}) - SumFunctionOnSet(g, s \ {x})
    BY <1>2, <2>1
  <2>3. /\ SumFunctionOnSet(f, s) = f[x] + SumFunctionOnSet(f, s \ {x})
        /\ SumFunctionOnSet(f, s \ {x}) \in Int /\ f[x] \in Int
    BY <2>1, SumStep
  <2>4. /\ SumFunctionOnSet(g, s) = g[x] + SumFunctionOnSet(g, s \ {x})
        /\ SumFunctionOnSet(g, s \ {x}) \in Int /\ g[x] \in Int
    BY <2>1, SumStep
  <2>5. SumFunctionOnSet(h, s) = (f[x] - g[x]) + SumFunctionOnSet(h, s \ {x})
    <3>1. \A y \in S : h[y] \in Int
      OBVIOUS
    <3> QED BY <2>1, <3>1, SumStep
  <2> QED BY <2>2, <2>3, <2>4, <2>5
<1>3. SUBSET S \subseteq P
  <2> HIDE DEF P
  <2> QED BY <1>1, <1>2, InductionOnSubsets
<1> QED BY <1>3

(* A sum depends on the summands only.                                     *)
LEMMA SumEqual ==
  ASSUME NEW S, IsFiniteSet(S), NEW f, NEW h, \A x \in S : f[x] \in Int /\ h[x] = f[x]
  PROVE  SumFunctionOnSet(h, S) = SumFunctionOnSet(f, S)
<1> DEFINE P == {s \in SUBSET S : SumFunctionOnSet(h, s) = SumFunctionOnSet(f, s)}
<1>1. {} \in P
  BY SumEmpty
<1>2. ASSUME NEW s \in SUBSET S, s # {}, \A x \in s : s \ {x} \in P PROVE s \in P
  <2>1. PICK x : x \in s
    BY <1>2
  <2>2. SumFunctionOnSet(h, s \ {x}) = SumFunctionOnSet(f, s \ {x})
    BY <1>2, <2>1
  <2>3. SumFunctionOnSet(f, s) = f[x] + SumFunctionOnSet(f, s \ {x})
    BY <2>1, SumStep
  <2>4. SumFunctionOnSet(h, s) = f[x] + SumFunctionOnSet(h, s \ {x})
    <3>1. \A y \in S : h[y] \in Int
      OBVIOUS
    <3> QED BY <2>1, <3>1, SumStep
  <2> QED BY <2>2, <2>3, <2>4
<1>3. SUBSET S \subseteq P
  <2> HIDE DEF P
  <2> QED BY <1>1, <1>2, InductionOnSubsets
<1> QED BY <1>3

(* Elements that count 0 may be left out.                                  *)
LEMMA SumOutside ==
  ASSUME NEW S, IsFiniteSet(S), NEW T \in SUBSET S, NEW f,
         \A x \in S : f[x] \in Int, \A x \in S \ T : f[x] = 0
  PROVE  SumFunctionOnSet(f, S) = SumFunctionOnSet(f, T)
<1> DEFINE P == {s \in SUBSET (S \ T) : SumFunctionOnSet(f, T \cup s) = SumFunctionOnSet(f, T)}
<1>1. {} \in P
  <2>1. T \cup {} = T
    OBVIOUS
  <2> QED BY <2>1
<1>2. ASSUME NEW s \in SUBSET (S \ T), s # {}, \A x \in s : s \ {x} \in P PROVE s \in P
  <2>1. PICK x : x \in s
    BY <1>2
  <2> DEFINE u == T \cup s
  <2>2. u \in SUBSET S /\ x \in u /\ u \ {x} = T \cup (s \ {x})
    BY <2>1
  <2>3. SumFunctionOnSet(f, u \ {x}) = SumFunctionOnSet(f, T)
    <3>1. SumFunctionOnSet(f, T \cup (s \ {x})) = SumFunctionOnSet(f, T)
      BY <1>2, <2>1
    <3> HIDE DEF u, P
    <3> QED BY <2>2, <3>1
  <2>4. SumFunctionOnSet(f, u) = f[x] + SumFunctionOnSet(f, u \ {x})
    <3> HIDE DEF u, P
    <3> QED BY <2>2, SumStep
  <2>5. f[x] = 0 /\ SumFunctionOnSet(f, T) \in Int
    BY <2>1, FS_Subset, SumType
  <2>6. SumFunctionOnSet(f, u) = SumFunctionOnSet(f, T)
    <3> HIDE DEF u, P
    <3> QED BY <2>3, <2>4, <2>5
  <2> QED BY <2>6
<1>3. IsFiniteSet(S \ T)
  BY FS_Subset
<1>4. SUBSET (S \ T) \subseteq P
  <2> HIDE DEF P
  <2> QED BY <1>1, <1>2, <1>3, InductionOnSubsets
<1>5. SumFunctionOnSet(f, T \cup (S \ T)) = SumFunctionOnSet(f, T)
  BY <1>4
<1>6. T \cup (S \ T) = S
  OBVIOUS
<1> HIDE DEF P
<1> QED BY <1>5, <1>6

(* Naturals below m add up to a natural below m for each of them.          *)
LEMMA SumRange ==
  ASSUME NEW S, IsFiniteSet(S), NEW f, NEW m \in Nat, \A x \in S : f[x] \in 0..m
  PROVE  SumFunctionOnSet(f, S) \in 0..(m * Cardinality(S))
<1> DEFINE P == {s \in SUBSET S : SumFunctionOnSet(f, s) \in 0..(m * Cardinality(s))}
<1>1. {} \in P
  BY SumEmpty, FS_EmptySet
<1>2. ASSUME NEW s \in SUBSET S, s # {}, \A x \in s : s \ {x} \in P PROVE s \in P
  <2>1. PICK x : x \in s
    BY <1>2
  <2>2. SumFunctionOnSet(f, s \ {x}) \in 0..(m * Cardinality(s \ {x}))
    BY <1>2, <2>1
  <2>3. SumFunctionOnSet(f, s) = f[x] + SumFunctionOnSet(f, s \ {x})
    <3>1. \A y \in S : f[y] \in Int
      OBVIOUS
    <3> QED BY <2>1, <3>1, SumStep
  <2>4. Cardinality(s) \in Nat /\ Cardinality(s \ {x}) = Cardinality(s) - 1
    BY <2>1, FS_Subset, FS_CardinalityType, FS_RemoveElement
  <2>5. m * (Cardinality(s) - 1) = m * Cardinality(s) - m
    BY <2>4
  <2>6. f[x] \in 0..m
    BY <2>1
  <2>7. SumFunctionOnSet(f, s) \in 0..(m * Cardinality(s))
    <3> DEFINE c == m * Cardinality(s)
    <3>1. c \in Int
      BY <2>4
    <3>2. SumFunctionOnSet(f, s \ {x}) \in 0..(c - m)
      BY <2>2, <2>4, <2>5
    <3>3. SumFunctionOnSet(f, s) \in 0..c
      <4> HIDE DEF c
      <4> QED BY <2>3, <2>6, <3>1, <3>2
    <3> QED BY <3>3
  <2> QED BY <2>7
<1>3. SUBSET S \subseteq P
  <2> HIDE DEF P
  <2> QED BY <1>1, <1>2, InductionOnSubsets
<1> QED BY <1>3

(* No summand of a sum of naturals exceeds it.                             *)
LEMMA SumMember ==
  ASSUME NEW S, IsFiniteSet(S), NEW f, NEW m \in Nat, \A y \in S : f[y] \in 0..m,
         NEW x \in S
  PROVE  SumFunctionOnSet(f, S) >= f[x]
<1>1. IsFiniteSet(S \ {x}) /\ Cardinality(S \ {x}) \in Nat
  BY FS_Subset, FS_CardinalityType
<1>2. SumFunctionOnSet(f, S \ {x}) \in 0..(m * Cardinality(S \ {x}))
  BY <1>1, SumRange
<1>3. SumFunctionOnSet(f, S) = f[x] + SumFunctionOnSet(f, S \ {x})
  <2>1. \A y \in S : f[y] \in Int
    OBVIOUS
  <2> QED BY <2>1, SumRemove
<1>4. SumFunctionOnSet(f, S \ {x}) \in Int /\ SumFunctionOnSet(f, S \ {x}) >= 0 /\ f[x] \in Int
  BY <1>1, <1>2
<1> QED BY <1>3, <1>4

(* Changing one summand changes the sum by as much.                        *)
LEMMA SumUpdate ==
  ASSUME NEW S, IsFiniteSet(S), NEW f, NEW h, NEW x \in S,
         \A y \in S : f[y] \in Int /\ h[y] \in Int,
         \A y \in S \ {x} : h[y] = f[y]
  PROVE  SumFunctionOnSet(h, S) = SumFunctionOnSet(f, S) - f[x] + h[x]
<1>1. IsFiniteSet(S \ {x})
  BY FS_Subset
<1>2. SumFunctionOnSet(h, S \ {x}) = SumFunctionOnSet(f, S \ {x})
  BY <1>1, SumEqual
<1>3. SumFunctionOnSet(f, S) = f[x] + SumFunctionOnSet(f, S \ {x})
  BY SumRemove
<1>4. SumFunctionOnSet(h, S) = h[x] + SumFunctionOnSet(h, S \ {x})
  BY SumRemove
<1>5. SumFunctionOnSet(f, S \ {x}) \in Int /\ f[x] \in Int /\ h[x] \in Int
  BY <1>1, SumType
<1> QED BY <1>2, <1>3, <1>4, <1>5

(* Naturals add up to a natural, and part of them to no more than all.     *)
LEMMA SumSubset ==
  ASSUME NEW S, IsFiniteSet(S), NEW f, \A x \in S : f[x] \in Nat, NEW T \in SUBSET S
  PROVE  /\ SumFunctionOnSet(f, S) \in Nat /\ SumFunctionOnSet(f, T) \in Nat
         /\ SumFunctionOnSet(f, T) <= SumFunctionOnSet(f, S)
<1>1. \A x \in S : f[x] \in Int
  OBVIOUS
<1> DEFINE P == {s \in SUBSET S : /\ SumFunctionOnSet(f, s) \in Nat
                                 /\ SumFunctionOnSet(f, s \cap T) \in Nat
                                 /\ SumFunctionOnSet(f, s \cap T) <= SumFunctionOnSet(f, s)}
<1>2. {} \in P
  <2>1. {} \cap T = {}
    OBVIOUS
  <2> QED BY <2>1, SumEmpty
<1>3. ASSUME NEW s \in SUBSET S, s # {}, \A x \in s : s \ {x} \in P PROVE s \in P
  <2>1. PICK x : x \in s
    BY <1>3
  <2>2. /\ SumFunctionOnSet(f, s \ {x}) \in Nat
        /\ SumFunctionOnSet(f, (s \ {x}) \cap T) \in Nat
        /\ SumFunctionOnSet(f, (s \ {x}) \cap T) <= SumFunctionOnSet(f, s \ {x})
    BY <1>3, <2>1
  <2>3. SumFunctionOnSet(f, s) = f[x] + SumFunctionOnSet(f, s \ {x}) /\ f[x] \in Nat
    BY <1>1, <2>1, SumStep
  <2>4. CASE x \in T
    <3>1. s \cap T \in SUBSET S /\ x \in s \cap T /\ (s \cap T) \ {x} = (s \ {x}) \cap T
      BY <2>1, <2>4
    <3>2. SumFunctionOnSet(f, s \cap T) = f[x] + SumFunctionOnSet(f, (s \ {x}) \cap T)
      BY <1>1, <3>1, SumStep
    <3> QED BY <2>2, <2>3, <3>2
  <2>5. CASE x \notin T
    <3>1. s \cap T = (s \ {x}) \cap T
      BY <2>5
    <3> QED BY <2>2, <2>3, <3>1
  <2> QED BY <2>4, <2>5
<1>4. SUBSET S \subseteq P
  <2> HIDE DEF P
  <2> QED BY <1>2, <1>3, InductionOnSubsets
<1>5. S \cap T = T
  OBVIOUS
<1>6. S \in P
  BY <1>4
<1> QED BY <1>5, <1>6

(* One element more.                                                       *)
LEMMA SumAdd ==
  ASSUME NEW S, IsFiniteSet(S), NEW f, \A y \in S : f[y] \in Int,
         NEW U \in SUBSET S, NEW x \in U
  PROVE  SumFunctionOnSet(f, U) = SumFunctionOnSet(f, U \ {x}) + f[x]
BY SumStep

(* Summands that are c above others add up to c more for each of them.     *)
LEMMA SumShift ==
  ASSUME NEW S, IsFiniteSet(S), NEW f, NEW g, NEW c \in Int,
         \A x \in S : g[x] \in Int /\ f[x] = c + g[x]
  PROVE  SumFunctionOnSet(f, S) = c * Cardinality(S) + SumFunctionOnSet(g, S)
<1> DEFINE P == {s \in SUBSET S :
                   SumFunctionOnSet(f, s) = c * Cardinality(s) + SumFunctionOnSet(g, s)}
<1>1. {} \in P
  BY SumEmpty, FS_EmptySet
<1>2. ASSUME NEW s \in SUBSET S, s # {}, \A x \in s : s \ {x} \in P PROVE s \in P
  <2>1. PICK x : x \in s
    BY <1>2
  <2>2. SumFunctionOnSet(f, s \ {x}) = c * Cardinality(s \ {x}) + SumFunctionOnSet(g, s \ {x})
    BY <1>2, <2>1
  <2>3. IsFiniteSet(S) /\ s \in SUBSET S
    OBVIOUS
  <2>a. \A y \in S : f[y] \in Int
    OBVIOUS
  <2>b. \A y \in S : g[y] \in Int
    OBVIOUS
  <2>4. /\ SumFunctionOnSet(f, s) = f[x] + SumFunctionOnSet(f, s \ {x})
        /\ SumFunctionOnSet(f, s \ {x}) \in Int
    BY ONLY <2>1, <2>3, <2>a, SumStep
  <2>5. /\ SumFunctionOnSet(g, s) = g[x] + SumFunctionOnSet(g, s \ {x})
        /\ SumFunctionOnSet(g, s \ {x}) \in Int
    BY ONLY <2>1, <2>3, <2>b, SumStep
  <2>6. Cardinality(s) \in Nat /\ Cardinality(s \ {x}) = Cardinality(s) - 1
    BY <2>1, FS_Subset, FS_CardinalityType, FS_RemoveElement
  <2>7. c * (Cardinality(s) - 1) = c * Cardinality(s) - c /\ c * Cardinality(s) \in Int
    BY <2>6
  <2>8. f[x] = c + g[x] /\ g[x] \in Int
    BY <2>1
  <2>9. SumFunctionOnSet(f, s) = c * Cardinality(s) + SumFunctionOnSet(g, s)
    <3> DEFINE m == c * Cardinality(s)
    <3>1. SumFunctionOnSet(f, s \ {x}) = (m - c) + SumFunctionOnSet(g, s \ {x}) /\ m \in Int
      BY <2>2, <2>6, <2>7
    <3>2. SumFunctionOnSet(f, s) = m + SumFunctionOnSet(g, s)
      <4> HIDE DEF m
      <4> QED BY <2>4, <2>5, <2>8, <3>1
    <3> QED BY <3>2
  <2> QED BY <2>9
<1>3. SUBSET S \subseteq P
  <2> HIDE DEF P
  <2> QED BY <1>1, <1>2, InductionOnSubsets
<1> QED BY <1>3

(* Summands that are at most m times others add up to at most m times      *)
(* their sum.                                                              *)
LEMMA SumScale ==
  ASSUME NEW S, IsFiniteSet(S), NEW f, NEW g, NEW m \in Nat,
         \A x \in S : f[x] \in Int /\ g[x] \in Int /\ f[x] <= g[x] * m
  PROVE  SumFunctionOnSet(f, S) <= SumFunctionOnSet(g, S) * m
<1> DEFINE P == {s \in SUBSET S : SumFunctionOnSet(f, s) <= SumFunctionOnSet(g, s) * m}
<1>1. {} \in P
  BY SumEmpty
<1>2. ASSUME NEW s \in SUBSET S, s # {}, \A x \in s : s \ {x} \in P PROVE s \in P
  <2>1. PICK x : x \in s
    BY <1>2
  <2> DEFINE a == SumFunctionOnSet(f, s \ {x})
             b == SumFunctionOnSet(g, s \ {x})
  <2>2. a <= b * m
    BY <1>2, <2>1
  <2>a. \A y \in S : f[y] \in Int
    OBVIOUS
  <2>b. \A y \in S : g[y] \in Int
    OBVIOUS
  <2>4. SumFunctionOnSet(f, s) = f[x] + a /\ a \in Int
    BY <2>1, <2>a, SumStep
  <2>5. SumFunctionOnSet(g, s) = g[x] + b /\ b \in Int
    BY <2>1, <2>b, SumStep
  <2>6. f[x] \in Int /\ g[x] \in Int /\ f[x] <= g[x] * m
    BY <2>1
  <2> HIDE DEF a, b
  <2>7. (g[x] + b) * m = g[x] * m + b * m /\ g[x] * m \in Int /\ b * m \in Int
    BY <2>5, <2>6
  <2>8. f[x] + a <= (g[x] + b) * m
    BY <2>2, <2>4, <2>6, <2>7
  <2> QED BY <2>4, <2>5, <2>8
<1>3. SUBSET S \subseteq P
  <2> HIDE DEF P
  <2> QED BY <1>1, <1>2, InductionOnSubsets
<1> QED BY <1>3
-----------------------------------------------------------------------------
(* The recursion behind FoldLeft: f holds, for every set of places of s,   *)
(* the fold of the elements there.  The operator folded is the function g  *)
(* on pairs of a state in X and an element in R.                           *)
FoldTerm(f, g, b, s, t) ==
  IF t = {} THEN b ELSE g[<<f[t \ {Max(t)}], s[Max(t)]>>]
FoldsTo(f, g, b, s, X, n) ==
  /\ f \in [Small(n, DOMAIN s) -> X]
  /\ \A t \in Small(n, DOMAIN s) : f[t] = FoldTerm(f, g, b, s, t)
FoldsAll(f, g, b, s, X) ==
  /\ f \in [SUBSET DOMAIN s -> X]
  /\ \A t \in SUBSET DOMAIN s : f[t] = FoldTerm(f, g, b, s, t)

(* The places of a sequence.                                               *)
LEMMA Places ==
  ASSUME NEW R, NEW s \in Seq(R)
  PROVE  /\ IsFiniteSet(DOMAIN s) /\ DOMAIN s = 1..Len(s) /\ Len(s) \in Nat
         /\ \A t \in SUBSET DOMAIN s :
              /\ IsFiniteSet(t) /\ Cardinality(t) \in Nat
              /\ t # {} => Max(t) \in t /\ s[Max(t)] \in R /\ \A y \in t : y <= Max(t)
<1>1. DOMAIN s = 1..Len(s) /\ Len(s) \in Nat
  OBVIOUS
<1>2. IsFiniteSet(DOMAIN s)
  BY <1>1, FS_Interval
<1>3. ASSUME NEW t \in SUBSET DOMAIN s
      PROVE  /\ IsFiniteSet(t) /\ Cardinality(t) \in Nat
             /\ t # {} => Max(t) \in t /\ s[Max(t)] \in R /\ \A y \in t : y <= Max(t)
  <2>1. IsFiniteSet(t) /\ Cardinality(t) \in Nat /\ t \subseteq Int
    BY <1>1, <1>2, FS_Subset, FS_CardinalityType
  <2>2. t # {} => Max(t) \in t /\ \A y \in t : y <= Max(t)
    BY <2>1, MaxMin
  <2>3. \A k \in t : s[k] \in R
    BY <1>1
  <2> QED BY <2>1, <2>2, <2>3
<1> QED BY <1>1, <1>2, <1>3

LEMMA FoldsToStep ==
  ASSUME NEW R, NEW X, NEW s \in Seq(R), NEW g \in [X \X R -> X], NEW b \in X,
         NEW n \in Nat, NEW f, FoldsTo(f, g, b, s, X, n)
  PROVE  \E h : FoldsTo(h, g, b, s, X, n + 1)
<1> DEFINE S == DOMAIN s
           h == [t \in Small(n + 1, S) |-> FoldTerm(f, g, b, s, t)]
<1>1. ASSUME NEW t \in Small(n + 1, S), t # {}
      PROVE  /\ t \ {Max(t)} \in Small(n, S) /\ s[Max(t)] \in R
             /\ f[t \ {Max(t)}] \in X
  <2>1. IsFiniteSet(t) /\ Cardinality(t) \in Nat /\ Max(t) \in t /\ s[Max(t)] \in R
    BY <1>1, Places DEF Small
  <2>2. Cardinality(t \ {Max(t)}) = Cardinality(t) - 1
    BY <2>1, FS_RemoveElement
  <2>3. t \ {Max(t)} \in Small(n, S)
    BY <2>1, <2>2 DEF Small
  <2> QED BY <2>1, <2>3 DEF FoldsTo
<1>2. ASSUME NEW t \in Small(n + 1, S) PROVE FoldTerm(f, g, b, s, t) \in X
  BY <1>1 DEF FoldTerm
<1>3. ASSUME NEW t \in Small(n, S) PROVE t \in Small(n + 1, S) /\ h[t] = f[t]
  <2>1. t \in Small(n + 1, S)
    BY Places DEF Small
  <2> QED BY <2>1 DEF FoldsTo
<1>4. ASSUME NEW t \in Small(n + 1, S) PROVE FoldTerm(f, g, b, s, t) = FoldTerm(h, g, b, s, t)
  <2> HIDE DEF h
  <2> QED BY <1>1, <1>3 DEF FoldTerm
<1>5. FoldsTo(h, g, b, s, X, n + 1)
  BY <1>2, <1>4 DEF FoldsTo
<1> QED BY <1>5

LEMMA FoldsExist ==
  ASSUME NEW R, NEW X, NEW s \in Seq(R), NEW g \in [X \X R -> X], NEW b \in X
  PROVE  \E f : FoldsAll(f, g, b, s, X)
<1> DEFINE S == DOMAIN s
           P == {n \in Nat : \E f : FoldsTo(f, g, b, s, X, n)}
<1>1. 0 \in P
  <2> DEFINE h == [t \in Small(0, S) |-> b]
  <2>1. ASSUME NEW t \in Small(0, S) PROVE t = {}
    BY Places, FS_EmptySet DEF Small
  <2>2. FoldsTo(h, g, b, s, X, 0)
    BY <2>1 DEF FoldsTo, FoldTerm
  <2> QED BY <2>2
<1>2. ASSUME NEW n \in Nat, n \in P PROVE n + 1 \in P
  <2>1. PICK f : FoldsTo(f, g, b, s, X, n)
    BY <1>2
  <2>2. \E h : FoldsTo(h, g, b, s, X, n + 1)
    BY <2>1, FoldsToStep
  <2> QED BY <2>2
<1>3. Nat \subseteq P
  <2> HIDE DEF P
  <2> QED BY <1>1, <1>2, InductionOnNat
<1>4. Cardinality(S) \in P
  BY <1>3, Places
<1>5. PICK f : FoldsTo(f, g, b, s, X, Cardinality(S))
  BY <1>4
<1>6. Small(Cardinality(S), S) = SUBSET S
  BY Places, FS_Subset DEF Small
<1> QED BY <1>5, <1>6 DEF FoldsTo, FoldsAll

(* Along the fold: Z holds a state with the number of elements folded.     *)
LEMMA FoldAlong ==
  ASSUME NEW R, NEW X, NEW s \in Seq(R), NEW g, NEW b \in X,
         NEW f, FoldsAll(f, g, b, s, X), NEW Z, <<0, b>> \in Z,
         \A j \in 0..(Len(s) - 1), x \in X :
           <<j, x>> \in Z => <<j + 1, g[<<x, s[j + 1]>>]>> \in Z
  PROVE  <<Len(s), f[DOMAIN s]>> \in Z
<1> DEFINE P == {n \in Nat : n <= Len(s) => <<n, f[1..n]>> \in Z}
<1>1. DOMAIN s = 1..Len(s) /\ Len(s) \in Nat
  BY Places
<1>2. 0 \in P
  <2>1. 1..0 = {}
    OBVIOUS
  <2> QED BY <1>1, <2>1 DEF FoldsAll, FoldTerm
<1>3. ASSUME NEW n \in Nat, n \in P PROVE n + 1 \in P
  <2> SUFFICES ASSUME n + 1 <= Len(s) PROVE <<n + 1, f[1..(n + 1)]>> \in Z
    OBVIOUS
  <2> DEFINE t == 1..(n + 1)
  <2>1. t \in SUBSET DOMAIN s /\ t # {} /\ n + 1 \in t /\ \A y \in t : y <= n + 1
    <3>1. n + 1 \in t /\ \A y \in t : y <= n + 1
      OBVIOUS
    <3>2. t \subseteq 1..Len(s)
      BY <1>1
    <3> HIDE DEF t
    <3> QED BY <1>1, <3>1, <3>2
  <2>2. Max(t) = n + 1
    <3>1. Max(t) \in t /\ \A y \in t : y <= Max(t)
      <4> HIDE DEF t
      <4> QED BY <2>1, Places
    <3> QED BY <2>1, <3>1
  <2>3. t \ {n + 1} = 1..n /\ 1..n \in SUBSET DOMAIN s
    BY <1>1
  <2>4. f[t] = g[<<f[1..n], s[n + 1]>>] /\ f[1..n] \in X
    <3> HIDE DEF t
    <3> QED BY <2>1, <2>2, <2>3 DEF FoldsAll, FoldTerm
  <2>5. <<n, f[1..n]>> \in Z /\ n \in 0..(Len(s) - 1)
    BY <1>1, <1>3
  <2> QED BY <2>4, <2>5
<1>4. Nat \subseteq P
  <2> HIDE DEF P
  <2> QED BY <1>2, <1>3, InductionOnNat
<1>5. Len(s) \in P
  BY <1>1, <1>4
<1> QED BY <1>1, <1>5
-----------------------------------------------------------------------------
(* Arithmetic modulo the number of slots, as SpscRingBuffer's cursors use  *)
(* it.  The SMT backend treats % by a symbolic divisor as uninterpreted,   *)
(* so every fact is derived from division with remainder.  The average     *)
(* prices of PairTrade and the ages of MarketData are divisions too.       *)

(* Division with remainder: what "& mask_" leaves is a slot index.         *)
LEMMA DivMod ==
  ASSUME NEW n \in Nat, n > 0, NEW a \in Int
  PROVE  a % n \in 0..(n-1) /\ a \div n \in Int /\ a = n * (a \div n) + (a % n)
OBVIOUS

(* Quotient and remainder are unique.                                      *)
LEMMA DivModUnique ==
  ASSUME NEW n \in Nat, n > 0, NEW q \in Int, NEW p \in Int,
         NEW r \in 0..(n-1), NEW s \in 0..(n-1), n * p + r = n * q + s
  PROVE  r = s /\ p = q
<1>1. n * (p - q) = s - r /\ n * (q - p) = r - s
  <2>1. n * p - n * q = n * (p - q) /\ n * q - n * p = n * (q - p)
    OBVIOUS
  <2> QED BY <2>1
<1>2. \A d \in Int : d >= 1 => n * d >= n
  OBVIOUS
<1>3. p = q
  BY <1>1, <1>2
<1> QED BY <1>3

(* A remainder is recognised by any decomposition.                         *)
LEMMA ModIs ==
  ASSUME NEW n \in Nat, n > 0, NEW a \in Int,
         NEW q \in Int, NEW r \in 0..(n-1), a = n * q + r
  PROVE  a % n = r
<1>1. a % n \in 0..(n-1) /\ a \div n \in Int /\ a = n * (a \div n) + (a % n)
  BY DivMod
<1> QED BY <1>1, DivModUnique

(* Masking before an addition does not change its masked result: a cursor  *)
(* that is incremented step by step stays equal to its count modulo n.     *)
LEMMA ModSum ==
  ASSUME NEW n \in Nat, n > 0, NEW a \in Int, NEW d \in Int
  PROVE  ((a % n) + d) % n = (a + d) % n
<1> DEFINE q == a \div n
           r == a % n
           b == r + d
           p == b \div n
           s == b % n
<1>1. r \in 0..(n-1) /\ q \in Int /\ a = n * q + r
  BY DivMod
<1>2. b \in Int /\ b = r + d
  BY <1>1
<1>3. s \in 0..(n-1) /\ p \in Int /\ b = n * p + s
  BY <1>2, DivMod
<1> HIDE DEF q, r, b, p, s
<1>4. n * (q + p) = n * q + n * p
  BY <1>1, <1>3
<1>5. a + d = n * (q + p) + s /\ q + p \in Int /\ a + d \in Int
  BY <1>1, <1>2, <1>3, <1>4
<1>6. (a + d) % n = s
  BY <1>3, <1>5, ModIs
<1> QED BY <1>6 DEF s, b, r

(* The slot of a value is reused by the value n later.                     *)
LEMMA ModShift ==
  ASSUME NEW n \in Nat, n > 0, NEW a \in Int
  PROVE  (a + n) % n = a % n
<1> DEFINE q == a \div n
           r == a % n
<1>1. r \in 0..(n-1) /\ q \in Int /\ a = n * q + r
  BY DivMod
<1> HIDE DEF q, r
<1>2. n * (q + 1) = n * q + n
  BY <1>1
<1>3. a + n = n * (q + 1) + r /\ q + 1 \in Int /\ a + n \in Int
  BY <1>1, <1>2
<1>4. (a + n) % n = r
  BY <1>1, <1>3, ModIs
<1> QED BY <1>4 DEF r

(* (head - tail) & mask_ is the true distance while it is below n.         *)
LEMMA ModDifference ==
  ASSUME NEW n \in Nat, n > 0, NEW a \in Int, NEW b \in Int,
         0 <= a - b, a - b < n
  PROVE  ((a % n) - (b % n)) % n = a - b
<1> DEFINE q == a \div n
           r == a % n
           p == b \div n
           s == b % n
<1>1. r \in 0..(n-1) /\ q \in Int /\ a = n * q + r
  BY DivMod
<1>2. s \in 0..(n-1) /\ p \in Int /\ b = n * p + s
  BY DivMod
<1> HIDE DEF q, r, p, s
<1>3. n * (p - q) = n * p - n * q
  BY <1>1, <1>2
<1>4. r - s = n * (p - q) + (a - b) /\ p - q \in Int /\ r - s \in Int
      /\ a - b \in 0..(n-1)
  BY <1>1, <1>2, <1>3
<1>5. (r - s) % n = a - b
  BY <1>4, ModIs
<1> QED BY <1>5 DEF r, s

(* Values less than n apart never share a slot.                            *)
LEMMA ModInjective ==
  ASSUME NEW n \in Nat, n > 0, NEW a \in Int, NEW b \in Int,
         0 < a - b, a - b < n
  PROVE  a % n # b % n
<1> DEFINE r == a % n
           s == b % n
<1>1. (r - s) % n = a - b
  BY ModDifference, 0 <= a - b
<1>2. 0 % n = 0
  BY ModIs, 0 = n * 0 + 0
<1>3. r \in Int /\ s \in Int
  BY DivMod
<1> HIDE DEF r, s
<1>4. r # s
  BY <1>1, <1>2, <1>3
<1> QED BY <1>4 DEF r, s

(* Any n consecutive values use every slot.                                *)
LEMMA ModCover ==
  ASSUME NEW n \in Nat, n > 0, NEW a \in Int, NEW i \in 0..(n-1)
  PROVE  \E d \in 0..(n-1) : (a + d) % n = i
<1> DEFINE d == (i - a) % n
<1>1. d \in 0..(n-1)
  BY DivMod, i - a \in Int
<1>2. (d + a) % n = ((i - a) + a) % n
  BY ModSum, i - a \in Int
<1>3. i % n = i
  BY ModIs, i = n * 0 + i
<1> HIDE DEF d
<1>4. (a + d) % n = i
  <2>1. (i - a) + a = i /\ d + a = a + d
    BY <1>1
  <2> QED BY <1>2, <1>3, <2>1
<1> QED BY <1>1, <1>4
=============================================================================
