-------------------------------- MODULE Sums --------------------------------
(***************************************************************************)
(* Sums of naturals over a finite set: what the proofs need of the totals   *)
(* of bytes in SsdLedger (what is reserved) and in Pipeline (what the       *)
(* client may fetch).                                                       *)
(*                                                                          *)
(* MapThenSumSet is a fold: a recursive function on the subsets of the set, *)
(* which takes an element by CHOOSE.  That the function exists, that the    *)
(* order does not matter and how sums compare are proved by induction on    *)
(* the subsets, from the fact that their strict order is well-founded.      *)
(***************************************************************************)
EXTENDS Integers, FiniteSetsExt, FiniteSetTheorems, WellFoundedInduction, TLAPS

\* The sum of f over S, as the models write their totals of bytes.
SumOver(f, S) == MapThenSumSet(LAMBDA x : f[x], S)

-----------------------------------------------------------------------------
(* Induction, over the naturals and over the subsets of a finite set: a set *)
(* of counterexamples would have a least element.                           *)

LEMMA NatSteps ==
  ASSUME NEW T \in SUBSET Nat, 0 \in T, \A n \in T : n + 1 \in T
  PROVE  T = Nat
<1> SUFFICES ASSUME T # Nat PROVE FALSE
  OBVIOUS
<1> DEFINE U == Nat \ T
           R == OpToRel(<, Nat)
<1>1. IsWellFoundedOn(R, Nat)
  BY Zenon, NatLessThanWellFounded
<1>2. U \subseteq Nat /\ U # {}
  OBVIOUS
<1>3. \E x \in U : \A y \in U : ~ (<<y, x>> \in R)
  <2> HIDE DEF U, R
  <2> QED
    BY <1>1, <1>2, WFMin
<1>4. PICK x \in U : \A y \in U : ~ (y < x)
  BY <1>3 DEF OpToRel
<1>5. x - 1 \in T
  BY <1>4
<1> QED
  BY <1>4, <1>5

LEMMA SubsetInduction ==
  ASSUME NEW S, IsFiniteSet(S), NEW T,
         \A A \in SUBSET S : (\A B \in SUBSET A : B # A => B \in T) => A \in T
  PROVE  SUBSET S \subseteq T
<1> SUFFICES ASSUME NEW C \in SUBSET S, C \notin T PROVE FALSE
  OBVIOUS
<1> DEFINE U == (SUBSET S) \ T
           R == StrictSubsetOrdering(S)
<1>2. IsWellFoundedOn(R, FiniteSubsetsOf(S))
  BY FS_StrictSubsetOrderingWellFounded
<1>3. FiniteSubsetsOf(S) = SUBSET S
  BY FS_Subset DEF FiniteSubsetsOf
<1>4. U \subseteq SUBSET S /\ U # {}
  OBVIOUS
<1>5. \E x \in U : \A y \in U : ~ (<<y, x>> \in R)
  <2> HIDE DEF U, R
  <2> QED
    BY <1>2, <1>3, <1>4, WFMin
<1>6. PICK x \in U : \A y \in U : <<y, x>> \notin R
  BY <1>5
<1> QED
  BY <1>6 DEF StrictSubsetOrdering

-----------------------------------------------------------------------------
(* The fold.  It takes the elements in the order CHOOSE gives them.         *)

AnyOf(s) == CHOOSE x \in s : TRUE
SumStep(f, it, s) == IF s = {} THEN 0 ELSE f[AnyOf(s)] + it[s \ {AnyOf(s)}]
Partial(f, S) == CHOOSE it : it = [s \in SUBSET S |-> SumStep(f, it, s)]

\* MapThenSumSet is the recursive function Partial ...
LEMMA SumUnfolds ==
  ASSUME NEW f, NEW S
  PROVE  SumOver(f, S) = Partial(f, S)[S]
BY DEF SumOver, MapThenSumSet, MapThenFoldSet, Partial, SumStep, AnyOf

\* ... which exists: it is made for the sets of one element more at a time.
LEMMA PartialAt ==
  ASSUME NEW f, NEW S, IsFiniteSet(S)
  PROVE  \A s \in SUBSET S : Partial(f, S)[s] = SumStep(f, Partial(f, S), s)
<1> DEFINE D(n) == {s \in SUBSET S : Cardinality(s) <= n}
           T == {n \in Nat : \E it : it = [s \in D(n) |-> SumStep(f, it, s)]}
<1>1. \A s \in SUBSET S : /\ IsFiniteSet(s) /\ Cardinality(s) \in Nat
                         /\ Cardinality(s) <= Cardinality(S)
  BY FS_Subset, FS_CardinalityType
<1>2. \A s \in SUBSET S : s # {} => /\ s \ {AnyOf(s)} \in SUBSET S
                                    /\ Cardinality(s \ {AnyOf(s)}) = Cardinality(s) - 1
                                    /\ Cardinality(s) # 0
  BY <1>1, FS_RemoveElement, FS_EmptySet DEF AnyOf
<1>3. 0 \in T
  <2>1. D(0) = {{}}
    BY <1>1, FS_EmptySet
  <2>2. [s \in D(0) |-> 0] = [s \in D(0) |-> SumStep(f, [t \in D(0) |-> 0], s)]
    BY <2>1 DEF SumStep
  <2> QED
    BY <2>2
<1>4. ASSUME NEW n \in T PROVE n + 1 \in T
  <2>1. PICK g : g = [s \in D(n) |-> SumStep(f, g, s)]
    BY <1>4
  <2> DEFINE h == [s \in D(n + 1) |-> SumStep(f, g, s)]
  <2>2. \A s \in D(n) : s \in D(n + 1) /\ h[s] = g[s]
    BY <2>1, <1>1
  <2>3. \A s \in D(n + 1) : s # {} => s \ {AnyOf(s)} \in D(n)
    BY <1>1, <1>2
  <2>4. \A s \in D(n + 1) : SumStep(f, g, s) = SumStep(f, h, s)
    BY <2>2, <2>3 DEF SumStep
  <2>5. h = [s \in D(n + 1) |-> SumStep(f, h, s)]
    BY <2>4
  <2>6. n \in Nat /\ n + 1 \in Nat
    BY <1>4
  <2>7. \E it : it = [s \in D(n + 1) |-> SumStep(f, it, s)]
    <3> HIDE DEF h
    <3> QED
      BY <2>5
  <2> QED
    BY <2>6, <2>7
<1>5. T = Nat
  BY <1>3, <1>4, NatSteps
<1>6. Cardinality(S) \in T
  BY <1>1, <1>5
<1>7. D(Cardinality(S)) = SUBSET S
  BY <1>1
<1>8. \E it : it = [s \in SUBSET S |-> SumStep(f, it, s)]
  BY <1>6, <1>7
<1> DEFINE it == Partial(f, S)
<1>9. it = [s \in SUBSET S |-> SumStep(f, it, s)]
  BY <1>8 DEF Partial
<1> HIDE DEF it
<1>10. \A s \in SUBSET S : it[s] = SumStep(f, it, s)
  BY <1>9
<1> QED
  BY <1>10 DEF it

\* What it is on a part does not depend on the whole.
LEMMA PartialOfPart ==
  ASSUME NEW f, NEW S, IsFiniteSet(S), NEW A \in SUBSET S
  PROVE  Partial(f, A)[A] = Partial(f, S)[A]
<1> DEFINE T == {B \in SUBSET A : Partial(f, A)[B] = Partial(f, S)[B]}
<1>1. IsFiniteSet(A)
  BY FS_Subset
<1>4. ASSUME NEW B \in SUBSET A, \A C \in SUBSET B : C # B => C \in T
      PROVE  B \in T
  <2>1. Partial(f, A)[B] = SumStep(f, Partial(f, A), B)
    BY <1>1, PartialAt
  <2>2. Partial(f, S)[B] = SumStep(f, Partial(f, S), B)
    BY PartialAt
  <2>3. CASE B = {}
    BY <2>1, <2>2, <2>3 DEF SumStep
  <2>4. CASE B # {}
    <3>1. B \ {AnyOf(B)} \in SUBSET B /\ B \ {AnyOf(B)} # B
      BY <2>4 DEF AnyOf
    <3>2. Partial(f, A)[B \ {AnyOf(B)}] = Partial(f, S)[B \ {AnyOf(B)}]
      BY <1>4, <3>1
    <3> QED
      BY <2>1, <2>2, <3>2 DEF SumStep
  <2> QED
    BY <2>3, <2>4
<1>5. SUBSET A \subseteq T
  <2>1. \A X \in SUBSET A : (\A Y \in SUBSET X : Y # X => Y \in T) => X \in T
    BY <1>4
  <2> HIDE DEF T
  <2> QED
    BY <1>1, <2>1, SubsetInduction
<1> QED
  BY <1>5

-----------------------------------------------------------------------------
(* The sum.                                                                 *)

LEMMA SumEmpty ==
  ASSUME NEW f
  PROVE  SumOver(f, {}) = 0
<1>1. SumOver(f, {}) = Partial(f, {})[{}]
  BY SumUnfolds
<1>2. Partial(f, {})[{}] = SumStep(f, Partial(f, {}), {})
  BY PartialAt, FS_EmptySet
<1> QED
  BY <1>1, <1>2 DEF SumStep

LEMMA SumTakesAny ==
  ASSUME NEW f, NEW S, IsFiniteSet(S), S # {}
  PROVE  AnyOf(S) \in S /\ SumOver(f, S) = f[AnyOf(S)] + SumOver(f, S \ {AnyOf(S)})
<1>1. AnyOf(S) \in S
  BY DEF AnyOf
<1>2. SumOver(f, S) = SumStep(f, Partial(f, S), S)
  BY SumUnfolds, PartialAt
<1>3. SumOver(f, S \ {AnyOf(S)}) = Partial(f, S)[S \ {AnyOf(S)}]
  BY SumUnfolds, PartialOfPart
<1> QED
  BY <1>1, <1>2, <1>3 DEF SumStep

\* A sum of naturals is one.
LEMMA SumType ==
  ASSUME NEW S, IsFiniteSet(S), NEW f, \A x \in S : f[x] \in Nat
  PROVE  SumOver(f, S) \in Nat
<1> DEFINE T == {A \in SUBSET S : SumOver(f, A) \in Nat}
<1>1. ASSUME NEW A \in SUBSET S, \A B \in SUBSET A : B # A => B \in T PROVE A \in T
  <2>1. CASE A = {}
    BY <2>1, SumEmpty
  <2>2. CASE A # {}
    <3>1. IsFiniteSet(A)
      BY FS_Subset
    <3>2. AnyOf(A) \in A /\ SumOver(f, A) = f[AnyOf(A)] + SumOver(f, A \ {AnyOf(A)})
      BY <2>2, <3>1, SumTakesAny
    <3>3. SumOver(f, A \ {AnyOf(A)}) \in Nat
      BY <1>1, <3>2
    <3> QED
      BY <3>2, <3>3
  <2> QED
    BY <2>1, <2>2
<1>2. SUBSET S \subseteq T
  <2>1. \A X \in SUBSET S : (\A Y \in SUBSET X : Y # X => Y \in T) => X \in T
    BY <1>1
  <2> HIDE DEF T
  <2> QED
    BY <2>1, SubsetInduction
<1> QED
  BY <1>2

\* Any element can be taken first: the order of the fold does not matter.
LEMMA SumTake ==
  ASSUME NEW S, IsFiniteSet(S), NEW f, \A x \in S : f[x] \in Nat, NEW x \in S
  PROVE  SumOver(f, S) = f[x] + SumOver(f, S \ {x})
<1> DEFINE T == {A \in SUBSET S : \A y \in A : SumOver(f, A) = f[y] + SumOver(f, A \ {y})}
<1>1. ASSUME NEW A \in SUBSET S, \A B \in SUBSET A : B # A => B \in T, NEW y \in A
      PROVE  SumOver(f, A) = f[y] + SumOver(f, A \ {y})
  <2> DEFINE c == AnyOf(A)
  <2>1. IsFiniteSet(A)
    BY FS_Subset
  <2>2. c \in A /\ SumOver(f, A) = f[c] + SumOver(f, A \ {c})
    BY <2>1, SumTakesAny
  <2>3. CASE c # y
    <3> HIDE DEF c
    <3>1. SumOver(f, A \ {c}) = f[y] + SumOver(f, (A \ {c}) \ {y})
      BY <1>1, <2>2, <2>3
    <3>2. SumOver(f, A \ {y}) = f[c] + SumOver(f, (A \ {y}) \ {c})
      BY <1>1, <2>2, <2>3
    <3>3. (A \ {c}) \ {y} = (A \ {y}) \ {c}
      OBVIOUS
    <3>4. IsFiniteSet((A \ {y}) \ {c})
      BY <2>1, FS_Subset
    <3>5. SumOver(f, (A \ {y}) \ {c}) \in Nat
      BY <3>4, SumType
    <3>6. f[c] \in Nat /\ f[y] \in Nat
      BY <2>2
    <3> QED
      BY <2>2, <3>1, <3>2, <3>3, <3>5, <3>6
  <2> QED
    BY <2>2, <2>3
<1>2. SUBSET S \subseteq T
  <2>1. \A X \in SUBSET S : (\A Y \in SUBSET X : Y # X => Y \in T) => X \in T
    BY <1>1
  <2> HIDE DEF T
  <2> QED
    BY <2>1, SubsetInduction
<1> QED
  BY <1>2

\* A sum of what is nowhere more is not more.
LEMMA SumLeq ==
  ASSUME NEW S, IsFiniteSet(S), NEW f, NEW g,
         \A x \in S : f[x] \in Nat /\ g[x] \in Nat /\ f[x] <= g[x]
  PROVE  SumOver(f, S) <= SumOver(g, S)
<1> DEFINE T == {A \in SUBSET S : SumOver(f, A) <= SumOver(g, A)}
<1>1. ASSUME NEW A \in SUBSET S, \A B \in SUBSET A : B # A => B \in T PROVE A \in T
  <2>1. CASE A = {}
    BY <2>1, SumEmpty
  <2>2. CASE A # {}
    <3> DEFINE B == A \ {AnyOf(A)}
    <3>1. IsFiniteSet(A) /\ IsFiniteSet(B)
      BY FS_Subset
    <3>2. /\ AnyOf(A) \in A
          /\ SumOver(f, A) = f[AnyOf(A)] + SumOver(f, B)
          /\ SumOver(g, A) = g[AnyOf(A)] + SumOver(g, B)
      BY <2>2, <3>1, SumTakesAny
    <3>3. SumOver(f, B) <= SumOver(g, B)
      BY <1>1, <3>2
    <3>4. SumOver(f, B) \in Nat /\ SumOver(g, B) \in Nat
      BY <3>1, SumType
    <3> HIDE DEF B
    <3> QED
      BY <3>2, <3>3, <3>4
  <2> QED
    BY <2>1, <2>2
<1>2. SUBSET S \subseteq T
  <2>1. \A X \in SUBSET S : (\A Y \in SUBSET X : Y # X => Y \in T) => X \in T
    BY <1>1
  <2> HIDE DEF T
  <2> QED
    BY <2>1, SubsetInduction
<1> QED
  BY <1>2

\* Only what f is on S counts.
LEMMA SumCongruent ==
  ASSUME NEW S, IsFiniteSet(S), NEW f, NEW g, \A x \in S : f[x] = g[x]
  PROVE  SumOver(f, S) = SumOver(g, S)
<1> DEFINE T == {A \in SUBSET S : SumOver(f, A) = SumOver(g, A)}
<1>1. ASSUME NEW A \in SUBSET S, \A B \in SUBSET A : B # A => B \in T PROVE A \in T
  <2>1. CASE A = {}
    BY <2>1, SumEmpty
  <2>2. CASE A # {}
    <3>1. IsFiniteSet(A)
      BY FS_Subset
    <3>2. /\ AnyOf(A) \in A
          /\ SumOver(f, A) = f[AnyOf(A)] + SumOver(f, A \ {AnyOf(A)})
          /\ SumOver(g, A) = g[AnyOf(A)] + SumOver(g, A \ {AnyOf(A)})
      BY <2>2, <3>1, SumTakesAny
    <3>3. SumOver(f, A \ {AnyOf(A)}) = SumOver(g, A \ {AnyOf(A)})
      BY <1>1, <3>2
    <3> QED
      BY <3>2, <3>3
  <2> QED
    BY <2>1, <2>2
<1>2. SUBSET S \subseteq T
  <2>1. \A X \in SUBSET S : (\A Y \in SUBSET X : Y # X => Y \in T) => X \in T
    BY <1>1
  <2> HIDE DEF T
  <2> QED
    BY <2>1, SubsetInduction
<1> QED
  BY <1>2

\* A part of S weighs no more than S.
LEMMA SumSubset ==
  ASSUME NEW S, IsFiniteSet(S), NEW f, \A x \in S : f[x] \in Nat, NEW A \in SUBSET S
  PROVE  SumOver(f, A) <= SumOver(f, S)
<1> DEFINE T == {C \in SUBSET S : \A B \in SUBSET C : SumOver(f, B) <= SumOver(f, C)}
<1>1. ASSUME NEW C \in SUBSET S, \A B \in SUBSET C : B # C => B \in T, NEW B \in SUBSET C
      PROVE  SumOver(f, B) <= SumOver(f, C)
  <2>1. IsFiniteSet(C) /\ IsFiniteSet(B)
    BY FS_Subset
  <2>2. SumOver(f, B) \in Nat
    BY <2>1, SumType
  <2>3. CASE B # C
    <3>1. PICK x \in C : x \notin B
      BY <2>3
    <3>2. SumOver(f, C) = f[x] + SumOver(f, C \ {x})
      BY <2>1, SumTake
    <3>3. C \ {x} \in T /\ B \in SUBSET (C \ {x})
      BY <1>1, <3>1
    <3>4. SumOver(f, B) <= SumOver(f, C \ {x})
      BY <3>3
    <3>5. IsFiniteSet(C \ {x})
      BY <2>1, FS_Subset
    <3>6. SumOver(f, C \ {x}) \in Nat
      BY <3>5, SumType
    <3> QED
      BY <2>2, <3>2, <3>4, <3>6
  <2> QED
    BY <2>2, <2>3
<1>2. SUBSET S \subseteq T
  <2>1. \A X \in SUBSET S : (\A Y \in SUBSET X : Y # X => Y \in T) => X \in T
    BY <1>1
  <2> HIDE DEF T
  <2> QED
    BY <2>1, SubsetInduction
<1> QED
  BY <1>2
\* Two summands of which one entry differs.
LEMMA SumReplaced ==
  ASSUME NEW S, IsFiniteSet(S), NEW x \in S, NEW f, NEW g,
         \A y \in S : f[y] \in Nat /\ g[y] \in Nat,
         \A y \in S \ {x} : g[y] = f[y]
  PROVE  /\ SumOver(f, S) \in Nat /\ f[x] <= SumOver(f, S)
         /\ SumOver(g, S) = SumOver(f, S) - f[x] + g[x]
<1> DEFINE R == S \ {x}
<1>1. IsFiniteSet(R) /\ \A y \in R : f[y] \in Nat /\ g[y] = f[y]
  BY FS_Subset
<1>2. SumOver(f, S) = f[x] + SumOver(f, R) /\ SumOver(g, S) = g[x] + SumOver(g, R)
  BY SumTake
<1> HIDE DEF R
<1>3. SumOver(g, R) = SumOver(f, R)
  BY <1>1, SumCongruent
<1>4. SumOver(f, R) \in Nat
  BY <1>1, SumType
<1> QED
  BY <1>2, <1>3, <1>4
=============================================================================
