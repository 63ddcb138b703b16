----------------------------- MODULE SumTheorems -----------------------------
(***************************************************************************)
(* What MapThenSumSet computes for a finite set of natural numbers: the    *)
(* SUM(amount) of the settlement service's query (settlement_service.go:48)*)
(* as MoneyFlow takes it from the community modules.                       *)
(*                                                                         *)
(* The operator is a recursive function over subsets, so its facts are     *)
(* proved by induction.  An induction theorem takes a predicate as its     *)
(* parameter; a set of counterexamples and a minimal element of it do the  *)
(* same and are ordinary sets.                                             *)
(***************************************************************************)
EXTENDS Integers, FiniteSets, FiniteSetsExt, FiniteSetTheorems, WellFoundedInduction, TLAPS

SumOf(A, S) == MapThenSumSet(LAMBDA x : A[x], S)

(* The recursion behind it, over the subsets of S. *)
Pick(T) == CHOOSE x \in T : TRUE
SumStep(A, T, f) == IF T = {} THEN 0 ELSE A[Pick(T)] + f[T \ {Pick(T)}]
IsSum(A, S, f) == f = [T \in SUBSET S |-> SumStep(A, T, f)]

(* The sums of all subsets of S. *)
Sums(A, S) == [T \in SUBSET S |-> SumOf(A, T)]

LEMMA SumIsChosen ==
    ASSUME NEW A, NEW S PROVE SumOf(A, S) = (CHOOSE f : IsSum(A, S, f))[S]
  BY DEF SumOf, MapThenSumSet, MapThenFoldSet, IsSum, SumStep, Pick

LEMMA MinimalSubset ==
    ASSUME NEW P, IsFiniteSet(P), NEW C, C \subseteq SUBSET P, C # {}
    PROVE  \E S \in C : \A T \in C : T \subseteq S => T = S
  <1>1. C \subseteq FiniteSubsetsOf(P)
    BY FS_FiniteSubsetsOfFinite
  <1>2. IsWellFoundedOn(StrictSubsetOrdering(P), FiniteSubsetsOf(P))
    BY FS_StrictSubsetOrderingWellFounded
  <1>3. PICK S \in C : \A T \in C : ~(<<T, S>> \in StrictSubsetOrdering(P))
    BY <1>1, <1>2, WFMin
  <1> QED BY <1>3 DEF StrictSubsetOrdering

(* A non-empty set has an element to pick. *)
LEMMA Picked == \A T : T # {} => Pick(T) \in T
  BY DEF Pick

(* The recursion has one solution at most. *)
LEMMA SumUnique ==
    ASSUME NEW A, NEW S, IsFiniteSet(S),
           NEW f, IsSum(A, S, f), NEW g, IsSum(A, S, g)
    PROVE  f = g
  <1> DEFINE Differ == {T \in SUBSET S : f[T] # g[T]}
  <1>1. \A T \in SUBSET S : f[T] = SumStep(A, T, f) /\ g[T] = SumStep(A, T, g)
    BY DEF IsSum
  <1>2. ASSUME Differ # {} PROVE FALSE
    <2>1. PICK T \in Differ : \A U \in Differ : U \subseteq T => U = T
      <3>1. Differ \subseteq SUBSET S
        OBVIOUS
      <3> HIDE DEF Differ
      <3> QED BY <1>2, <3>1, MinimalSubset
    <2>2. CASE T = {}
      BY <1>1, <2>1, <2>2 DEF SumStep
    <2>3. CASE T # {}
      <3>1. T \ {Pick(T)} \notin Differ /\ T \ {Pick(T)} \in SUBSET S
        BY <2>1, <2>3, Picked
      <3> QED BY <1>1, <2>1, <2>3, <3>1 DEF SumStep
    <2> QED BY <2>2, <2>3
  <1>3. f = [T \in SUBSET S |-> f[T]] /\ g = [T \in SUBSET S |-> g[T]]
    BY DEF IsSum
  <1> QED BY <1>2, <1>3

(* It has a solution, and so the operator is what it is meant to be: the     *)
(* sums of a set's subsets satisfy the recursion.                            *)
LEMMA SumExists ==
    ASSUME NEW A, NEW P, IsFiniteSet(P)
    PROVE  \A S \in SUBSET P : IsSum(A, S, Sums(A, S))
  <1> DEFINE Undefined == {S \in SUBSET P : ~IsSum(A, S, Sums(A, S))}
  <1> SUFFICES ASSUME Undefined # {} PROVE FALSE
    OBVIOUS
  <1>1. PICK S \in Undefined : \A T \in Undefined : T \subseteq S => T = S
    <2>1. Undefined \subseteq SUBSET P
      OBVIOUS
    <2> HIDE DEF Undefined
    <2> QED BY <2>1, MinimalSubset
  <1>2. IsFiniteSet(S)
    BY <1>1, FS_Subset
  <1> DEFINE h == Sums(A, S)
             g == [T \in SUBSET S |-> SumStep(A, T, h)]
  <1>3. ASSUME NEW T \in SUBSET S, T # S PROVE h[T] = SumStep(A, T, h)
    <2>1. IsSum(A, T, Sums(A, T))
      BY <1>1, <1>3
    <2>2. Sums(A, T)[T] = SumStep(A, T, Sums(A, T))
      BY <2>1 DEF IsSum
    <2>3. Sums(A, T)[T] = h[T] /\ \A U \in SUBSET T : Sums(A, T)[U] = h[U]
      BY DEF Sums
    <2>4. SumStep(A, T, Sums(A, T)) = SumStep(A, T, h)
      BY <2>3, Picked DEF SumStep
    <2> QED BY <2>2, <2>3, <2>4
  <1>4. IsSum(A, S, g)
    <2>1. ASSUME NEW T \in SUBSET S PROVE SumStep(A, T, g) = SumStep(A, T, h)
      <3>1. CASE T = {}
        BY <3>1 DEF SumStep
      <3>2. CASE T # {}
        <4>1. T \ {Pick(T)} \in SUBSET S /\ T \ {Pick(T)} # S
          BY <3>2, Picked
        <4>2. g[T \ {Pick(T)}] = h[T \ {Pick(T)}]
          BY <1>3, <4>1
        <4> QED BY <4>2 DEF SumStep
      <3> QED BY <3>1, <3>2
    <2> QED BY <2>1 DEF IsSum
  <1>5. g = (CHOOSE f : IsSum(A, S, f))
    <2>1. IsSum(A, S, CHOOSE f : IsSum(A, S, f))
      BY <1>4
    <2> QED BY <1>2, <1>4, <2>1, SumUnique
  <1>6. g[S] = h[S]
    BY <1>5, SumIsChosen DEF Sums
  <1>7. g = h
    <2>1. \A T \in SUBSET S : g[T] = h[T]
      BY <1>3, <1>6
    <2>2. h = [T \in SUBSET S |-> h[T]]
      BY DEF Sums
    <2> QED BY <2>1, <2>2
  <1> QED BY <1>1, <1>4, <1>7

(* The equation of the fold. *)
LEMMA SumPick ==
    ASSUME NEW A, NEW S, IsFiniteSet(S)
    PROVE  SumOf(A, S) = IF S = {} THEN 0 ELSE A[Pick(S)] + SumOf(A, S \ {Pick(S)})
  <1>1. IsSum(A, S, Sums(A, S))
    BY SumExists
  <1>2. Sums(A, S)[S] = SumStep(A, S, Sums(A, S))
    BY <1>1 DEF IsSum
  <1> QED BY <1>2, Picked DEF Sums, SumStep

-----------------------------------------------------------------------------
(* A sum of amounts is a natural number. *)
LEMMA SumType ==
    ASSUME NEW P, IsFiniteSet(P), NEW A, \A x \in P : A[x] \in Nat
    PROVE  \A S \in SUBSET P : SumOf(A, S) \in Nat
  <1> DEFINE Wrong == {S \in SUBSET P : SumOf(A, S) \notin Nat}
  <1> SUFFICES ASSUME Wrong # {} PROVE FALSE
    OBVIOUS
  <1>1. PICK S \in Wrong : \A T \in Wrong : T \subseteq S => T = S
    <2>1. Wrong \subseteq SUBSET P
      OBVIOUS
    <2> HIDE DEF Wrong
    <2> QED BY <2>1, MinimalSubset
  <1>2. IsFiniteSet(S) /\ S \in SUBSET P
    BY <1>1, FS_Subset
  <1>3. S # {}
    <2>1. S = {} => SumOf(A, S) = 0
      BY <1>2, SumPick
    <2> QED BY <1>1, <2>1
  <1>4. Pick(S) \in S /\ S \ {Pick(S)} \notin Wrong
    BY <1>1, <1>3, Picked
  <1>5. SumOf(A, S \ {Pick(S)}) \in Nat /\ A[Pick(S)] \in Nat
    BY <1>2, <1>4
  <1>6. SumOf(A, S) = A[Pick(S)] + SumOf(A, S \ {Pick(S)})
    BY <1>2, <1>3, SumPick
  <1>7. SumOf(A, S) \in Nat
    BY <1>5, <1>6
  <1> QED BY <1>1, <1>7

(* It does not matter which element is taken out first. *)
LEMMA SumRemove ==
    ASSUME NEW P, IsFiniteSet(P), NEW A, \A x \in P : A[x] \in Nat
    PROVE  \A S \in SUBSET P : \A x \in S : SumOf(A, S) = A[x] + SumOf(A, S \ {x})
  <1> DEFINE Wrong == {S \in SUBSET P : \E x \in S : SumOf(A, S) # A[x] + SumOf(A, S \ {x})}
  <1> SUFFICES ASSUME Wrong # {} PROVE FALSE
    OBVIOUS
  <1>1. PICK S \in Wrong : \A T \in Wrong : T \subseteq S => T = S
    <2>1. Wrong \subseteq SUBSET P
      OBVIOUS
    <2> HIDE DEF Wrong
    <2> QED BY <2>1, MinimalSubset
  <1>2. PICK x \in S : SumOf(A, S) # A[x] + SumOf(A, S \ {x})
    BY <1>1
  <1> DEFINE y == Pick(S)
             Rest == (S \ {x}) \ {y}
  <1>3. IsFiniteSet(S) /\ S \in SUBSET P /\ y \in S
    BY <1>1, <1>2, FS_Subset, Picked
  <1>4. SumOf(A, S) = A[y] + SumOf(A, S \ {y})
    BY <1>2, <1>3, SumPick
  <1>5. x # y
    BY <1>2, <1>4
  <1>6. SumOf(A, S \ {y}) = A[x] + SumOf(A, (S \ {y}) \ {x})
    <2>1. S \ {y} \in SUBSET P /\ S \ {y} \notin Wrong /\ x \in S \ {y}
      BY <1>1, <1>3, <1>5
    <2> QED BY <2>1
  <1>7. SumOf(A, S \ {x}) = A[y] + SumOf(A, Rest)
    <2>1. S \ {x} \in SUBSET P /\ S \ {x} \notin Wrong /\ y \in S \ {x}
      BY <1>1, <1>3, <1>5
    <2> QED BY <2>1
  <1>8. (S \ {y}) \ {x} = Rest
    OBVIOUS
  <1>9. A[x] \in Nat /\ A[y] \in Nat /\ SumOf(A, Rest) \in Nat
    <2>1. Rest \in SUBSET P
      BY <1>3
    <2> QED BY <1>3, <2>1, SumType
  <1>10. SumOf(A, S) = A[y] + (A[x] + SumOf(A, Rest))
    BY <1>4, <1>6, <1>8
  <1> HIDE DEF y, Rest
  <1> QED BY <1>2, <1>7, <1>9, <1>10

(* Part of a set is worth no more than all of it. *)
LEMMA SumMonotonic ==
    ASSUME NEW P, IsFiniteSet(P), NEW A, \A x \in P : A[x] \in Nat, NEW S \in SUBSET P
    PROVE  \A T \in SUBSET P : S \subseteq T => SumOf(A, S) <= SumOf(A, T)
  <1> DEFINE Wrong == {T \in SUBSET P : S \subseteq T /\ ~(SumOf(A, S) <= SumOf(A, T))}
  <1> SUFFICES ASSUME Wrong # {} PROVE FALSE
    OBVIOUS
  <1>1. PICK T \in Wrong : \A U \in Wrong : U \subseteq T => U = T
    <2>1. Wrong \subseteq SUBSET P
      OBVIOUS
    <2> HIDE DEF Wrong
    <2> QED BY <2>1, MinimalSubset
  <1>2. SumOf(A, S) \in Nat /\ T \in SUBSET P /\ S \subseteq T
    BY <1>1, SumType
  <1>3. T # S
    BY <1>1, <1>2
  <1>4. PICK x \in T : x \notin S
    BY <1>2, <1>3
  <1>5. SumOf(A, T) = A[x] + SumOf(A, T \ {x})
    BY <1>2, SumRemove
  <1>6. SumOf(A, S) <= SumOf(A, T \ {x})
    <2>1. T \ {x} \in SUBSET P /\ S \subseteq T \ {x} /\ T \ {x} \notin Wrong
      BY <1>1, <1>2, <1>4
    <2> QED BY <2>1
  <1>7. A[x] \in Nat /\ SumOf(A, T \ {x}) \in Nat
    <2>1. T \ {x} \in SUBSET P
      BY <1>2
    <2> QED BY <1>2, <2>1, SumType
  <1>8. SumOf(A, S) <= SumOf(A, T)
    BY <1>2, <1>5, <1>6, <1>7
  <1> QED BY <1>1, <1>8

(* The sum depends on the amounts of the set only. *)
LEMMA SumAgree ==
    ASSUME NEW P, IsFiniteSet(P), NEW A, NEW B, \A x \in P : A[x] = B[x]
    PROVE  \A S \in SUBSET P : SumOf(A, S) = SumOf(B, S)
  <1> DEFINE Wrong == {S \in SUBSET P : SumOf(A, S) # SumOf(B, S)}
  <1> SUFFICES ASSUME Wrong # {} PROVE FALSE
    OBVIOUS
  <1>1. PICK S \in Wrong : \A T \in Wrong : T \subseteq S => T = S
    <2>1. Wrong \subseteq SUBSET P
      OBVIOUS
    <2> HIDE DEF Wrong
    <2> QED BY <2>1, MinimalSubset
  <1>2. IsFiniteSet(S) /\ S \in SUBSET P
    BY <1>1, FS_Subset
  <1>3. /\ SumOf(A, S) = IF S = {} THEN 0 ELSE A[Pick(S)] + SumOf(A, S \ {Pick(S)})
        /\ SumOf(B, S) = IF S = {} THEN 0 ELSE B[Pick(S)] + SumOf(B, S \ {Pick(S)})
    BY <1>2, SumPick
  <1>4. S # {}
    BY <1>1, <1>3
  <1>5. Pick(S) \in S /\ S \ {Pick(S)} \notin Wrong
    BY <1>1, <1>4, Picked
  <1>6. SumOf(A, S \ {Pick(S)}) = SumOf(B, S \ {Pick(S)}) /\ A[Pick(S)] = B[Pick(S)]
    BY <1>2, <1>5
  <1> QED BY <1>1, <1>3, <1>6

(* Sets that share nothing are worth together what each is worth. *)
LEMMA SumDisjoint ==
    ASSUME NEW P, IsFiniteSet(P), NEW A, \A x \in P : A[x] \in Nat, NEW S \in SUBSET P
    PROVE  \A T \in SUBSET P : S \cap T = {} => SumOf(A, S \cup T) = SumOf(A, S) + SumOf(A, T)
  <1> DEFINE Wrong == {T \in SUBSET P :
                         S \cap T = {} /\ SumOf(A, S \cup T) # SumOf(A, S) + SumOf(A, T)}
  <1> SUFFICES ASSUME Wrong # {} PROVE FALSE
    OBVIOUS
  <1>1. PICK T \in Wrong : \A U \in Wrong : U \subseteq T => U = T
    <2>1. Wrong \subseteq SUBSET P
      OBVIOUS
    <2> HIDE DEF Wrong
    <2> QED BY <2>1, MinimalSubset
  <1>2. T \in SUBSET P /\ S \cap T = {} /\ SumOf(A, S) \in Nat
    BY <1>1, SumType
  <1>3. T # {}
    <2>1. SumOf(A, {}) = 0
      BY SumPick, FS_EmptySet
    <2>2. SumOf(A, S \cup {}) = SumOf(A, S) + SumOf(A, {})
      <3>1. S \cup {} = S
        OBVIOUS
      <3> QED BY <1>2, <2>1, <3>1
    <2>3. SumOf(A, S \cup T) # SumOf(A, S) + SumOf(A, T)
      BY <1>1
    <2> HIDE DEF Wrong
    <2> QED BY <2>2, <2>3
  <1>4. PICK x \in T : TRUE
    BY <1>3
  <1> DEFINE Rest == T \ {x}
  <1>5. Rest \in SUBSET P /\ Rest \notin Wrong /\ S \cap Rest = {}
    BY <1>1, <1>2, <1>4
  <1>6. SumOf(A, S \cup Rest) = SumOf(A, S) + SumOf(A, Rest)
    BY <1>5
  <1>7. SumOf(A, T) = A[x] + SumOf(A, Rest)
    BY <1>2, <1>4, SumRemove
  <1>8. SumOf(A, S \cup T) = A[x] + SumOf(A, S \cup Rest)
    <2>1. S \cup T \in SUBSET P /\ x \in S \cup T /\ (S \cup T) \ {x} = S \cup Rest
      BY <1>2, <1>4
    <2>2. SumOf(A, S \cup T) = A[x] + SumOf(A, (S \cup T) \ {x})
      BY <2>1, SumRemove
    <2> QED BY <2>1, <2>2
  <1>9. A[x] \in Nat /\ SumOf(A, Rest) \in Nat
    BY <1>2, <1>4, <1>5, SumType
  <1>10. SumOf(A, S \cup T) = SumOf(A, S) + SumOf(A, T)
    <2> HIDE DEF Rest
    <2> QED BY <1>2, <1>6, <1>7, <1>8, <1>9
  <1> QED BY <1>1, <1>10
=============================================================================
