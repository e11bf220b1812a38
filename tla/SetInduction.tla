----------------------------- MODULE SetInduction -----------------------------
(***************************************************************************)
(* Induction over a set instead of a predicate.  The library's induction   *)
(* theorems take the predicate as an operator; here it is the set of the   *)
(* values it holds of, an ordinary variable, and the step from all smaller *)
(* sets (WFMin) is taken once and for all.                                 *)
(***************************************************************************)
EXTENDS Integers, FiniteSets, FiniteSetTheorems, WellFoundedInduction, TLAPS

(* A set of natural numbers has a smallest element.                        *)
LEMMA SmallestIn ==
    ASSUME NEW T \in SUBSET Nat, T # {}
    PROVE  \E m \in T : \A k \in T : m <= k
<1> DEFINE upTo(m) == {k \in T : k <= m}
           F == {upTo(m) : m \in T}
<1>1. F \subseteq FiniteSubsetsOf(Nat) /\ F # {}
  <2>1. ASSUME NEW m \in T PROVE upTo(m) \in SUBSET Nat /\ IsFiniteSet(upTo(m))
    <3>1. upTo(m) \in SUBSET Nat /\ m \in Nat /\ \A k \in upTo(m) : k <= m
      OBVIOUS
    <3> HIDE DEF upTo
    <3> QED
      BY <3>1, FS_BoundedSetOfNaturals
  <2> QED
    BY <2>1 DEF FiniteSubsetsOf
<1>2. PICK X \in F : \A Y \in F : ~(<<Y, X>> \in StrictSubsetOrdering(Nat))
  <2> HIDE DEF F
  <2> QED
    BY <1>1, FS_StrictSubsetOrderingWellFounded, WFMin
<1>3. PICK m \in T : X = upTo(m)
  BY <1>2
<1>4. ASSUME NEW k \in T, k < m PROVE FALSE
  <2>1. upTo(k) \in F /\ X \in F
    BY <1>2
  <2>2. upTo(k) \subseteq X /\ upTo(k) # X /\ upTo(k) \in SUBSET Nat /\ X \in SUBSET Nat
    <3>1. k \in Nat /\ m \in Nat /\ \A j \in T : j \in Nat
      OBVIOUS
    <3>2. upTo(k) \subseteq X
      <4>1. \A j \in T : j <= k => j <= m
        BY <1>4, <3>1
      <4> QED
        BY <1>3, <4>1
    <3>3. m \in X /\ m \notin upTo(k)
      BY <1>3, <1>4, <3>1
    <3>4. X \in SUBSET Nat /\ upTo(k) \in SUBSET Nat
      BY <1>3
    <3> HIDE DEF upTo
    <3> QED
      BY <3>2, <3>3, <3>4
  <2>3. <<upTo(k), X>> \in StrictSubsetOrdering(Nat)
    <3> HIDE DEF upTo
    <3> QED
      BY <2>2 DEF StrictSubsetOrdering
  <2> QED
    BY <1>2, <2>1, <2>3
<1> QED
  BY <1>4

(* What contains 0 and with every number the next one contains them all.   *)
LEMMA NumbersByInduction ==
    ASSUME NEW T, 0 \in T, \A n \in Nat : n \in T => n + 1 \in T
    PROVE  Nat \subseteq T
<1> SUFFICES ASSUME Nat \ T # {} PROVE FALSE
  OBVIOUS
<1>1. PICK m \in Nat \ T : \A k \in Nat \ T : m <= k
  BY SmallestIn
<1>2. m # 0 /\ m - 1 \in Nat
  BY <1>1
<1>3. m - 1 \in T
  BY <1>1, <1>2
<1> QED
  BY <1>1, <1>2, <1>3

(* What contains every part of a finite set that it contains all smaller   *)
(* parts of contains them all.                                             *)
LEMMA PartsByInduction ==
    ASSUME NEW S, IsFiniteSet(S), NEW T,
           \A U \in SUBSET S : (\A x \in U : U \ {x} \in T) => U \in T
    PROVE  SUBSET S \subseteq T
<1> DEFINE F == {U \in SUBSET S : U \notin T}
<1> SUFFICES ASSUME F # {} PROVE FALSE
  OBVIOUS
<1>1. F \subseteq FiniteSubsetsOf(S)
  BY FS_FiniteSubsetsOfFinite
<1>2. PICK X \in F : \A Y \in F : ~(<<Y, X>> \in StrictSubsetOrdering(S))
  <2> HIDE DEF F
  <2> QED
    BY <1>1, FS_StrictSubsetOrderingWellFounded, WFMin
<1>3. ASSUME NEW x \in X PROVE X \ {x} \in T
  <2>1. X \in SUBSET S /\ X \ {x} \in SUBSET S /\ X \ {x} # X /\ X \ {x} \subseteq X
    BY <1>2
  <2>2. <<X \ {x}, X>> \in StrictSubsetOrdering(S)
    BY <2>1 DEF StrictSubsetOrdering
  <2> QED
    BY <1>2, <2>1, <2>2
<1> QED
  BY <1>2, <1>3
=============================================================================
