--------------------------- MODULE LlmGateProofs ---------------------------
(***************************************************************************)
(* Theorems about LlmGate for every finite set of threads and every value  *)
(* of the two settings, the nonsensical ones (zero, negative, a reserve    *)
(* larger than the gate) included.                                         *)
(***************************************************************************)
EXTENDS LlmGate, FiniteSetTheorems, TLAPS

USE GateAssumption

Pcs == {"out", "background", "total", "calling", "unwind"}

\* A call is counted in background exactly by its tier and its place.
IInv ==
    /\ pc \in [Callers -> Pcs]
    /\ tier \in [Callers -> {"interactive", "background"}]
    /\ \A c \in Callers : pc[c] \in {"background", "unwind"} => tier[c] = "background"
    /\ PermitsConserved
    /\ totalFree >= 0 /\ backgroundFree >= 0

\* The settings are clamped to a gate that admits both tiers.
LEMMA Clamped ==
    /\ Cap \in Nat /\ Cap >= 1
    /\ Reserved \in Nat /\ Reserved <= Cap - 1
BY DEF Cap, Reserved, AtLeast, AtMost

LEMMA Counts ==
    /\ IsFiniteSet(InTotal) /\ IsFiniteSet(InBackground)
    /\ Cardinality(InTotal) \in Nat /\ Cardinality(InBackground) \in Nat
<1>1. InTotal \subseteq Callers /\ InBackground \subseteq Callers
  BY DEF InTotal, InBackground
<1>. QED BY <1>1, FS_Subset, FS_CardinalityType

\* One element more or less in a finite set.
LEMMA OneMore ==
    ASSUME NEW S, IsFiniteSet(S), NEW x, x \notin S
    PROVE  Cardinality(S \cup {x}) = Cardinality(S) + 1
BY FS_AddElement

LEMMA OneLess ==
    ASSUME NEW S, IsFiniteSet(S), NEW x \in S
    PROVE  Cardinality(S \ {x}) = Cardinality(S) - 1
BY FS_RemoveElement

LEMMA InitInvariant == Init => IInv
<1>. SUFFICES ASSUME Init PROVE IInv
  OBVIOUS
<1>1. InTotal = {} /\ InBackground = {}
  BY DEF Init, InTotal, InBackground
<1>2. Cardinality(InTotal) = 0 /\ Cardinality(InBackground) = 0
  BY <1>1, FS_EmptySet
<1>. QED BY <1>2, Clamped DEF Init, IInv, PermitsConserved, Pcs

LEMMA NextInvariant == IInv /\ [Next]_vars => IInv'
<1>. SUFFICES ASSUME IInv, [Next]_vars PROVE IInv'
  OBVIOUS
<1>. USE DEF IInv, PermitsConserved, Goto, Leave, Pcs
<1>0. totalFree \in Int /\ backgroundFree \in Int
  BY Clamped, Counts
<1>1. CASE UNCHANGED vars
  BY <1>1 DEF vars, InTotal, InBackground
<1>2. ASSUME NEW c \in Callers, Enter(c)
      PROVE  IInv'
  <2>1. InTotal' = InTotal /\ InBackground' = InBackground
    BY <1>2 DEF Enter, InTotal, InBackground
  <2>. QED BY <1>2, <2>1 DEF Enter
<1>3. ASSUME NEW c \in Callers, AcquireBackground(c)
      PROVE  IInv'
  <2>1. InTotal' = InTotal
    BY <1>3 DEF AcquireBackground, InTotal
  <2>2. InBackground' = InBackground \cup {c} /\ c \notin InBackground
    BY <1>3 DEF AcquireBackground, InBackground
  <2>3. Cardinality(InBackground') = Cardinality(InBackground) + 1
    BY <2>2, Counts, OneMore
  <2>. QED BY <1>0, <1>3, <2>1, <2>3, Counts, Clamped DEF AcquireBackground
<1>4. ASSUME NEW c \in Callers, AcquireTotal(c)
      PROVE  IInv'
  <2>1. InTotal' = InTotal \cup {c} /\ c \notin InTotal
    BY <1>4 DEF AcquireTotal, InTotal
  <2>2. InBackground' = InBackground
    BY <1>4 DEF AcquireTotal, InBackground
  <2>3. Cardinality(InTotal') = Cardinality(InTotal) + 1
    BY <2>1, Counts, OneMore
  <2>. QED BY <1>0, <1>4, <2>2, <2>3, Counts, Clamped DEF AcquireTotal
<1>5. ASSUME NEW c \in Callers, Busy(c)
      PROVE  IInv'
  <2>1. InTotal' = InTotal /\ InBackground' = InBackground
    BY <1>5 DEF Busy, InTotal, InBackground
  <2>. QED BY <1>5, <2>1 DEF Busy
<1>6. ASSUME NEW c \in Callers, Called(c)
      PROVE  IInv'
  <2>1. InTotal' = InTotal \ {c} /\ c \in InTotal
    BY <1>6 DEF Called, InTotal
  <2>2. InBackground' = InBackground
    BY <1>6 DEF Called, InBackground
  <2>3. Cardinality(InTotal') = Cardinality(InTotal) - 1
    BY <2>1, Counts, OneLess
  <2>. QED BY <1>0, <1>6, <2>2, <2>3, Counts, Clamped DEF Called
<1>7. ASSUME NEW c \in Callers, Unwind(c)
      PROVE  IInv'
  <2>1. InTotal' = InTotal
    BY <1>7 DEF Unwind, InTotal
  <2>2. InBackground' = InBackground \ {c} /\ c \in InBackground
    BY <1>7 DEF Unwind, InBackground
  <2>3. Cardinality(InBackground') = Cardinality(InBackground) - 1
    BY <2>2, Counts, OneLess
  <2>. QED BY <1>0, <1>7, <2>1, <2>3, Counts, Clamped DEF Unwind
<1>. QED BY <1>1, <1>2, <1>3, <1>4, <1>5, <1>6, <1>7 DEF Next

THEOREM Invariant == Spec => []IInv
BY InitInvariant, NextInvariant, PTL DEF Spec

\* The state stays well typed, and no semaphore passes its bounds.
THEOREM TypeCorrect == Spec => []TypeOK
<1>1. ASSUME IInv PROVE TypeOK
  <2>. DEFINE T == Cardinality(InTotal)
              B == Cardinality(InBackground)
  <2>1. T \in Nat /\ B \in Nat /\ Cap \in Nat /\ Reserved \in Nat
    BY Counts, Clamped
  <2>2. totalFree = Cap - T /\ backgroundFree = (Cap - Reserved) - B
    BY <1>1 DEF IInv, PermitsConserved
  <2>. HIDE DEF T, B
  <2>3. totalFree \in 0..Cap /\ backgroundFree \in 0..(Cap - Reserved)
    BY <1>1, <2>1, <2>2 DEF IInv
  <2>. QED BY <1>1, <2>3 DEF IInv, TypeOK, Pcs
<1>. QED BY <1>1, Invariant, PTL

\* Permits are conserved on every way in and out of slot().
THEOREM PermitsConservedHolds == Spec => []PermitsConserved
BY Invariant, PTL DEF IInv

\* The reserve is never consumed by background calls.
THEOREM HeadroomHolds == Spec => []Headroom
<1>1. ASSUME IInv PROVE Headroom
  <2>. DEFINE I == {c \in InTotal : tier[c] = "interactive"}
              B == {c \in InTotal : tier[c] = "background"}
  <2>0. \A c \in InTotal : tier[c] \in {"interactive", "background"}
    BY <1>1 DEF IInv, InTotal
  <2>1. InTotal = I \cup B /\ I \cap B = {} /\ B \subseteq InBackground
    BY <2>0 DEF InTotal, InBackground
  <2>2. /\ IsFiniteSet(I) /\ IsFiniteSet(B)
        /\ Cardinality(I) \in Nat /\ Cardinality(B) \in Nat
    BY <2>1, Counts, FS_Subset, FS_CardinalityType
  <2>. HIDE DEF I, B
  <2>3. Cardinality(InTotal) = Cardinality(I) + Cardinality(B)
    <3>0. Cardinality(I \cup B) = Cardinality(I) + Cardinality(B) - Cardinality(I \cap B)
      BY <2>2, FS_Union
    <3>1. Cardinality(I \cap B) = 0
      BY <2>1, FS_EmptySet
    <3>. QED BY <2>1, <2>2, <3>0, <3>1
  <2>4. Cardinality(B) <= Cardinality(InBackground)
    BY <2>1, Counts, FS_Subset
  <2>5. Cardinality(InBackground) <= Cap - Reserved
    BY <1>1, Counts, Clamped DEF IInv, PermitsConserved
  <2>6. Cardinality(I) < Reserved => totalFree > 0
    BY <1>1, <2>2, <2>3, <2>4, <2>5, Counts, Clamped DEF IInv, PermitsConserved
  <2>. QED BY <2>6 DEF Headroom, I
<1>. QED BY <1>1, Invariant, PTL

\* The two semaphores cannot block each other.
THEOREM NoGridlockHolds == Spec => []NoGridlock
<1>1. ASSUME IInv PROVE NoGridlock
  <2>. SUFFICES ASSUME NEW w \in Callers, pc[w] \in {"background", "total"},
                       \A c \in Callers : pc[c] \notin {"calling", "unwind"},
                       \A c \in Callers : ~ (pc[c] = "total" /\ totalFree > 0)
                PROVE  pc[w] = "background" /\ backgroundFree > 0
    BY DEF NoGridlock
  <2>1. InTotal = {}
    BY DEF InTotal
  <2>2. totalFree = Cap
    BY <1>1, <2>1, FS_EmptySet, Clamped DEF IInv, PermitsConserved
  <2>3. \A c \in Callers : pc[c] # "total"
    BY <2>2, Clamped
  <2>4. InBackground = {}
    BY <2>3 DEF InBackground
  <2>5. backgroundFree = Cap - Reserved
    BY <1>1, <2>4, FS_EmptySet, Clamped DEF IInv, PermitsConserved
  <2>. QED BY <2>3, <2>5, Clamped
<1>. QED BY <1>1, Invariant, PTL
=============================================================================
