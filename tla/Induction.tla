------------------------------ MODULE Induction -----------------------------
(***************************************************************************)
(* Mathematical induction over the numbers as a fact about sets, which     *)
(* every prover can use: the set is what the lemma is cited with.          *)
(***************************************************************************)
EXTENDS Integers, FiniteSetTheorems, TLAPS

\* Mathematical induction, by the smallest number that is not in S
LEMMA NumberInduction ==
    ASSUME NEW S, 0 \in S, \A n \in Nat : n \in S => n + 1 \in S
    PROVE  \A n \in Nat : n \in S
<1> DEFINE T == {n \in Nat : n \notin S}
           TT == {0..n : n \in T}
<1>1. SUFFICES ASSUME T # {}
               PROVE  FALSE
  OBVIOUS
<1>2. \A n \in Nat : 0..n \in FiniteSubsetsOf(Nat)
  BY FS_Interval DEF FiniteSubsetsOf
<1>3. TT \subseteq FiniteSubsetsOf(Nat) /\ TT # {}
  BY <1>1, <1>2
<1>4. \E x \in TT : \A y \in TT : ~(<< y, x >> \in StrictSubsetOrdering(Nat))
  <2> HIDE DEF TT
  <2> QED
    BY <1>3, FS_StrictSubsetOrderingWellFounded, WFMin
<1>5. PICK n \in T : \A m \in T : ~(<< 0..m, 0..n >> \in StrictSubsetOrdering(Nat))
  BY <1>4
<1>6. n # 0 /\ n - 1 \in Nat
  BY <1>5
<1>7. n - 1 \notin S
  <2>1. n - 1 \in S => n - 1 + 1 \in S
    BY <1>6
  <2>2. n - 1 + 1 = n
    BY <1>6
  <2> QED
    BY <2>1, <2>2
<1>8. n - 1 \in T
  BY <1>6, <1>7
<1>9. << 0..(n - 1), 0..n >> \in StrictSubsetOrdering(Nat)
  <2>1. 0..(n - 1) \subseteq 0..n /\ 0..n \subseteq Nat /\ n \in 0..n /\ n \notin 0..(n - 1)
    BY <1>6
  <2> QED
    BY <2>1 DEF StrictSubsetOrdering
<1> QED
  BY <1>5, <1>8, <1>9

=============================================================================
