------------------------------ MODULE Iteration ------------------------------
(***************************************************************************)
(* Induction over natural numbers in a form without operator parameters,   *)
(* and that a function given by its value at 0 and a step exists: what the *)
(* proofs about loops over a list need.  Both follow from the numbers      *)
(* being well-founded.                                                     *)
(***************************************************************************)
EXTENDS Naturals, WellFoundedInduction, TLAPS

Less == {ss \in Nat \X Nat : ss[1] < ss[2]}

LEMMA LeastNumber ==
    ASSUME NEW T \in SUBSET Nat, T # {}
    PROVE  \E m \in T : \A n \in T : m <= n
<1>1. IsWellFoundedOn(Less, Nat)
  BY NatLessThanWellFounded DEF OpToRel, Less
<1>2. PICK m \in T : \A y \in T : <<y, m>> \notin Less
  BY <1>1, WFMin
<1>3. ASSUME NEW n \in T PROVE m <= n
  <2>1. m \in Nat /\ n \in Nat
    OBVIOUS
  <2>2. ~(n < m)
    BY <2>1, <1>2 DEF Less
  <2> QED BY <2>1, <2>2
<1> QED BY <1>3

\* H is the set of the numbers for which something holds.
LEMMA UpTo ==
    ASSUME NEW n \in Nat, NEW H, 0 \in H,
           \A i \in 1 .. n : i - 1 \in H => i \in H
    PROVE  \A i \in 0 .. n : i \in H
<1> SUFFICES ASSUME NEW j \in 0 .. n, j \notin H PROVE FALSE
  OBVIOUS
<1> DEFINE T == {i \in 0 .. n : i \notin H}
<1>1. T \in SUBSET Nat /\ T # {}
  OBVIOUS
<1>2. PICK m \in T : \A i \in T : m <= i
  BY <1>1, LeastNumber
<1>3. m \in 1 .. n /\ m \notin H /\ m - 1 \in 0 .. n
  BY <1>2
<1>4. m - 1 \in H
  BY <1>2, <1>3
<1> QED BY <1>3, <1>4

\* The i-th step of a loop of n, from V to V.
LoopSteps(n, V) == [1 .. n -> [V -> V]]

\* What the loop comes to after each of its steps.
Iterations(n, V, base, step) ==
    {f \in [0 .. n -> V] :
        f[0] = base /\ \A i \in 1 .. n : f[i] = step[i][f[i - 1]]}

LEMMA IterationExists ==
    ASSUME NEW n \in Nat, NEW V, NEW base \in V, NEW step \in LoopSteps(n, V)
    PROVE  Iterations(n, V, base, step) # {}
<1> USE DEF LoopSteps
<1> DEFINE IsUpTo(f, k) ==
              f[0] = base /\ \A i \in 1 .. k : f[i] = step[i][f[i - 1]]
           H == {k \in 0 .. n : \E f \in [0 .. n -> V] : IsUpTo(f, k)}
<1>1. 0 \in H
  <2> DEFINE f == [i \in 0 .. n |-> base]
  <2>1. f \in [0 .. n -> V] /\ IsUpTo(f, 0) /\ 0 \in 0 .. n
    OBVIOUS
  <2> HIDE DEF f, IsUpTo
  <2> QED BY <2>1
<1>2. ASSUME NEW k \in 1 .. n, k - 1 \in H PROVE k \in H
  <2>1. PICK f \in [0 .. n -> V] : IsUpTo(f, k - 1)
    BY <1>2
  <2> DEFINE g == [f EXCEPT ![k] = step[k][f[k - 1]]]
  <2>2. f[k - 1] \in V
    BY <2>1
  <2>3. step[k][f[k - 1]] \in V
    BY <2>2
  <2>4. g \in [0 .. n -> V]
    BY <2>1, <2>3
  <2>5. \A i \in 0 .. n : g[i] = IF i = k THEN step[k][f[k - 1]] ELSE f[i]
    BY <2>1
  <2>6. IsUpTo(g, k)
    <3> HIDE DEF g
    <3>1. g[0] = base
      BY <2>1, <2>5
    <3>2. ASSUME NEW i \in 1 .. k PROVE g[i] = step[i][g[i - 1]]
      <4>1. g[i - 1] = f[i - 1] /\ i \in 0 .. n
        BY <2>5
      <4>2. CASE i = k
        BY <4>1, <4>2, <2>5
      <4>3. CASE i # k
        <5>1. i \in 1 .. k - 1
          BY <4>3
        <5> QED BY <4>1, <4>3, <5>1, <2>5, <2>1
      <4> QED BY <4>2, <4>3
    <3> QED BY <3>1, <3>2
  <2> HIDE DEF g, IsUpTo
  <2> QED BY <2>4, <2>6
<1>3. n \in H
  <2> HIDE DEF H
  <2>1. \A k \in 1 .. n : k - 1 \in H => k \in H
    BY <1>2
  <2>2. \A i \in 0 .. n : i \in H
    BY <1>1, <2>1, UpTo, Zenon
  <2> QED BY <2>2
<1> QED BY <1>3 DEF Iterations
=============================================================================
