----------------------------- MODULE Induction ------------------------------
(***************************************************************************)
(* Induction over the natural numbers, and the functions it defines, for   *)
(* the proofs about FolderTree and ResponseHeaders.  What is to be shown   *)
(* of every number is given as the set of the numbers it holds of, and the *)
(* step of a recursion as a function, so that the facts can be cited like  *)
(* any other.                                                              *)
(***************************************************************************)
EXTENDS Integers, WellFoundedInduction, TLAPS

\* A set of numbers that is not empty has a least one.
THEOREM LeastOf ==
  ASSUME NEW T, T \subseteq Nat, T # {}
  PROVE  \E n \in T : \A m \in T : n <= m
<1>1. IsWellFoundedOn(OpToRel(<, Nat), Nat)
  BY NatLessThanWellFounded, Zenon
<1>2. PICK n \in T : \A m \in T : ~ (<<m, n>> \in OpToRel(<, Nat))
  BY <1>1, WFMin, Zenon
<1>3. \A m \in T : ~ (m < n)
  <2>1. TAKE m \in T
  <2>2. m \in Nat /\ n \in Nat
    OBVIOUS
  <2>3. <<m, n>> \in OpToRel(<, Nat) <=> m < n
    BY <2>2 DEF OpToRel
  <2>4. QED
    BY <1>2, <2>3
<1>4. QED
  BY <1>3

\* A set of numbers that holds 0 and the successor of each of its members holds all.
THEOREM Induct ==
  ASSUME NEW S, 0 \in S, \A n \in Nat : n \in S => n + 1 \in S
  PROVE  \A n \in Nat : n \in S
<1> DEFINE T == Nat \ S
<1>1. SUFFICES ASSUME T # {} PROVE FALSE
  OBVIOUS
<1>2. PICK n \in T : \A m \in T : n <= m
  BY <1>1, LeastOf
<1>3. n # 0 /\ n - 1 \in Nat /\ n - 1 \notin T
  BY <1>2
<1>4. QED
  BY <1>2, <1>3

\* The same when a number may rest on all smaller ones.
THEOREM StrongInduct ==
  ASSUME NEW S, \A n \in Nat : (\A m \in 0 .. n - 1 : m \in S) => n \in S
  PROVE  \A n \in Nat : n \in S
<1> DEFINE T == Nat \ S
<1>1. SUFFICES ASSUME T # {} PROVE FALSE
  OBVIOUS
<1>2. PICK n \in T : \A m \in T : n <= m
  BY <1>1, LeastOf
<1>3. \A m \in 0 .. n - 1 : m \in S
  BY <1>2
<1>4. QED
  BY <1>2, <1>3

\* A set of numbers with a bound has a greatest one, if it is not empty.
THEOREM GreatestOf ==
  ASSUME NEW bound \in Nat, NEW T, T \subseteq 0 .. bound, T # {}
  PROVE  \E n \in T : \A m \in T : m <= n
<1> DEFINE D == {bound - n : n \in T}
<1>1. D \subseteq Nat /\ D # {}
  <2>1. \A n \in T : bound - n \in Nat
    OBVIOUS
  <2>2. QED
    BY <2>1
<1>2. PICK d \in D : \A m \in D : d <= m
  <2> HIDE DEF D
  <2>1. QED
    BY <1>1, LeastOf
<1>3. PICK n \in T : d = bound - n
  OBVIOUS
<1>4. \A m \in T : bound - n <= bound - m
  BY <1>2, <1>3
<1>5. QED
  BY <1>4

\* A function on 0 .. n may be defined by its value at 0 and each next value by the
\* one before it.
THEOREM Recursion ==
  ASSUME NEW V, NEW c \in V, NEW n \in Nat, NEW step \in [1 .. n -> [V -> V]]
  PROVE  \E f \in [0 .. n -> V] :
           f[0] = c /\ \A i \in 1 .. n : f[i] = step[i][f[i - 1]]
<1> DEFINE Defines(f, k) == f[0] = c /\ \A i \in 1 .. k : f[i] = step[i][f[i - 1]]
           S == {k \in Nat : k > n \/ \E f \in [0 .. k -> V] : Defines(f, k)}
<1>1. 0 \in S
  <2>1. [i \in 0 .. 0 |-> c] \in [0 .. 0 -> V] /\ Defines([i \in 0 .. 0 |-> c], 0)
    OBVIOUS
  <2>2. QED
    BY <2>1
<1>2. ASSUME NEW k \in Nat, k \in S PROVE k + 1 \in S
  <2>1. CASE k + 1 > n
    BY <2>1
  <2>2. CASE k + 1 <= n
    <3>1. PICK f \in [0 .. k -> V] : Defines(f, k)
      BY <1>2, <2>2
    <3> DEFINE g == [i \in 0 .. k + 1 |-> IF i = k + 1 THEN step[k + 1][f[k]] ELSE f[i]]
    <3>2. f[k] \in V /\ k + 1 \in 1 .. n
      BY <2>2
    <3>3. step[k + 1][f[k]] \in V
      BY <3>2
    <3>4. g \in [0 .. k + 1 -> V]
      BY <3>3
    <3>5. g[0] = c /\ \A i \in 1 .. k + 1 : g[i] = step[i][g[i - 1]]
      <4>1. g[0] = c
        BY <3>1
      <4>2. ASSUME NEW i \in 1 .. k PROVE g[i] = step[i][g[i - 1]]
        BY <3>1
      <4>3. g[k + 1] = step[k + 1][g[k]]
        OBVIOUS
      <4>4. \A i \in 1 .. k + 1 : i \in 1 .. k \/ i = k + 1
        OBVIOUS
      <4> HIDE DEF g
      <4>5. g[k + 1] = step[k + 1][g[k + 1 - 1]]
        BY <4>3
      <4>6. QED
        BY <4>1, <4>2, <4>4, <4>5
    <3> HIDE DEF g
    <3>6. Defines(g, k + 1)
      BY <3>5
    <3>7. \E h \in [0 .. k + 1 -> V] : Defines(h, k + 1)
      BY <3>4, <3>6
    <3>8. QED
      BY <3>7
  <2>3. QED
    BY <2>1, <2>2
<1>3. n \in S
  <2> HIDE DEF S
  <2>1. QED
    BY <1>1, <1>2, Induct
<1>4. QED
  BY <1>3
=============================================================================
