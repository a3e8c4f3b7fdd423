----------------------------- MODULE Induction ------------------------------
(***************************************************************************)
(* Induction and recursion over 0 .. n, stated with sets and functions in  *)
(* place of operators, so that the provers can instantiate them.           *)
(***************************************************************************)
EXTENDS Integers, Sequences, WellFoundedInduction, TLAPS

\* A set with 0 in it and the successor of each of its elements up to n holds
\* all of 0 .. n.
LEMMA IntervalInduction ==
    ASSUME NEW n \in Nat, NEW T, 0 \in T,
           \A i \in 1 .. n : i - 1 \in T => i \in T
    PROVE  0 .. n \subseteq T
<1> DEFINE R == OpToRel(<, Nat)
           B == { i \in 0 .. n : i \notin T }
<1> SUFFICES ASSUME B # {} PROVE FALSE
  OBVIOUS
<1>1. IsWellFoundedOn(R, Nat)
  BY NatLessThanWellFounded
<1>2. B \subseteq Nat
  OBVIOUS
<1> HIDE DEF R, B
<1>3. PICK x \in B : \A y \in B : ~ (<<y, x>> \in R)
  BY <1>1, <1>2, WFMin
<1> USE DEF B
<1>4. x \in 1 .. n /\ x - 1 \in 0 .. n
  OBVIOUS
<1>5. x - 1 \in B
  BY <1>4
<1>6. <<x - 1, x>> \in R
  BY <1>4 DEF R, OpToRel
<1> QED
  BY <1>3, <1>5, <1>6

\* How the i-th of n values follows from the one before it.
StepFunction(step, n, V) == step \in [1 .. n -> [V -> V]]

\* The values that follow from the first one.
Recursive(g, n, V, base, step) ==
    /\ g \in [0 .. n -> V]
    /\ g[0] = base
    /\ \A i \in 1 .. n : g[i] = step[i][g[i - 1]]

\* A function on 0 .. n is given by its first value and the step from each
\* value to the next.
LEMMA RecursionExists ==
    ASSUME NEW n \in Nat, NEW V, NEW base \in V,
           NEW step, StepFunction(step, n, V)
    PROVE  \E g : Recursive(g, n, V, base, step)
<1> USE DEF StepFunction
<1> DEFINE Upto(k, g) == Recursive(g, k, V, base, step)
           T == { k \in 0 .. n : \E g : Upto(k, g) }
<1> USE DEF Recursive
<1>1. 0 \in T
  <2> DEFINE g == [i \in 0 .. 0 |-> base]
  <2>1. g \in [0 .. 0 -> V] /\ g[0] = base
    OBVIOUS
  <2>2. 1 .. 0 = {}
    OBVIOUS
  <2> HIDE DEF g
  <2>3. Upto(0, g)
    BY <2>1, <2>2
  <2> QED
    BY <2>3
<1>2. ASSUME NEW k \in 1 .. n, k - 1 \in T
      PROVE  k \in T
  <2>1. PICK g : Upto(k - 1, g)
    BY <1>2
  <2> DEFINE h == [i \in 0 .. k |->
                      IF i = k THEN step[k][g[k - 1]] ELSE g[i]]
  <2>2. g[k - 1] \in V /\ step[k][g[k - 1]] \in V
    BY <2>1
  <2>3. /\ h \in [0 .. k -> V]
        /\ h[k] = step[k][g[k - 1]]
        /\ \A i \in 0 .. k - 1 : h[i] = g[i]
    BY <2>1, <2>2
  <2> HIDE DEF h
  <2>4. Upto(k, h)
    <3>1. h[0] = base
      BY <2>1, <2>3
    <3>2. \A i \in 1 .. k : h[i] = step[i][h[i - 1]]
      BY <2>1, <2>3
    <3> QED
      BY <2>3, <3>1, <3>2
  <2> HIDE DEF Recursive
  <2> QED
    BY <2>4
<1>3. 0 .. n \subseteq T
  <2> HIDE DEF T
  <2> QED
    BY <1>1, <1>2, IntervalInduction
<1> QED
  BY <1>3

\* A function that obeys the step as long as it stays in V does so throughout.
LEMMA RecursionTyped ==
    ASSUME NEW n \in Nat, NEW V, NEW base \in V,
           NEW step, StepFunction(step, n, V),
           NEW f, f = [i \in 0 .. n |-> f[i]], f[0] = base,
           \A i \in 1 .. n : f[i - 1] \in V => f[i] = step[i][f[i - 1]]
    PROVE  Recursive(f, n, V, base, step)
<1> DEFINE T == { i \in 0 .. n : f[i] \in V }
<1>1. 0 \in T
  OBVIOUS
<1>2. ASSUME NEW i \in 1 .. n, i - 1 \in T
      PROVE  i \in T
  <2>1. i - 1 \in 0 .. n /\ f[i - 1] \in V
    BY <1>2
  <2>2. step[i][f[i - 1]] \in V
    BY <2>1 DEF StepFunction
  <2>3. f[i] = step[i][f[i - 1]]
    BY <2>1
  <2> QED
    BY <2>2, <2>3
<1>3. 0 .. n \subseteq T
  <2> HIDE DEF T
  <2> QED
    BY <1>1, <1>2, IntervalInduction
<1>4. f \in [0 .. n -> V]
  BY <1>3
<1> QED
  BY <1>4 DEF Recursive

-----------------------------------------------------------------------------
(***************************************************************************)
(* Paths in a tree of the numbers 1 .. N, in which the parent of each is a *)
(* smaller number, or 0 at the root.                                       *)
(***************************************************************************)
Parents(N, parent) ==
    parent \in [1 .. N -> 0 .. N - 1] /\ \A b \in 1 .. N : parent[b] < b

\* The path of a block leads through the paths of earlier ones.
PathIn(f, b) ==
    /\ f[b] # <<>> /\ f[b][Len(f[b])] = b
    /\ \A i \in 1 .. Len(f[b]) : /\ f[b][i] \in 1 .. b
                                 /\ f[f[b][i]] = SubSeq(f[b], 1, i)

\* The paths of the first n blocks.
PathsUpTo(f, n) == f[0] = <<>> /\ \A b \in 1 .. n : PathIn(f, b)

\* Another block on top of one of them.
LEMMA PathsStep ==
    ASSUME NEW N \in Nat, NEW n \in 1 .. N,
           NEW f \in [0 .. N -> Seq(1 .. N)],
           PathsUpTo(f, n - 1), NEW c \in 0 .. n - 1
    PROVE  PathsUpTo([f EXCEPT ![n] = Append(f[c], n)], n)
<1> DEFINE s == f[c]
           t == Append(s, n)
           g == [f EXCEPT ![n] = t]
<1>1. /\ N \in Nat /\ n \in 1 .. N /\ c \in 0 .. N
      /\ s \in Seq(1 .. N) /\ Len(s) \in Nat
  OBVIOUS
<1>2. g[n] = t /\ \A b \in 0 .. N : b # n => g[b] = f[b]
  BY <1>1
<1>3. \A i \in 1 .. Len(s) : s[i] \in 1 .. n - 1 /\ f[s[i]] = SubSeq(s, 1, i)
  <2>1. CASE c = 0
    BY <2>1 DEF PathsUpTo
  <2>2. CASE c \in 1 .. n - 1
    <3>1. PathIn(f, c)
      BY <2>2 DEF PathsUpTo
    <3>2. \A i \in 1 .. Len(s) : s[i] \in 1 .. c /\ f[s[i]] = SubSeq(s, 1, i)
      BY <3>1 DEF PathIn
    <3> QED
      BY <1>1, <2>2, <3>2
  <2> QED
    BY <1>1, <2>1, <2>2
<1> HIDE DEF s, g
<1>4. /\ Len(t) = Len(s) + 1 /\ t # <<>> /\ t[Len(t)] = n
      /\ \A i \in 1 .. Len(s) : t[i] = s[i] /\ SubSeq(t, 1, i) = SubSeq(s, 1, i)
      /\ SubSeq(t, 1, Len(t)) = t
  <2>1. /\ Len(t) = Len(s) + 1 /\ t \in Seq(1 .. N) /\ t[Len(t)] = n
        /\ \A i \in 1 .. Len(s) : t[i] = s[i]
    BY <1>1
  <2> HIDE DEF t
  <2>2. t # <<>>
    BY <1>1, <2>1
  <2>3. ASSUME NEW i \in 1 .. Len(s)
        PROVE  SubSeq(t, 1, i) = SubSeq(s, 1, i)
    BY <1>1, <2>1, <2>3
  <2>4. SubSeq(t, 1, Len(t)) = t
    BY <1>1, <2>1
  <2> QED
    BY <2>1, <2>2, <2>3, <2>4
<1>5. ASSUME NEW i \in 1 .. Len(t)
      PROVE  t[i] \in 1 .. n /\ g[t[i]] = SubSeq(t, 1, i)
  <2>1. CASE i \in 1 .. Len(s)
    <3>1. t[i] = s[i] /\ s[i] \in 1 .. n - 1
      BY <1>3, <1>4, <2>1
    <3>2. s[i] \in 0 .. N /\ s[i] # n /\ s[i] \in 1 .. n
      <4> HIDE DEF t
      <4>1. \A x \in 1 .. n - 1 : x \in 0 .. N /\ x # n /\ x \in 1 .. n
        BY <1>1
      <4> QED
        BY <3>1, <4>1
    <3>3. g[s[i]] = f[s[i]]
      BY <1>2, <3>2
    <3> QED
      BY <1>3, <1>4, <2>1, <3>1, <3>2, <3>3
  <2>2. CASE i = Len(t)
    <3>1. t[i] = n /\ SubSeq(t, 1, i) = t
      BY <1>4, <2>2
    <3>2. n \in 1 .. n
      BY <1>1
    <3> QED
      BY <1>2, <3>1, <3>2
  <2>3. i \in 1 .. Len(s) \/ i = Len(t)
    <3>1. Len(t) = Len(s) + 1 /\ Len(s) \in Nat
      BY <1>1, <1>4
    <3>2. \A k \in Nat : \A j \in 1 .. k + 1 : j \in 1 .. k \/ j = k + 1
      OBVIOUS
    <3> HIDE DEF t
    <3>3. i \in 1 .. Len(t)
      OBVIOUS
    <3> QED
      BY ONLY <3>1, <3>2, <3>3
  <2> HIDE DEF t
  <2> QED
    BY <2>1, <2>2, <2>3
<1> HIDE DEF t
<1>6. ASSUME NEW b \in 1 .. n - 1
      PROVE  /\ g[b] = f[b]
             /\ \A i \in 1 .. Len(f[b]) : /\ f[b][i] \in 1 .. b
                                          /\ g[f[b][i]] = SubSeq(f[b], 1, i)
  <2>1. g[b] = f[b]
    BY <1>1, <1>2
  <2>2. ASSUME NEW i \in 1 .. Len(f[b])
        PROVE  f[b][i] \in 1 .. b /\ g[f[b][i]] = SubSeq(f[b], 1, i)
    <3>1. f[b][i] \in 1 .. b /\ f[f[b][i]] = SubSeq(f[b], 1, i)
      BY DEF PathsUpTo, PathIn
    <3>2. f[b][i] \in 0 .. N /\ f[b][i] # n
      BY <1>1, <3>1, SMTT(30)
    <3>3. g[f[b][i]] = f[f[b][i]]
      BY <1>2, <3>2
    <3> QED
      BY <3>1, <3>3
  <2> QED
    BY <2>1, <2>2
<1>7. ASSUME NEW b \in 1 .. n
      PROVE  PathIn(g, b)
  <2>1. CASE b = n
    BY <1>2, <1>4, <1>5, <2>1 DEF PathIn
  <2>2. CASE b \in 1 .. n - 1
    <3>1. f[b] # <<>> /\ f[b][Len(f[b])] = b
      BY <2>2 DEF PathsUpTo, PathIn
    <3> QED
      BY <1>6, <2>2, <3>1 DEF PathIn
  <2> QED
    BY <1>1, <2>1, <2>2
<1>8. g[0] = <<>>
  BY <1>1, <1>2 DEF PathsUpTo
<1> QED
  BY <1>7, <1>8 DEF PathsUpTo, g, t, s

\* The paths that are found one number at a time.
LEMMA PathsOfTree ==
    ASSUME NEW N \in Nat, NEW parent, Parents(N, parent),
           NEW S,
           S = CHOOSE f : f = [i \in 0 .. N |->
                   IF i = 0 THEN [b \in 0 .. N |-> <<>>]
                   ELSE [f[i - 1] EXCEPT ![i] = Append(f[i - 1][parent[i]], i)]]
    PROVE  S[N] \in [0 .. N -> Seq(1 .. N)] /\ PathsUpTo(S[N], N)
<1> DEFINE V == [0 .. N -> Seq(1 .. N)]
           base == [b \in 0 .. N |-> <<>>]
           E(v, i) == [v EXCEPT ![i] = Append(v[parent[i]], i)]
           F(f) == [i \in 0 .. N |-> IF i = 0 THEN base ELSE E(f[i - 1], i)]
           step == [i \in 1 .. N |-> [v \in V |-> E(v, i)]]
<1>1. base \in V
  OBVIOUS
<1>2. ASSUME NEW i \in 1 .. N, NEW v \in V
      PROVE  E(v, i) \in V
  <2>1. parent[i] \in 0 .. N
    BY DEF Parents
  <2>2. Append(v[parent[i]], i) \in Seq(1 .. N)
    BY <2>1
  <2> QED
    BY <2>2
<1>3. S = CHOOSE f : f = F(f)
  OBVIOUS
<1> HIDE DEF V, base, E
<1>4. StepFunction(step, N, V)
  BY <1>2 DEF StepFunction
<1>5. \A i \in 1 .. N : \A v \in V : step[i][v] = E(v, i)
  OBVIOUS
<1> HIDE DEF step
<1>6. PICK g : Recursive(g, N, V, base, step)
  BY <1>1, <1>4, RecursionExists
<1>7. g = F(g)
  <2>1. \A i \in 1 .. N : g[i] = E(g[i - 1], i)
    BY <1>1, <1>5, <1>6 DEF Recursive
  <2>2. g = [i \in 0 .. N |-> g[i]] /\ g[0] = base
    BY <1>6 DEF Recursive
  <2>3. \A i \in 0 .. N : g[i] = IF i = 0 THEN base ELSE E(g[i - 1], i)
    <3> TAKE i \in 0 .. N
    <3>1. CASE i = 0
      BY <2>2, <3>1
    <3>2. CASE i \in 1 .. N
      BY <2>1, <3>2
    <3> QED
      BY <3>1, <3>2
  <2> QED
    BY <2>2, <2>3
<1>8. S = F(S)
  BY <1>3, <1>7
<1>9. \A i \in 0 .. N : S[i] = IF i = 0 THEN base ELSE E(S[i - 1], i)
  BY <1>8
<1>10. S = [i \in 0 .. N |-> S[i]]
  BY <1>8, <1>9
<1>11. S[0] = base /\ \A i \in 1 .. N : S[i] = E(S[i - 1], i)
  <2>1. 0 \in 0 .. N /\ \A i \in 1 .. N : i \in 0 .. N /\ i # 0
    BY ONLY <1>1
  <2> QED
    BY ONLY <1>9, <2>1, ZenonT(30)
<1>12. Recursive(S, N, V, base, step)
  BY <1>1, <1>4, <1>5, <1>10, <1>11, RecursionTyped
<1>13. S \in [0 .. N -> V]
  BY <1>12 DEF Recursive
<1> DEFINE T == { n \in 0 .. N : PathsUpTo(S[n], n) }
<1>14. 0 \in T
  <2>1. 1 .. 0 = {} /\ 0 \in 0 .. N
    OBVIOUS
  <2>2. S[0][0] = <<>>
    BY <1>11, <2>1 DEF base
  <2>3. PathsUpTo(S[0], 0)
    BY <2>1, <2>2 DEF PathsUpTo
  <2> QED
    BY <2>1, <2>3
<1>15. ASSUME NEW n \in 1 .. N, n - 1 \in T
       PROVE  n \in T
  <2> DEFINE f == S[n - 1]
  <2>1. parent[n] \in 0 .. n - 1
    BY DEF Parents
  <2>2. f \in [0 .. N -> Seq(1 .. N)] /\ PathsUpTo(f, n - 1)
    BY <1>13, <1>15 DEF V
  <2>3. S[n] = [f EXCEPT ![n] = Append(f[parent[n]], n)]
    BY <1>11 DEF E
  <2> HIDE DEF f
  <2>4. PathsUpTo([f EXCEPT ![n] = Append(f[parent[n]], n)], n)
    BY <2>1, <2>2, PathsStep
  <2> QED
    BY <2>3, <2>4
<1>16. 0 .. N \subseteq T
  <2> HIDE DEF T
  <2> QED
    BY <1>14, <1>15, IntervalInduction
<1>17. N \in 0 .. N
  OBVIOUS
<1>18. PathsUpTo(S[N], N)
  BY <1>16, <1>17
<1> QED
  BY <1>13, <1>17, <1>18 DEF V

\* A set of numbers up to n has a greatest and a least element.
LEMMA Extremes ==
    ASSUME NEW n \in Nat, NEW S \in SUBSET (0 .. n), S # {}
    PROVE  /\ \E x \in S : \A y \in S : x >= y
           /\ \E x \in S : \A y \in S : x <= y
<1> DEFINE Bounded(R) == /\ \E x \in R : \A y \in R : x >= y
                         /\ \E x \in R : \A y \in R : x <= y
           T == { k \in 0 .. n : \A R \in SUBSET (0 .. k) : R = {} \/ Bounded(R) }
<1>1. 0 \in T
  <2>1. 0 .. 0 = {0}
    OBVIOUS
  <2>2. ASSUME NEW R \in SUBSET {0}, R # {}
        PROVE  Bounded(R)
    <3>1. R = {0}
      BY <2>2
    <3> QED
      BY <3>1
  <2> HIDE DEF Bounded
  <2> QED
    BY <2>1, <2>2
<1>2. ASSUME NEW k \in 1 .. n, k - 1 \in T
      PROVE  k \in T
  <2> SUFFICES ASSUME NEW R \in SUBSET (0 .. k), R # {}
               PROVE  Bounded(R)
    OBVIOUS
  <2> DEFINE Q == R \ {k}
  <2>1. Q \in SUBSET (0 .. k - 1)
    OBVIOUS
  <2>2. Q = {} \/ Bounded(Q)
    BY <1>2, <2>1
  <2>3. \A y \in R : y \in Int /\ y <= k
    OBVIOUS
  <2>4. CASE Q = {}
    <3>1. R = {k}
      BY <2>4
    <3> QED
      BY <3>1
  <2>5. CASE k \notin R
    <3>1. Q = R
      BY <2>5
    <3> QED
      BY <2>2, <3>1
  <2>6. CASE k \in R /\ Bounded(Q)
    <3>1. \E x \in R : \A y \in R : x >= y
      BY <2>3, <2>6
    <3>2. PICK x \in Q : \A y \in Q : x <= y
      BY <2>6
    <3>3. x \in R /\ x <= k /\ \A y \in R : y = k \/ y \in Q
      BY <2>3
    <3>4. \E z \in R : \A y \in R : z <= y
      BY <3>2, <3>3
    <3> QED
      BY <3>1, <3>4
  <2> HIDE DEF Q, Bounded
  <2> QED
    BY <2>2, <2>4, <2>5, <2>6
<1>3. 0 .. n \subseteq T
  <2> HIDE DEF T
  <2> QED
    BY <1>1, <1>2, IntervalInduction
<1>4. Bounded(S)
  <2>1. n \in 0 .. n
    OBVIOUS
  <2>2. n \in T
    BY <1>3, <2>1
  <2> HIDE DEF Bounded
  <2> QED
    BY <2>2
<1> QED
  BY <1>4
=============================================================================
