------------------------------- MODULE Loops -------------------------------
(***************************************************************************)
(* Facts about numbers and about functions that are defined along them,    *)
(* for the proofs about loops.                                             *)
(***************************************************************************)
EXTENDS Integers, WellFoundedInduction, TLAPS

(* A set of numbers that is not empty has a least one.                     *)
LEMMA LeastNumber ==
  ASSUME NEW S \in SUBSET Nat, S # {}
  PROVE  \E m \in S : \A k \in S : m <= k
<1> DEFINE R == {ss \in Nat \X Nat : ss[1] < ss[2]}
<1>1. IsWellFoundedOn(R, Nat)
  BY NatLessThanWellFounded DEF OpToRel
<1> HIDE DEF R
<1>2. PICK m \in S : \A k \in S : <<k, m>> \notin R
  BY <1>1, WFMin
<1>3. ASSUME NEW k \in S, k < m PROVE FALSE
  <2>1. <<k, m>> \in Nat \X Nat /\ <<k, m>>[1] < <<k, m>>[2]
    BY <1>3
  <2>2. <<k, m>> \in R
    BY <2>1, Zenon DEF R
  <2> QED BY <1>2, <2>2
<1> QED BY <1>3

(* Induction, with the numbers that have the property as a set.            *)
LEMMA Induction ==
  ASSUME NEW N \in Nat, NEW S, 0 \in S, \A n \in 1..N : n - 1 \in S => n \in S
  PROVE  0..N \subseteq S
<1> SUFFICES ASSUME (0..N) \ S # {} PROVE FALSE
  OBVIOUS
<1>1. PICK m \in (0..N) \ S : \A k \in (0..N) \ S : m <= k
  <2>1. (0..N) \ S \in SUBSET Nat
    OBVIOUS
  <2> QED BY <2>1, LeastNumber, Zenon
<1>2. m \in 1..N
  BY <1>1
<1> QED BY <1>1, <1>2

(* A function that is defined along the numbers exists.                    *)
IsRun(f, N, S, start, step) ==
  /\ f \in [0..N -> S]
  /\ f[0] = start
  /\ \A n \in 1..N : f[n] = step[<<n, f[n - 1]>>]
LEMMA Recursion ==
  ASSUME NEW N, N \in Nat, NEW S, NEW start, start \in S, NEW step, step \in [(1..N) \X S -> S]
  PROVE  \E f : IsRun(f, N, S, start, step)
<1> DEFINE Runs(M) == {f \in [0..M -> S] : f[0] = start /\ \A n \in 1..M : f[n] = step[<<n, f[n - 1]>>]}
           T == {M \in 0..N : Runs(M) # {}}
<1>1. 0 \in T
  <2>1. [n \in 0..0 |-> start] \in Runs(0)
    OBVIOUS
  <2> QED BY <2>1
<1>2. ASSUME NEW n \in 1..N, n - 1 \in T PROVE n \in T
  <2>1. PICK f \in Runs(n - 1) : TRUE
    BY <1>2
  <2>2. f \in [0..(n - 1) -> S] /\ f[0] = start /\ \A m \in 1..(n - 1) : f[m] = step[<<m, f[m - 1]>>]
    BY <2>1
  <2> DEFINE g == [m \in 0..n |-> IF m = n THEN step[<<n, f[n - 1]>>] ELSE f[m]]
  <2>3. f[n - 1] \in S /\ step[<<n, f[n - 1]>>] \in S
    <3>1. n - 1 \in 0..(n - 1)
      OBVIOUS
    <3>2. f[n - 1] \in S
      BY <2>2, <3>1
    <3> QED BY <3>2
  <2>4. \A m \in 0..n : g[m] \in S
    <3> SUFFICES ASSUME NEW m \in 0..n, m # n PROVE f[m] \in S
      BY <2>3
    <3> QED BY <2>2
  <2>5. g[0] = start
    BY <2>2
  <2>6. ASSUME NEW m \in 1..n PROVE g[m] = step[<<m, g[m - 1]>>]
    <3>1. g[m - 1] = f[m - 1]
      OBVIOUS
    <3>2. CASE m = n
      <4>1. n \in 0..n /\ g[n] = step[<<n, f[n - 1]>>]
        OBVIOUS
      <4> QED BY <3>1, <3>2, <4>1, Zenon
    <3>3. CASE m # n
      <4>1. m \in 1..(n - 1) /\ g[m] = f[m]
        BY <3>3
      <4> QED BY <2>2, <3>1, <4>1
    <3> QED BY <3>2, <3>3
  <2>7. g \in [0..n -> S]
    BY <2>4
  <2> HIDE DEF g
  <2>8. g \in Runs(n)
    BY <2>5, <2>6, <2>7
  <2> HIDE DEF Runs
  <2> QED BY <2>8
<1> HIDE DEF T, Runs
<1>3. 0..N \subseteq T
  BY <1>1, <1>2, Induction
<1>4. N \in T
  BY <1>3
<1>5. PICK f : f \in Runs(N)
  BY <1>4 DEF T
<1>6. IsRun(f, N, S, start, step)
  BY <1>5 DEF Runs, IsRun
<1> QED BY <1>6

-----------------------------------------------------------------------------
(* Loops: f[n] is the state after n turns, and T what a turn does.         *)

Laps(f, N, S, start, T) ==
  /\ f \in [0..N -> S]
  /\ f[0] = start
  /\ \A n \in 1..N : f[n] = T[f[n - 1]]

LEMMA LapsExist ==
  ASSUME NEW N, N \in Nat, NEW S, NEW start, start \in S, NEW T, T \in [S -> S]
  PROVE  \E f : Laps(f, N, S, start, T)
<1> DEFINE step == [p \in (1..N) \X S |-> T[p[2]]]
<1>1. step \in [(1..N) \X S -> S]
  OBVIOUS
<1> HIDE DEF step
<1>2. PICK f : IsRun(f, N, S, start, step)
  BY <1>1, Recursion, Zenon
<1>3. f \in [0..N -> S] /\ f[0] = start /\ \A n \in 1..N : f[n] = step[<<n, f[n - 1]>>]
  BY <1>2 DEF IsRun
<1>4. ASSUME NEW n \in 1..N PROVE f[n] = T[f[n - 1]]
  <2>1. f[n - 1] \in S
    <3>1. n - 1 \in 0..N
      OBVIOUS
    <3> QED BY <1>3, <3>1
  <2>2. <<n, f[n - 1]>> \in (1..N) \X S
    BY <2>1
  <2>3. step[<<n, f[n - 1]>>] = T[f[n - 1]]
    BY <2>2 DEF step
  <2> QED BY <1>3, <2>3
<1> QED BY <1>3, <1>4 DEF Laps

(* What a turn keeps, the loop keeps.                                      *)
LEMMA LapsKeep ==
  ASSUME NEW N, N \in Nat, NEW S, NEW start, NEW T, NEW f, Laps(f, N, S, start, T),
         NEW Q, start \in Q, \A s \in S : s \in Q => T[s] \in Q
  PROVE  \A n \in 0..N : f[n] \in Q
<1> DEFINE P == {n \in 0..N : f[n] \in Q}
<1>1. 0 \in P
  BY DEF Laps
<1>2. ASSUME NEW n \in 1..N, n - 1 \in P PROVE n \in P
  <2>1. n - 1 \in 0..N /\ f[n - 1] \in S /\ f[n - 1] \in Q
    BY <1>2 DEF Laps
  <2>2. f[n] = T[f[n - 1]]
    BY DEF Laps
  <2> QED BY <2>1, <2>2
<1> HIDE DEF P
<1>3. 0..N \subseteq P
  BY <1>1, <1>2, Induction
<1> QED BY <1>3 DEF P

(* A loop that stands still stays there.                                   *)
LEMMA LapsStay ==
  ASSUME NEW N, N \in Nat, NEW S, NEW start, NEW T, NEW f, Laps(f, N, S, start, T), T[start] = start
  PROVE  f[N] = start
<1>1. start \in {start} /\ \A s \in S : s \in {start} => T[s] \in {start}
  OBVIOUS
<1>2. \A n \in 0..N : f[n] \in {start}
  BY <1>1, LapsKeep, Zenon
<1> QED BY <1>2

(* A loop with a measure that falls comes to a stand.                      *)
Falls(m, f, N, S, start, T) ==
  /\ N \in Nat /\ Laps(f, N, S, start, T)
  /\ T \in [S -> S] /\ m \in [S -> Nat] /\ m[start] <= N
  /\ \A s \in S : T[s] = s \/ m[T[s]] < m[s]
LEMMA LapsStop ==
  ASSUME NEW N, NEW S, NEW start, NEW T, NEW f, NEW m, Falls(m, f, N, S, start, T)
  PROVE  T[f[N]] = f[N]
<1> USE DEF Falls
<1> DEFINE P == {n \in 0..N : T[f[n]] = f[n] \/ m[f[n]] <= N - n}
<1>1. 0 \in P
  BY DEF Laps
<1>2. ASSUME NEW n \in 1..N, n - 1 \in P PROVE n \in P
  <2>1. n - 1 \in 0..N /\ n \in 0..N /\ f[n - 1] \in S /\ f[n] \in S
    BY DEF Laps
  <2>2. f[n] = T[f[n - 1]]
    BY DEF Laps
  <2>3. CASE T[f[n - 1]] = f[n - 1]
    BY <2>1, <2>2, <2>3
  <2>4. CASE T[f[n - 1]] # f[n - 1]
    <3>1. m[f[n - 1]] <= N - (n - 1)
      BY <1>2, <2>4
    <3>2. m[f[n]] < m[f[n - 1]]
      BY <2>1, <2>2, <2>4
    <3>3. m[f[n]] \in Nat /\ m[f[n - 1]] \in Nat
      BY <2>1
    <3>4. m[f[n]] <= N - n
      BY <3>1, <3>2, <3>3
    <3> QED BY <3>4
  <2> QED BY <2>3, <2>4
<1> HIDE DEF P
<1>3. N \in P
  <2>1. 0..N \subseteq P
    BY <1>1, <1>2, Induction
  <2> QED BY <2>1
<1>4. f[N] \in S
  BY DEF Laps
<1>5. T[f[N]] = f[N] \/ m[f[N]] <= 0
  BY <1>3 DEF P
<1>6. m[f[N]] \in Nat /\ m[T[f[N]]] \in Nat
  BY <1>4
<1> QED BY <1>4, <1>5, <1>6

(* One turn first makes no difference to where a loop comes to a stand.    *)
Unrolls(f, N, g, M, S, start, T) ==
  /\ N \in Nat /\ M \in 0..N - 1
  /\ Laps(f, N, S, start, T) /\ Laps(g, M, S, T[start], T)
  /\ T[g[M]] = g[M]
LEMMA LapsUnroll ==
  ASSUME NEW N, NEW M, NEW S, NEW start, NEW T, NEW f, NEW g, Unrolls(f, N, g, M, S, start, T)
  PROVE  f[N] = g[M]
<1> USE DEF Unrolls
<1> DEFINE P == {n \in 0..N : \/ n = 0
                              \/ n <= M + 1 /\ f[n] = g[n - 1]
                              \/ n > M + 1 /\ f[n] = g[M]}
<1>1. ASSUME NEW n \in 1..N, n - 1 \in P PROVE n \in P
  <2>1. f[n] = T[f[n - 1]]
    BY DEF Laps
  <2>2. CASE n = 1
    <3>1. f[1] = T[f[0]] /\ f[0] = start /\ g[0] = T[start]
      BY <2>1, <2>2 DEF Laps
    <3>2. f[n] = g[n - 1]
      BY <2>2, <3>1
    <3> QED BY <2>2, <3>2
  <2>3. CASE n > 1 /\ n <= M + 1
    <3>1. f[n - 1] = g[n - 2]
      BY <1>1, <2>3
    <3>2. n - 1 \in 1..M /\ n - 1 - 1 = n - 2
      BY <2>3
    <3>3. g[n - 1] = T[g[n - 2]]
      BY <3>2 DEF Laps
    <3> QED BY <2>1, <2>3, <3>1, <3>3
  <2>4. CASE n > M + 1
    <3>1. f[n - 1] = g[M]
      BY <1>1, <2>4
    <3> QED BY <2>1, <2>4, <3>1
  <2> QED BY <2>2, <2>3, <2>4
<1>2. 0 \in P
  OBVIOUS
<1> HIDE DEF P
<1>3. 0..N \subseteq P
  BY <1>1, <1>2, Induction
<1>4. N \in P
  BY <1>3
<1> QED BY <1>4 DEF P

(* A loop goes one way only.                                               *)
LEMMA LapsAgree ==
  ASSUME NEW N, N \in Nat, NEW S, NEW start, NEW T,
         NEW f, Laps(f, N, S, start, T), NEW g, Laps(g, N, S, start, T)
  PROVE  f[N] = g[N]
<1> DEFINE P == {n \in 0..N : f[n] = g[n]}
<1>1. 0 \in P
  BY DEF Laps
<1>2. ASSUME NEW n \in 1..N, n - 1 \in P PROVE n \in P
  BY <1>2 DEF Laps
<1> HIDE DEF P
<1>3. 0..N \subseteq P
  BY <1>1, <1>2, Induction
<1>4. N \in P
  BY <1>3
<1> QED BY <1>4 DEF P
============================================================================
