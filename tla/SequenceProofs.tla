--------------------------- MODULE SequenceProofs ---------------------------
(* Facts about numbers and sequences that the proofs of several modules    *)
(* rest on.                                                                *)
EXTENDS Integers, Sequences, Functions, NaturalsInduction, WellFoundedInduction, TLAPS

-----------------------------------------------------------------------------
(* Numbers                                                                 *)

LEMMA SmallestExists ==
  ASSUME NEW T, T \subseteq Nat, T # {}
  PROVE  \E x \in T : \A y \in T : x <= y
<1>1. PICK x \in T : \A y \in T : <<y, x>> \notin OpToRel(<, Nat)
  BY NatLessThanWellFounded, WFMin
<1>2. ASSUME NEW y \in T
      PROVE  x <= y
  <2>1. ~ (y < x)
    BY <1>1 DEF OpToRel
  <2>. QED
    BY <2>1
<1>. QED
  BY <1>2

LEMMA LargestExists ==
  ASSUME NEW n \in Nat, NEW T, T \subseteq 0 .. n, T # {}
  PROVE  \E x \in T : \A y \in T : y <= x
<1>. DEFINE U == {u \in Nat : u <= n /\ n - u \in T}
<1>1. \A y \in T : n - y \in U /\ y \in Nat
  OBVIOUS
<1>2. PICK u \in U : \A v \in U : u <= v
  BY <1>1, SmallestExists
<1>. HIDE DEF U
<1>3. n - u \in T /\ \A y \in T : u <= n - y
  BY <1>1, <1>2 DEF U
<1>4. u \in Nat
  BY DEF U
<1>. QED
  BY <1>1, <1>3, <1>4

\* Induction, with a set of numbers in place of a property.
LEMMA AllBelow ==
  ASSUME NEW n \in Nat, NEW T, 0 \in T, \A k \in 0 .. n - 1 : k \in T => k + 1 \in T
  PROVE  0 .. n \subseteq T
<1>1. SUFFICES ASSUME (0 .. n) \ T # {}
               PROVE  FALSE
  OBVIOUS
<1>2. PICK x \in (0 .. n) \ T : \A y \in (0 .. n) \ T : x <= y
  <2>1. (0 .. n) \ T \subseteq Nat
    OBVIOUS
  <2>. QED
    BY <1>1, <2>1, SmallestExists
<1>3. x # 0 /\ x - 1 \in 0 .. n - 1 /\ x - 1 \in T
  BY <1>2
<1>. QED
  BY <1>2, <1>3

-----------------------------------------------------------------------------
(* Queues: what runExclusive of async-mutex does to the queue of its       *)
(* callers: one that calls enters at the end, one that leaves is at the    *)
(* head.                                                                   *)

Distinct(q) == \A i, j \in DOMAIN q : q[i] = q[j] => i = j

LEMMA Enqueued ==
  ASSUME NEW S, NEW q \in Seq(S), Distinct(q), NEW x \in S, x \notin Range(q)
  PROVE  /\ Append(q, x) \in Seq(S) /\ Distinct(Append(q, x))
         /\ Range(Append(q, x)) = Range(q) \cup {x}
         /\ \A y \in Range(q) : q[1] = y => Append(q, x)[1] = y
<1>1. /\ Append(q, x) \in Seq(S) /\ Len(Append(q, x)) = Len(q) + 1
      /\ \A i \in 1 .. Len(q) : Append(q, x)[i] = q[i]
      /\ Append(q, x)[Len(q) + 1] = x
      /\ DOMAIN q = 1 .. Len(q) /\ Len(q) \in Nat
      /\ DOMAIN Append(q, x) = 1 .. Len(q) + 1
  OBVIOUS
<1>2. Distinct(Append(q, x))
  BY <1>1 DEF Distinct, Range
<1>3. Range(Append(q, x)) = Range(q) \cup {x}
  BY <1>1 DEF Range
<1>4. \A y \in Range(q) : q[1] = y => Append(q, x)[1] = y
  BY <1>1 DEF Range
<1>. QED
  BY <1>1, <1>2, <1>3, <1>4

LEMMA Dequeued ==
  ASSUME NEW S, NEW q \in Seq(S), Distinct(q), NEW x \in Range(q), q[1] = x
  PROVE  /\ Tail(q) \in Seq(S) /\ Distinct(Tail(q))
         /\ Range(Tail(q)) = Range(q) \ {x}
<1>1. /\ Tail(q) \in Seq(S) /\ Len(Tail(q)) = Len(q) - 1
      /\ \A i \in 1 .. Len(q) - 1 : Tail(q)[i] = q[i + 1]
      /\ DOMAIN q = 1 .. Len(q) /\ Len(q) \in Nat \ {0}
      /\ DOMAIN Tail(q) = 1 .. Len(q) - 1
  BY DEF Range
<1>2. Distinct(Tail(q))
  BY <1>1 DEF Distinct
<1>3. ASSUME NEW y \in Range(q) \ {x}
      PROVE  y \in Range(Tail(q))
  <2>1. PICK i \in 2 .. Len(q) : q[i] = y
    BY <1>1, <1>3 DEF Range
  <2>2. i - 1 \in 1 .. Len(q) - 1 /\ Tail(q)[i - 1] = y
    BY <1>1, <2>1
  <2>. QED
    BY <1>1, <2>2 DEF Range
<1>4. Range(Tail(q)) \subseteq Range(q) \ {x}
  BY <1>1 DEF Range, Distinct
<1>. QED
  BY <1>1, <1>2, <1>3, <1>4

-----------------------------------------------------------------------------
(* One sequence after another                                              *)

LEMMA Concatenated ==
  ASSUME NEW S, NEW p \in Seq(S), NEW q \in Seq(S), NEW r, r = p \o q
  PROVE  /\ r \in Seq(S) /\ Len(r) = Len(p) + Len(q) /\ Len(p) \in Nat /\ Len(q) \in Nat
         /\ DOMAIN p = 1 .. Len(p) /\ DOMAIN q = 1 .. Len(q) /\ DOMAIN r = 1 .. Len(p) + Len(q)
         /\ \A i \in DOMAIN p : r[i] = p[i]
         /\ \A i \in DOMAIN r \ DOMAIN p : i - Len(p) \in DOMAIN q /\ r[i] = q[i - Len(p)]
<1>1. /\ Len(p) \in Nat /\ Len(q) \in Nat /\ DOMAIN p = 1 .. Len(p) /\ DOMAIN q = 1 .. Len(q)
      /\ p \o q \in Seq(S) /\ Len(p \o q) = Len(p) + Len(q)
      /\ DOMAIN (p \o q) = 1 .. Len(p) + Len(q)
      /\ \A i \in 1 .. Len(p) + Len(q) : (p \o q)[i] = IF i <= Len(p) THEN p[i] ELSE q[i - Len(p)]
  OBVIOUS
<1>. QED
  BY <1>1

-----------------------------------------------------------------------------
(* Sums: f is the function of the partial sums of q.                       *)

SumsUp(f, q) == f = [n \in 0 .. Len(q) |-> IF n = 0 THEN 0 ELSE f[n - 1] + q[n]]

LEMMA SumExists ==
  ASSUME NEW q \in Seq(Int)
  PROVE  \E f : SumsUp(f, q)
<1>. DEFINE Part(k) == \E f \in [0 .. k -> Int] : f[0] = 0 /\ \A n \in 1 .. k : f[n] = f[n - 1] + q[n]
            T == {k \in 0 .. Len(q) : Part(k)}
<1>1. Len(q) \in Nat /\ \A n \in 1 .. Len(q) : q[n] \in Int
  OBVIOUS
<1>2. 0 \in T
  <2>. DEFINE z == [k \in 0 .. 0 |-> 0]
  <2>1. z \in [0 .. 0 -> Int] /\ z[0] = 0 /\ \A n \in 1 .. 0 : z[n] = z[n - 1] + q[n]
    OBVIOUS
  <2>. HIDE DEF z
  <2>2. Part(0)
    BY <2>1
  <2>. QED
    BY <1>1, <2>2
<1>3. ASSUME NEW k \in 0 .. Len(q) - 1, k \in T
      PROVE  k + 1 \in T
  <2>1. PICK f \in [0 .. k -> Int] : f[0] = 0 /\ \A n \in 1 .. k : f[n] = f[n - 1] + q[n]
    BY <1>3
  <2>. DEFINE g == [n \in 0 .. k + 1 |-> IF n = k + 1 THEN f[k] + q[k + 1] ELSE f[n]]
  <2>2. g \in [0 .. k + 1 -> Int]
    BY <1>1
  <2>3. g[0] = 0 /\ \A n \in 1 .. k + 1 : g[n] = g[n - 1] + q[n]
    BY <1>1, <2>1
  <2>. HIDE DEF g
  <2>4. Part(k + 1)
    BY <2>2, <2>3
  <2>. HIDE DEF Part
  <2>. QED
    BY <1>1, <2>4
<1>4. Len(q) \in T
  <2>. HIDE DEF T
  <2>1. 0 .. Len(q) \subseteq T
    BY <1>1, <1>2, <1>3, AllBelow
  <2>. QED
    BY <1>1, <2>1
<1>5. PICK f \in [0 .. Len(q) -> Int] : f[0] = 0 /\ \A n \in 1 .. Len(q) : f[n] = f[n - 1] + q[n]
  BY <1>4
<1>6. SumsUp(f, q)
  BY <1>1, <1>5 DEF SumsUp
<1>. QED
  BY <1>6

LEMMA SumUnique ==
  ASSUME NEW q \in Seq(Int), NEW f, SumsUp(f, q), NEW p \in Seq(Int), NEW g, SumsUp(g, p),
         Len(q) <= Len(p), \A n \in 1 .. Len(q) : p[n] = q[n]
  PROVE  \A n \in 0 .. Len(q) : f[n] \in Int /\ g[n] = f[n]
<1>. DEFINE T == {n \in 0 .. Len(q) : f[n] \in Int /\ g[n] = f[n]}
<1>1. Len(q) \in Nat /\ Len(p) \in Nat /\ \A n \in 1 .. Len(q) : q[n] \in Int
  OBVIOUS
<1>2. /\ \A n \in 0 .. Len(q) : f[n] = IF n = 0 THEN 0 ELSE f[n - 1] + q[n]
      /\ \A n \in 0 .. Len(p) : g[n] = IF n = 0 THEN 0 ELSE g[n - 1] + p[n]
  BY DEF SumsUp
<1>3. 0 \in T
  BY <1>1, <1>2
<1>4. ASSUME NEW k \in 0 .. Len(q) - 1, k \in T
      PROVE  k + 1 \in T
  <2>1. k + 1 \in 0 .. Len(q) /\ k + 1 \in 0 .. Len(p) /\ k + 1 # 0 /\ (k + 1) - 1 = k
    BY <1>1
  <2>2. f[k + 1] = f[k] + q[k + 1] /\ g[k + 1] = g[k] + p[k + 1]
    BY <1>2, <2>1
  <2>3. p[k + 1] = q[k + 1] /\ q[k + 1] \in Int
    BY <1>1
  <2>. QED
    BY <1>4, <2>1, <2>2, <2>3
<1>5. 0 .. Len(q) \subseteq T
  <2>. HIDE DEF T
  <2>. QED
    BY <1>1, <1>3, <1>4, AllBelow
<1>. QED
  BY <1>5

-----------------------------------------------------------------------------
(* Recursion on numbers: the step is a function, G.                        *)

StepOn(G, N, R) == G \in [R \X (1 .. N) -> R]
Iterates(f, G, N, R, z) ==
  f \in [0 .. N -> R] /\ f[0] = z /\ \A n \in 1 .. N : f[n] = G[<<f[n - 1], n>>]

LEMMA RecursionExists ==
  ASSUME NEW N \in Nat, NEW R, NEW z \in R, NEW G, StepOn(G, N, R)
  PROVE  \E f : Iterates(f, G, N, R, z)
<1>. G \in [R \X (1 .. N) -> R]
  BY DEF StepOn
<1>. DEFINE Part(k) == \E f \in [0 .. k -> R] : f[0] = z /\ \A n \in 1 .. k : f[n] = G[<<f[n - 1], n>>]
            T == {k \in 0 .. N : Part(k)}
<1>1. 0 \in T
  <2>. DEFINE f == [k \in 0 .. 0 |-> z]
  <2>1. f \in [0 .. 0 -> R] /\ f[0] = z /\ \A n \in 1 .. 0 : f[n] = G[<<f[n - 1], n>>]
    OBVIOUS
  <2>. HIDE DEF f
  <2>2. Part(0)
    BY <2>1
  <2>. QED
    BY <2>2
<1>2. ASSUME NEW k \in 0 .. N - 1, k \in T
      PROVE  k + 1 \in T
  <2>1. PICK f \in [0 .. k -> R] : f[0] = z /\ \A n \in 1 .. k : f[n] = G[<<f[n - 1], n>>]
    BY <1>2
  <2>. DEFINE x == G[<<f[k], k + 1>>]
              g == [n \in 0 .. k + 1 |-> IF n = k + 1 THEN x ELSE f[n]]
  <2>2. x \in R
    <3>1. <<f[k], k + 1>> \in R \X (1 .. N)
      OBVIOUS
    <3>. QED
      BY <3>1
  <2>3. x = G[<<f[k], k + 1>>]
    OBVIOUS
  <2>. HIDE DEF x
  <2>4. g \in [0 .. k + 1 -> R]
    BY <2>2
  <2>5. g[0] = z /\ \A n \in 1 .. k : g[n] = f[n] /\ g[n - 1] = f[n - 1]
    BY <2>1
  <2>6. g[k + 1] = x /\ g[k] = f[k]
    OBVIOUS
  <2>. HIDE DEF g
  <2>7. ASSUME NEW n \in 1 .. k + 1 PROVE g[n] = G[<<g[n - 1], n>>]
    <3>1. CASE n = k + 1
      BY <3>1, <2>3, <2>6
    <3>2. CASE n # k + 1
      BY <3>2, <2>1, <2>5
    <3>. QED
      BY <3>1, <3>2
  <2>8. Part(k + 1)
    BY <2>4, <2>5, <2>7
  <2>. HIDE DEF Part
  <2>. QED
    BY <2>8
<1>3. Part(N)
  <2>. HIDE DEF Part
  <2>1. 0 .. N \subseteq T
    <3>. HIDE DEF T
    <3>. QED
      BY <1>1, <1>2, AllBelow
  <2>. QED
    BY <2>1
<1>. QED
  BY <1>3 DEF Iterates
=============================================================================
