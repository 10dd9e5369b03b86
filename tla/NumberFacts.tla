---------------------------- MODULE NumberFacts ----------------------------
(***************************************************************************)
(* Facts about natural numbers: remainders, for counters, ring indices and *)
(* probing that wrap around, the smallest number of a set, and totals.     *)
(***************************************************************************)
EXTENDS Totals, Integers, WellFoundedInduction, FiniteSetTheorems, TLAPS

(* A number is its quotient and remainder in one way only.                 *)
LEMMA RemainderUnique ==
    ASSUME NEW N \in Nat \ {0}, NEW q \in Int, NEW r \in 0 .. N - 1
    PROVE  (N * q + r) % N = r
OBVIOUS

(* Counting one more modulo N.                                             *)
LEMMA SuccRemainder ==
    ASSUME NEW N \in Nat \ {0}, NEW m \in Nat
    PROVE  (m + 1) % N = IF (m % N) + 1 = N THEN 0 ELSE (m % N) + 1
<1>. DEFINE q == m \div N
            r == m % N
<1>1. q \in Int /\ r \in 0 .. N - 1 /\ m = N * q + r
  OBVIOUS
<1>. HIDE DEF q, r
<1>2. CASE r + 1 = N
  <2>1. m + 1 = N * (q + 1) + 0
    BY <1>1, <1>2
  <2>2. (N * (q + 1) + 0) % N = 0
    BY <1>1, RemainderUnique
  <2>3. (m + 1) % N = 0
    BY <2>1, <2>2, Zenon
  <2>. QED
    BY <1>2, <2>3 DEF r
<1>3. CASE r + 1 # N
  <2>1. m + 1 = N * q + (r + 1) /\ r + 1 \in 0 .. N - 1
    BY <1>1, <1>3
  <2>2. (N * q + (r + 1)) % N = r + 1
    BY <1>1, <2>1, RemainderUnique
  <2>3. (m + 1) % N = r + 1
    BY <2>1, <2>2, Zenon
  <2>. QED
    BY <1>3, <2>3, Zenon DEF r
<1>. QED
  BY <1>2, <1>3

(* Numbers less than N apart have the same remainder only if they are the  *)
(* same.                                                                   *)
LEMMA CloseRemainders ==
    ASSUME NEW N \in Nat \ {0}, NEW a \in Nat, NEW b \in Nat,
           a <= b, b - a < N, a % N = b % N
    PROVE  a = b
<1>. DEFINE p == a \div N
            q == b \div N
            r == a % N
<1>1. /\ p \in Int /\ q \in Int /\ r \in 0 .. N - 1
      /\ a = N * p + r /\ b = N * q + r
  OBVIOUS
<1>. HIDE DEF p, q, r
<1>2. b - a = N * (q - p)
  BY <1>1
<1>3. q - p <= 0
  <2>. SUFFICES ASSUME q - p >= 1 PROVE FALSE
    BY <1>1
  <2>1. N * (q - p) >= N
    BY <1>1
  <2>. QED
    BY <1>2, <2>1
<1>4. q - p >= 0
  <2>. SUFFICES ASSUME p - q >= 1 PROVE FALSE
    BY <1>1
  <2>1. N * (p - q) >= N
    BY <1>1
  <2>2. a - b = N * (p - q)
    BY <1>1
  <2>. QED
    BY <2>1, <2>2
<1>. QED
  BY <1>1, <1>3, <1>4

(* A remainder counts on with its number.                                  *)
LEMMA NextRemainder ==
    ASSUME NEW N \in Nat \ {0}, NEW m \in Nat
    PROVE  /\ m % N \in 0 .. N - 1
           /\ ((m % N) + 1) % N = (m + 1) % N
<1>1. m % N \in 0 .. N - 1
  OBVIOUS
<1>2. CASE (m % N) + 1 = N
  <2>1. N % N = 0
    <3>1. (N * 1 + 0) % N = 0
      BY RemainderUnique
    <3>. QED
      BY <3>1
  <2>2. ((m % N) + 1) % N = 0
    BY <1>2, <2>1, Zenon
  <2>3. (m + 1) % N = 0
    BY <1>2, SuccRemainder
  <2>. QED
    BY <1>1, <2>2, <2>3
<1>3. CASE (m % N) + 1 # N
  <2>1. (N * 0 + ((m % N) + 1)) % N = (m % N) + 1
    BY <1>1, <1>3, RemainderUnique
  <2>2. N * 0 + ((m % N) + 1) = (m % N) + 1
    BY <1>1
  <2>3. ((m % N) + 1) % N = (m % N) + 1
    BY <2>1, <2>2, Zenon
  <2>. QED
    BY <1>1, <1>3, <2>3, SuccRemainder
<1>. QED
  BY <1>1, <1>2, <1>3

(* Going around from h by the distance to i reaches i.                     *)
LEMMA OffsetReaches ==
    ASSUME NEW N \in Nat \ {0}, NEW h \in 0 .. N - 1, NEW i \in 0 .. N - 1
    PROVE  /\ (i - h) % N \in 0 .. N - 1
           /\ (h + ((i - h) % N)) % N = i
<1>1. CASE i >= h
  <2>1. (N * 0 + (i - h)) % N = i - h
    BY <1>1, RemainderUnique
  <2>2. (N * 0 + i) % N = i
    BY RemainderUnique
  <2>3. N * 0 + (i - h) = i - h /\ N * 0 + i = i /\ h + (i - h) = i
    OBVIOUS
  <2>. QED
    BY <1>1, <2>1, <2>2, <2>3
<1>2. CASE i < h
  <2>1. (N * (-1) + (i - h + N)) % N = i - h + N
    BY <1>2, RemainderUnique
  <2>2. (N * 1 + i) % N = i
    BY RemainderUnique
  <2>3. N * (-1) + (i - h + N) = i - h /\ N * 1 + i = h + (i - h + N)
    OBVIOUS
  <2>4. (i - h) % N = i - h + N
    BY <2>1, <2>3
  <2>5. (h + (i - h + N)) % N = i
    BY <2>2, <2>3
  <2>. QED
    BY <1>2, <2>4, <2>5
<1>. QED
  BY <1>1, <1>2

(* And only by that distance.                                              *)
LEMMA OffsetIsUnique ==
    ASSUME NEW N \in Nat \ {0}, NEW h \in 0 .. N - 1, NEW k \in 0 .. N - 1
    PROVE  /\ (h + k) % N \in 0 .. N - 1
           /\ (((h + k) % N) - h) % N = k
<1>1. CASE h + k < N
  <2>1. (N * 0 + (h + k)) % N = h + k
    BY <1>1, RemainderUnique
  <2>2. (N * 0 + k) % N = k
    BY RemainderUnique
  <2>3. N * 0 + (h + k) = h + k /\ N * 0 + k = k /\ (h + k) - h = k
    OBVIOUS
  <2>. QED
    BY <1>1, <2>1, <2>2, <2>3
<1>2. CASE h + k >= N
  <2>1. (N * 1 + (h + k - N)) % N = h + k - N
    BY <1>2, RemainderUnique
  <2>2. (N * (-1) + k) % N = k
    BY RemainderUnique
  <2>3. N * 1 + (h + k - N) = h + k /\ N * (-1) + k = (h + k - N) - h
    OBVIOUS
  <2>4. (h + k) % N = h + k - N
    BY <2>1, <2>3
  <2>5. ((h + k - N) - h) % N = k
    BY <2>2, <2>3
  <2>. QED
    BY <1>2, <2>4, <2>5
<1>. QED
  BY <1>1, <1>2

Smaller == {p \in Nat \X Nat : p[1] < p[2]}

(* A set of natural numbers that is not empty has a smallest one.          *)
LEMMA SmallestExists ==
    ASSUME NEW S \in SUBSET Nat, S # {}
    PROVE  \E m \in S : \A n \in S : m <= n
<1>1. IsWellFoundedOn(Smaller, Nat)
  BY NatLessThanWellFounded DEF OpToRel, Smaller
<1>2. PICK m \in S : \A n \in S : ~(<<n, m>> \in Smaller)
  BY <1>1, WFMin
<1>3. ASSUME NEW n \in S PROVE m <= n
  <2>1. n \in Nat /\ m \in Nat
    BY <1>2
  <2>2. n < m => <<n, m>> \in Smaller
    BY <2>1 DEF Smaller
  <2>. QED
    BY <1>2, <2>1, <2>2
<1>. QED
  BY <1>3

(* A unit of f belongs to one of f's arguments.                            *)
LEMMA UnitsOf ==
    ASSUME NEW D, NEW f \in [D -> Nat], NEW u
    PROVE  u \in Units(f) <=> \E t \in D : \E i \in 1 .. f[t] : u = <<t, i>>
BY DEF Units

LEMMA TotalFinite ==
    ASSUME NEW D, IsFiniteSet(D), NEW f \in [D -> Nat]
    PROVE  IsFiniteSet(Units(f)) /\ Total(f) \in Nat
<1>. DEFINE P == [t \in D |-> {t} \X (1 .. f[t])]
            S == {P[t] : t \in D}
<1>1. P \in Surjection(D, S)
  BY DEF Surjection
<1>2. IsFiniteSet(S)
  BY <1>1, FS_Surjection
<1>3. ASSUME NEW T \in S PROVE IsFiniteSet(T)
  <2>1. PICK t \in D : T = {t} \X (1 .. f[t])
    BY DEF S
  <2>2. f[t] \in Int /\ 1 \in Int
    OBVIOUS
  <2>3. IsFiniteSet(1 .. f[t]) /\ IsFiniteSet({t})
    BY <2>2, FS_Interval, FS_Singleton
  <2>4. IsFiniteSet({t} \X (1 .. f[t]))
    BY <2>3, FS_Product
  <2>. QED
    BY <2>1, <2>4
<1>4. IsFiniteSet(UNION S)
  BY <1>2, <1>3, FS_UNION
<1>5. UNION S = Units(f)
  BY DEF Units
<1>. QED
  BY <1>4, <1>5, FS_CardinalityType DEF Total

(* One number grows by one, and so does the total.                         *)
LEMMA TotalGrows ==
    ASSUME NEW D, IsFiniteSet(D), NEW f \in [D -> Nat], NEW g \in [D -> Nat], NEW t \in D,
           g[t] = f[t] + 1, \A x \in D \ {t} : g[x] = f[x]
    PROVE  Total(g) = Total(f) + 1
<1>. DEFINE u == <<t, f[t] + 1>>
<1>1. u \notin Units(f)
  <2>. SUFFICES ASSUME u \in Units(f) PROVE FALSE
    OBVIOUS
  <2>1. PICK x \in D : \E i \in 1 .. f[x] : u = <<x, i>>
    BY UnitsOf
  <2>2. PICK i \in 1 .. f[x] : u = <<x, i>>
    BY <2>1
  <2>. QED
    BY <2>2
<1>2. ASSUME NEW v \in Units(g) PROVE v \in Units(f) \cup {u}
  <2>1. PICK x \in D : \E i \in 1 .. g[x] : v = <<x, i>>
    BY UnitsOf
  <2>2. PICK i \in 1 .. g[x] : v = <<x, i>>
    BY <2>1
  <2>3. i \in 1 .. f[x] \/ (x = t /\ i = f[t] + 1)
    BY <2>1, <2>2
  <2>. QED
    BY <2>1, <2>2, <2>3, UnitsOf
<1>3. ASSUME NEW v \in Units(f) PROVE v \in Units(g)
  <2>1. PICK x \in D : \E i \in 1 .. f[x] : v = <<x, i>>
    BY UnitsOf
  <2>2. PICK i \in 1 .. f[x] : v = <<x, i>>
    BY <2>1
  <2>3. i \in 1 .. g[x]
    BY <2>1, <2>2
  <2>. QED
    BY <2>1, <2>2, <2>3, UnitsOf
<1>4. u \in Units(g)
  <2>1. f[t] + 1 \in 1 .. g[t]
    OBVIOUS
  <2>. QED
    BY <2>1, UnitsOf
<1>5. Units(g) = Units(f) \cup {u}
  BY <1>2, <1>3, <1>4
<1>6. Cardinality(Units(f) \cup {u}) = Cardinality(Units(f)) + 1
  BY <1>1, TotalFinite, FS_AddElement
<1>. QED
  BY <1>5, <1>6 DEF Total

(* One number shrinks by one, and so does the total.                       *)
LEMMA TotalShrinks ==
    ASSUME NEW D, IsFiniteSet(D), NEW f \in [D -> Nat], NEW g \in [D -> Nat], NEW t \in D,
           g[t] + 1 = f[t], \A x \in D \ {t} : g[x] = f[x]
    PROVE  Total(g) = Total(f) - 1
<1>1. Total(f) = Total(g) + 1
  BY TotalGrows
<1>. QED
  BY <1>1, TotalFinite

(* Nothing adds up to nothing, and no number exceeds the total.            *)
LEMMA TotalOfNothing ==
    ASSUME NEW D, NEW f \in [D -> Nat], \A t \in D : f[t] = 0
    PROVE  Total(f) = 0
<1>1. Units(f) = {}
  BY UnitsOf
<1>. QED
  BY <1>1, FS_EmptySet DEF Total

LEMMA TotalIsMost ==
    ASSUME NEW D, IsFiniteSet(D), NEW f \in [D -> Nat], NEW t \in D
    PROVE  f[t] <= Total(f)
<1>. DEFINE N == 1 .. f[t]
            h == [i \in N |-> <<t, i>>]
<1>1. \A i \in N : <<t, i>> \in Units(f)
  BY UnitsOf
<1>2. h \in Injection(N, Units(f))
  <2>1. h \in [N -> Units(f)]
    BY <1>1
  <2>2. \A i \in N, j \in N : h[i] = h[j] => i = j
    OBVIOUS
  <2>. QED
    BY <2>1, <2>2 DEF Injection, IsInjective
<1>3. IsFiniteSet(Units(f))
  BY TotalFinite
<1>4. Cardinality(N) <= Cardinality(Units(f))
  BY <1>2, <1>3, FS_Injection
<1>5. f[t] \in Nat /\ 1 \in Int /\ Cardinality(N) = IF 1 > f[t] THEN 0 ELSE f[t] - 1 + 1
  BY FS_Interval
<1>. QED
  BY <1>4, <1>5, TotalFinite DEF Total

(* No number exceeds K, so the total does not exceed K for each argument.  *)
LEMMA TotalWithin ==
    ASSUME NEW D, IsFiniteSet(D), NEW f \in [D -> Nat], NEW K \in Nat, \A t \in D : f[t] <= K
    PROVE  Total(f) <= Cardinality(D) * K
<1>1. IsFiniteSet(1 .. K) /\ Cardinality(1 .. K) = K
  <2>1. 1 \in Int /\ K \in Int /\ K - 1 + 1 = K /\ (1 > K => K = 0)
    OBVIOUS
  <2>. QED
    BY <2>1, FS_Interval
<1>2. IsFiniteSet(D \X (1 .. K)) /\ Cardinality(D \X (1 .. K)) = Cardinality(D) * K
  BY <1>1, FS_Product
<1>3. Units(f) \subseteq D \X (1 .. K)
  <2>. SUFFICES ASSUME NEW u \in Units(f) PROVE u \in D \X (1 .. K)
    OBVIOUS
  <2>1. PICK t \in D : \E i \in 1 .. f[t] : u = <<t, i>>
    BY UnitsOf
  <2>2. PICK i \in 1 .. f[t] : u = <<t, i>>
    BY <2>1
  <2>3. i \in 1 .. K
    BY <2>1, <2>2
  <2>. QED
    BY <2>1, <2>2, <2>3
<1>. QED
  BY <1>2, <1>3, FS_Subset DEF Total

(* How many of D are in one of the places Q: one more, one fewer or as     *)
(* many as before when one of them moves.                                  *)
Among(f, D, Q) == {t \in D : f[t] \in Q}

LEMMA AmongFacts ==
    ASSUME NEW D, IsFiniteSet(D), NEW f, NEW Q
    PROVE  /\ IsFiniteSet(Among(f, D, Q)) /\ Cardinality(Among(f, D, Q)) \in Nat
           /\ Cardinality(Among(f, D, Q)) <= Cardinality(D)
<1>1. Among(f, D, Q) \in SUBSET D
  BY DEF Among
<1>2. IsFiniteSet(Among(f, D, Q)) /\ Cardinality(Among(f, D, Q)) <= Cardinality(D)
  BY <1>1, FS_Subset
<1>. QED
  BY <1>2, FS_CardinalityType

LEMMA JoinsAmong ==
    ASSUME NEW D, IsFiniteSet(D), NEW f, NEW g, NEW Q, NEW t \in D,
           f[t] \notin Q, g[t] \in Q, \A x \in D \ {t} : g[x] = f[x]
    PROVE  Cardinality(Among(g, D, Q)) = Cardinality(Among(f, D, Q)) + 1
<1>1. Among(g, D, Q) = Among(f, D, Q) \cup {t} /\ t \notin Among(f, D, Q)
  BY DEF Among
<1>. QED
  BY <1>1, AmongFacts, FS_AddElement

LEMMA LeavesAmong ==
    ASSUME NEW D, IsFiniteSet(D), NEW f, NEW g, NEW Q, NEW t \in D,
           f[t] \in Q, g[t] \notin Q, \A x \in D \ {t} : g[x] = f[x]
    PROVE  Cardinality(Among(g, D, Q)) = Cardinality(Among(f, D, Q)) - 1
<1>1. Among(g, D, Q) = Among(f, D, Q) \ {t} /\ t \in Among(f, D, Q)
  BY DEF Among
<1>. QED
  BY <1>1, AmongFacts, FS_RemoveElement
=============================================================================
