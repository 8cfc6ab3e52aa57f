------------------------ MODULE TimelockPuzzleProofs ------------------------
(***************************************************************************)
(* The proof that a time-lock puzzle opens to what it was made with, for    *)
(* every pair of odd primes, every number of steps and every size of bytes  *)
(* and keys.                                                               *)
(*                                                                         *)
(* The solver squares: it gets to 2^(2^t) modulo N.  Who makes the puzzle    *)
(* reduces the exponent modulo phi first; that both come to the same is the  *)
(* theorem of Euler, here from Fermat's for each prime.  The rest is that    *)
(* Xor undoes itself, and which keys pass through big.Int unchanged.         *)
(*                                                                         *)
(* Powers, products and conversions are recursive functions: that there are  *)
(* functions with these equations is shown first, and inductions are about   *)
(* sets, by the least number that is not an element.                       *)
(***************************************************************************)
EXTENDS TimelockPuzzle, NaturalsInduction, WellFoundedInduction, SequenceTheorems, TLAPS

-----------------------------------------------------------------------------
(* Induction on the naturals, for a set instead of a predicate: otherwise    *)
(* there is a least number outside of it.                                    *)
LEMMA NatInductionSet ==
    ASSUME NEW P, 0 \in P, \A n \in Nat : n \in P => n + 1 \in P
    PROVE  Nat \subseteq P
<1> DEFINE D == Nat \ P
           R == {ss \in Nat \X Nat : ss[1] < ss[2]}
<1> SUFFICES ASSUME D # {} PROVE FALSE
  OBVIOUS
<1>1. IsWellFoundedOn(R, Nat)
  BY NatLessThanWellFounded DEF OpToRel
<1>2. PICK m \in D : \A y \in D : ~ (<<y, m>> \in R)
  <2> D \subseteq Nat
    OBVIOUS
  <2> HIDE DEF R, D
  <2> QED BY <1>1, WFMin
<1>3. m \in Nat \ {0}
  OBVIOUS
<1>4. m - 1 \in Nat /\ <<m - 1, m>> \in R
  BY <1>3
<1>5. m - 1 \in P
  BY <1>2, <1>4
<1>6. (m - 1) + 1 \in P
  BY <1>4, <1>5
<1> QED BY <1>3, <1>6

(* A set of naturals that has an element has a least one.                    *)
LEMMA LeastElement ==
    ASSUME NEW D \in SUBSET Nat, D # {}
    PROVE  \E m \in D : \A y \in D : m <= y
<1> DEFINE R == {ss \in Nat \X Nat : ss[1] < ss[2]}
<1>1. IsWellFoundedOn(R, Nat)
  BY NatLessThanWellFounded DEF OpToRel
<1>2. PICK m \in D : \A y \in D : ~ (<<y, m>> \in R)
  <2> HIDE DEF R
  <2> QED BY <1>1, WFMin
<1>3. ASSUME NEW y \in D PROVE m <= y
  <2>1. ~ (<<y, m>> \in R)
    BY <1>2
  <2>2. ~ (y < m)
    BY <2>1
  <2> QED BY <2>2
<1> QED BY <1>3

(* Recursion that goes from an argument z to prev[z], whose measure is less,   *)
(* until it reaches one for which the value is given, defines a function.      *)
Satisfies(g, D, V, stop, prev, c, h) ==
    /\ g \in [D -> V]
    /\ \A z \in D : g[z] = IF z \in stop THEN c ELSE h[<<z, g[prev[z]]>>]

LEMMA RecursionExists ==
    ASSUME NEW D, NEW V, NEW mu \in [D -> Nat], NEW stop \in SUBSET D, NEW prev \in [D \ stop -> D],
           NEW c \in V, NEW h \in [D \X V -> V],
           \A z \in D \ stop : mu[prev[z]] < mu[z]
    PROVE  \E g : Satisfies(g, D, V, stop, prev, c, h)
<1> DEFINE Holds(g, z) == g[z] = IF z \in stop THEN c ELSE h[<<z, g[prev[z]]>>]
           Upto(g, n) == g \in [D -> V] /\ \A z \in D : mu[z] < n => Holds(g, z)
           Q == {n \in Nat : \E g : Upto(g, n)}
           G(n) == CHOOSE g : Upto(g, n)
<1>1. \A n \in Nat : \E g : Upto(g, n)
  <2>1. 0 \in Q
    <3>1. Upto([z \in D |-> c], 0)
      OBVIOUS
    <3> HIDE DEF Upto
    <3> QED BY <3>1
  <2>2. ASSUME NEW n \in Nat, n \in Q PROVE n + 1 \in Q
    <3>1. PICK g : Upto(g, n)
      BY <2>2
    <3> DEFINE k == [z \in D |-> IF z \in stop THEN c ELSE h[<<z, g[prev[z]]>>]]
    <3>2. k \in [D -> V]
      BY <3>1
    <3>3. ASSUME NEW z \in D, mu[z] < n + 1 PROVE Holds(k, z)
      <4>1. CASE z \in stop
        BY <4>1
      <4>2. CASE z \notin stop
        <5>1. prev[z] \in D /\ mu[prev[z]] < n
          BY <3>3, <4>2
        <5>2. Holds(g, prev[z])
          BY <3>1, <5>1
        <5>3. k[prev[z]] = g[prev[z]]
          BY <5>1, <5>2
        <5> QED BY <4>2, <5>3
      <4> QED BY <4>1, <4>2
    <3>4. Upto(k, n + 1)
      BY <3>2, <3>3
    <3> HIDE DEF k, Upto
    <3> QED BY <3>4
  <2> HIDE DEF Q
  <2>3. Nat \subseteq Q
    BY <2>1, <2>2, NatInductionSet
  <2> QED BY <2>3 DEF Q
<1>2. \A n \in Nat : Upto(G(n), n)
  <2> HIDE DEF Upto
  <2> QED BY <1>1
<1> DEFINE Agree == {k \in Nat : \A z \in D : mu[z] < k =>
                        \A m, n \in Nat : mu[z] < m /\ mu[z] < n => G(m)[z] = G(n)[z]}
<1> HIDE DEF G
<1>3. Nat \subseteq Agree
  <2>1. 0 \in Agree
    OBVIOUS
  <2>2. ASSUME NEW k \in Nat, k \in Agree PROVE k + 1 \in Agree
    <3>1. ASSUME NEW z \in D, mu[z] < k + 1, NEW m \in Nat, NEW n \in Nat, mu[z] < m, mu[z] < n
          PROVE  G(m)[z] = G(n)[z]
      <4>1. Holds(G(m), z) /\ Holds(G(n), z)
        BY <1>2, <3>1
      <4>2. CASE z \in stop
        BY <4>1, <4>2
      <4>3. CASE z \notin stop
        <5>1. prev[z] \in D /\ mu[prev[z]] < k /\ mu[prev[z]] < m /\ mu[prev[z]] < n
          BY <3>1, <4>3
        <5>2. G(m)[prev[z]] = G(n)[prev[z]]
          BY <2>2, <5>1
        <5> QED BY <4>1, <4>3, <5>2
      <4> QED BY <4>2, <4>3
    <3> QED BY <3>1
  <2> HIDE DEF Agree
  <2> QED BY <2>1, <2>2, NatInductionSet
<1>4. ASSUME NEW z \in D, NEW m \in Nat, NEW n \in Nat, mu[z] < m, mu[z] < n
      PROVE  G(m)[z] = G(n)[z]
  <2>1. mu[z] + 1 \in Agree /\ mu[z] < mu[z] + 1
    BY <1>3
  <2> QED BY <1>4, <2>1
<1> DEFINE k == [z \in D |-> G(mu[z] + 1)[z]]
<1>5. k \in [D -> V]
  BY <1>2
<1>6. ASSUME NEW z \in D PROVE Holds(k, z)
  <2>1. mu[z] + 1 \in Nat /\ mu[z] < mu[z] + 1
    OBVIOUS
  <2>2. Holds(G(mu[z] + 1), z)
    BY <1>2, <2>1
  <2>3. CASE z \in stop
    BY <2>2, <2>3
  <2>4. CASE z \notin stop
    <3>1. prev[z] \in D /\ mu[prev[z]] + 1 \in Nat /\ mu[prev[z]] < mu[prev[z]] + 1 /\ mu[prev[z]] < mu[z] + 1
      BY <2>4
    <3>2. k[prev[z]] = G(mu[z] + 1)[prev[z]]
      BY <1>4, <2>1, <3>1
    <3> QED BY <2>2, <2>4, <3>2
  <2> QED BY <2>3, <2>4
<1>7. Satisfies(k, D, V, stop, prev, c, h)
  BY <1>5, <1>6 DEF Satisfies
<1> HIDE DEF k
<1> QED BY <1>7

-----------------------------------------------------------------------------
(* Products, quotients and remainders.                                       *)
LEMMA Ring ==
    \A a, b, c \in Int : /\ a * b \in Int /\ a * b = b * a /\ (a * b) * c = a * (b * c)
                         /\ a * (b + c) = a * b + a * c /\ a * (b - c) = a * b - a * c
                         /\ a * 1 = a /\ a * 0 = 0
OBVIOUS

LEMMA NatProduct ==
    \A a, b, c \in Nat : a * b \in Nat /\ (b <= c => a * b <= a * c)
OBVIOUS

LEMMA DivMod ==
    ASSUME NEW a \in Nat, NEW b \in Nat \ {0}
    PROVE  /\ a \div b \in Nat /\ a % b \in Nat /\ a % b < b
           /\ a = b * (a \div b) + (a % b)
OBVIOUS

LEMMA DivModUnique ==
    ASSUME NEW a \in Nat, NEW b \in Nat \ {0}, NEW q \in Nat, NEW r \in Nat, r < b, a = b * q + r
    PROVE  a \div b = q /\ a % b = r
<1>1. PICK q1 \in Nat, r1 \in Nat : q1 = a \div b /\ r1 = a % b /\ r1 < b /\ a = b * q1 + r1
  BY DivMod
<1>2. CASE q1 >= q + 1
  <2>1. b * (q + 1) <= b * q1
    BY <1>2, NatProduct
  <2>2. b * (q + 1) = b * q + b
    BY Ring
  <2> QED BY <1>1, <2>1, <2>2, NatProduct
<1>3. CASE q >= q1 + 1
  <2>1. b * (q1 + 1) <= b * q
    BY <1>3, NatProduct
  <2>2. b * (q1 + 1) = b * q1 + b
    BY Ring
  <2> QED BY <1>1, <2>1, <2>2, NatProduct
<1>4. CASE q = q1
  BY <1>1, <1>4, NatProduct
<1> QED BY <1>2, <1>3, <1>4

Divides(d, n) == \E k \in Int : n = d * k

(* What a number divides, with its sums, differences and multiples.           *)
LEMMA DividesSum ==
    ASSUME NEW d \in Int, NEW m \in Int, NEW n \in Int, Divides(d, m), Divides(d, n)
    PROVE  Divides(d, m + n) /\ Divides(d, m - n)
<1>1. PICK i \in Int : m = d * i
  BY DEF Divides
<1>2. PICK j \in Int : n = d * j
  BY DEF Divides
<1>3. m + n = d * (i + j) /\ m - n = d * (i - j)
  BY <1>1, <1>2, Ring
<1>4. i + j \in Int /\ i - j \in Int
  OBVIOUS
<1> QED BY <1>3, <1>4 DEF Divides

LEMMA DividesMultiple ==
    ASSUME NEW d \in Int, NEW m \in Int, NEW n \in Int, Divides(d, m)
    PROVE  Divides(d, m * n) /\ Divides(d, n * m)
<1>1. PICK i \in Int : m = d * i
  BY DEF Divides
<1>2. m * n = d * (i * n) /\ n * m = m * n /\ i * n \in Int
  BY <1>1, Ring
<1> QED BY <1>2 DEF Divides

(* A positive number has no divisor that is greater.                         *)
LEMMA DividesLess ==
    ASSUME NEW d \in Nat, NEW n \in Nat, Divides(d, n), n < d
    PROVE  n = 0
<1>1. PICK k \in Int : n = d * k
  BY DEF Divides
<1>2. CASE k <= 0
  <2>1. d * (0 - k) = d * 0 - d * k /\ d * (0 - k) \in Nat /\ d * 0 = 0
    BY <1>2, Ring, NatProduct
  <2> QED BY <1>1, <2>1
<1>3. CASE k >= 1
  <2>1. d * 1 <= d * k /\ d * 1 = d
    BY <1>3, Ring, NatProduct
  <2> QED BY <1>1, <2>1
<1> QED BY <1>2, <1>3

(* Numbers with the same remainder are those whose difference is a multiple.   *)
LEMMA SameRemainder ==
    ASSUME NEW d \in Nat \ {0}, NEW m \in Nat, NEW n \in Nat
    PROVE  m % d = n % d <=> Divides(d, m - n)
<1>1. PICK i \in Nat, r \in Nat : i = m \div d /\ r = m % d /\ r < d /\ m = d * i + r
  BY DivMod
<1>2. PICK j \in Nat, s \in Nat : j = n \div d /\ s = n % d /\ s < d /\ n = d * j + s
  BY DivMod
<1>3. d * (i - j) = d * i - d * j /\ i - j \in Int /\ d * i \in Nat /\ d * j \in Nat
  BY Ring, NatProduct
<1>4. ASSUME r = s PROVE Divides(d, m - n)
  <2>1. m - n = d * (i - j)
    BY <1>1, <1>2, <1>3, <1>4
  <2> QED BY <1>3, <2>1 DEF Divides
<1>5. ASSUME Divides(d, m - n) PROVE r = s
  <2>1. Divides(d, d * (i - j))
    BY <1>3 DEF Divides
  <2>2. (m - n) - d * (i - j) = r - s /\ m - n \in Int /\ d * (i - j) \in Int
    BY <1>1, <1>2, <1>3
  <2>3. Divides(d, r - s)
    <3> DEFINE a == m - n
               b == d * (i - j)
    <3>1. a \in Int /\ b \in Int /\ Divides(d, a) /\ Divides(d, b) /\ a - b = r - s
      BY <1>5, <2>1, <2>2
    <3> HIDE DEF a, b
    <3>2. Divides(d, a - b)
      BY <3>1, DividesSum
    <3> QED BY <3>1, <3>2
  <2>4. CASE r >= s
    <3>1. r - s \in Nat /\ r - s < d
      BY <1>1, <1>2, <2>4
    <3> QED BY <2>3, <3>1, DividesLess
  <2>5. CASE s > r
    <3>1. s - r \in Nat /\ s - r < d
      BY <1>1, <1>2, <2>5
    <3>2. PICK k \in Int : r - s = d * k
      BY <2>3 DEF Divides
    <3>3. s - r = d * (0 - k) /\ 0 - k \in Int
      BY <3>2, Ring
    <3>4. Divides(d, s - r)
      BY <3>3 DEF Divides
    <3> QED BY <3>1, <3>4, <2>5, DividesLess
  <2> QED BY <2>4, <2>5
<1> QED BY <1>1, <1>2, <1>4, <1>5

-----------------------------------------------------------------------------
(* A prime that divides a product divides a factor.                          *)
Prime(p) == p \in Nat \ {0, 1} /\ \A d \in 2..(p - 1) : p % d # 0

(* A prime has no divisors but 1 and itself.                                   *)
LEMMA PrimeDivisor ==
    ASSUME NEW p, Prime(p), NEW d \in Nat, Divides(d, p)
    PROVE  d = 1 \/ d = p
<1>1. p \in Nat /\ p > 1
  BY DEF Prime
<1>2. PICK k \in Int : p = d * k
  BY DEF Divides
<1>3. d # 0
  BY <1>1, <1>2, Ring
<1>4. k \in Nat
  <2>1. SUFFICES ASSUME k < 0 PROVE FALSE
    OBVIOUS
  <2>2. d * (0 - k) = d * 0 - d * k /\ d * (0 - k) \in Nat /\ d * 0 = 0
    BY <2>1, Ring, NatProduct
  <2> QED BY <1>1, <1>2, <2>2
<1>5. p % d = 0
  <2>1. p = d * k + 0 /\ 0 < d
    BY <1>1, <1>2, <1>3
  <2> QED BY <1>1, <1>3, <1>4, <2>1, DivModUnique
<1>6. d <= p
  <2>1. CASE k = 0
    BY <1>1, <1>2, <2>1, Ring
  <2>2. CASE k >= 1
    <3>1. d * 1 <= d * k /\ d * 1 = d
      BY <1>4, <2>2, Ring, NatProduct
    <3> QED BY <1>2, <3>1
  <2> QED BY <1>4, <2>1, <2>2
<1>7. CASE d \in 2..(p - 1)
  BY <1>5, <1>7 DEF Prime
<1> QED BY <1>1, <1>3, <1>6, <1>7

(* The least positive m such that p divides m * b divides all of them, p and   *)
(* a among them; it is 1 if b is a multiple of p, and p otherwise.             *)
LEMMA PrimeFactor ==
    ASSUME NEW p, Prime(p), NEW a \in Nat, NEW b \in Nat, Divides(p, a * b)
    PROVE  Divides(p, a) \/ Divides(p, b)
<1> DEFINE M == {m \in Nat \ {0} : Divides(p, m * b)}
<1>0. p \in Nat /\ p > 1
  BY DEF Prime
<1>1. p \in M
  <2>1. Divides(p, p * b)
    BY <1>0 DEF Divides
  <2> QED BY <1>0, <2>1
<1>2. PICK m \in M : \A n \in M : m <= n
  <2>1. M \in SUBSET Nat /\ M # {}
    BY <1>1
  <2> HIDE DEF M
  <2> QED BY <2>1, LeastElement
<1>3. ASSUME NEW n \in Nat, Divides(p, n * b) PROVE Divides(m, n)
  <2>1. m \in Nat \ {0} /\ Divides(p, m * b)
    BY <1>2
  <2>2. PICK q \in Nat, r \in Nat : r < m /\ n = m * q + r
    BY <2>1, DivMod
  <2>3. r * b = n * b - (m * b) * q
    <3>1. n * b = b * (m * q + r)
      BY <2>2, Ring
    <3>2. b * (m * q + r) = b * (m * q) + b * r /\ b * (m * q) = (b * m) * q /\ b * m = m * b
          /\ b * r = r * b
      BY <2>1, <2>2, Ring
    <3>3. (m * b) * q \in Int /\ r * b \in Int
      BY <2>1, <2>2, Ring
    <3> QED BY <3>1, <3>2, <3>3
  <2>4. Divides(p, r * b)
    <3> DEFINE u == n * b
               w == m * b
               v == w * q
    <3>1. u \in Int /\ w \in Int /\ Divides(p, u) /\ Divides(p, w) /\ p \in Int /\ q \in Int
      BY <1>0, <1>3, <2>1, <2>2, Ring
    <3>2. r * b = u - v
      BY <2>3
    <3> HIDE DEF u, w
    <3>3. v \in Int /\ Divides(p, v)
      BY <3>1, Ring, DividesMultiple
    <3> HIDE DEF v
    <3>4. Divides(p, u - v)
      BY <3>1, <3>3, DividesSum
    <3> QED BY <3>2, <3>4
  <2>5. r = 0
    <3>1. SUFFICES ASSUME r # 0 PROVE FALSE
      OBVIOUS
    <3>2. r \in M
      BY <2>4, <3>1
    <3> QED BY <1>2, <2>1, <2>2, <3>2
  <2>6. n = m * q /\ q \in Int
    BY <2>1, <2>2, <2>5, NatProduct
  <2> QED BY <2>6 DEF Divides
<1>4. Divides(m, p) /\ Divides(m, a) /\ m \in Nat
  BY <1>0, <1>1, <1>2, <1>3
<1>5. CASE m = 1
  <2>1. Divides(p, 1 * b) /\ 1 * b = b
    BY <1>2, <1>5, Ring
  <2> QED BY <2>1
<1>6. CASE m = p
  BY <1>4, <1>6
<1> HIDE DEF M
<1> QED BY <1>4, <1>5, <1>6, PrimeDivisor

-----------------------------------------------------------------------------
(* Powers of two and three products: of the first numbers, of the first even   *)
(* numbers and of the first odd ones.                                        *)
Pow[n \in Nat] == IF n = 0 THEN 1 ELSE 2 * Pow[n - 1]
Fac[n \in Nat] == IF n = 0 THEN 1 ELSE n * Fac[n - 1]
Evens[n \in Nat] == IF n = 0 THEN 1 ELSE (2 * n) * Evens[n - 1]
Odds[n \in Nat] == IF n = 0 THEN 1 ELSE (2 * n - 1) * Odds[n - 1]

(* All of them are such products; each is the function that its equation      *)
(* describes.                                                                *)
Product(f) == CHOOSE g : g = [n \in Nat |-> IF n = 0 THEN 1 ELSE f[n] * g[n - 1]]

(* There is such a function, and it has the values that it should.           *)
LEMMA ProductExists ==
    ASSUME NEW f \in [Nat -> Int]
    PROVE  \E g \in [Nat -> Int] : g = [n \in Nat |-> IF n = 0 THEN 1 ELSE f[n] * g[n - 1]]
<1> DEFINE mu == [n \in Nat |-> n]
           prev == [n \in Nat \ {0} |-> n - 1]
           h == [z \in Nat \X Int |-> f[z[1]] * z[2]]
<1>1. h \in [Nat \X Int -> Int] /\ \A n \in Nat, m \in Int : h[<<n, m>>] = f[n] * m
  BY Ring
<1>2. mu \in [Nat -> Nat] /\ prev \in [Nat \ {0} -> Nat] /\ \A n \in Nat \ {0} : mu[prev[n]] < mu[n]
  OBVIOUS
<1>3. \A n \in Nat \ {0} : prev[n] = n - 1
  OBVIOUS
<1> HIDE DEF mu, prev, h
<1>4. PICK g : Satisfies(g, Nat, Int, {0}, prev, 1, h)
  <2>1. {0} \in SUBSET Nat /\ 1 \in Int
    OBVIOUS
  <2>2. \E g : Satisfies(g, Nat, Int, {0}, prev, 1, h)
    BY <1>1, <1>2, <2>1, RecursionExists
  <2> QED BY <2>2
<1>5. g \in [Nat -> Int]
  BY <1>4 DEF Satisfies
<1>6. ASSUME NEW n \in Nat PROVE g[n] = IF n = 0 THEN 1 ELSE f[n] * g[n - 1]
  <2>1. CASE n = 0
    BY <1>4, <2>1 DEF Satisfies
  <2>2. CASE n # 0
    <3>1. n \in Nat \ {0} /\ n - 1 \in Nat
      BY <2>2
    <3>2. g[n] = h[<<n, g[n - 1]>>]
      BY <1>3, <1>4, <3>1 DEF Satisfies
    <3> QED BY <1>1, <1>5, <3>1, <3>2
  <2> QED BY <2>1, <2>2
<1>7. g = [n \in Nat |-> IF n = 0 THEN 1 ELSE f[n] * g[n - 1]]
  BY <1>5, <1>6
<1> QED BY <1>5, <1>7

LEMMA ProductFacts ==
    ASSUME NEW f \in [Nat -> Int], \A n \in Nat : f[n + 1] \in Nat
    PROVE  /\ Product(f) \in [Nat -> Nat] /\ Product(f)[0] = 1
           /\ \A n \in Nat : Product(f)[n + 1] = f[n + 1] * Product(f)[n]
<1> DEFINE g == Product(f)
<1>1. g = [n \in Nat |-> IF n = 0 THEN 1 ELSE f[n] * g[n - 1]]
  BY ProductExists DEF Product
<1> HIDE DEF g
<1>2. g[0] = 1
  BY <1>1
<1>3. ASSUME NEW n \in Nat PROVE g[n + 1] = f[n + 1] * g[n]
  <2>1. n + 1 \in Nat /\ n + 1 # 0 /\ (n + 1) - 1 = n
    OBVIOUS
  <2> QED BY <1>1, <2>1
<1> DEFINE Q == {n \in Nat : g[n] \in Nat}
<1>4. Nat \subseteq Q
  <2>1. 0 \in Q
    BY <1>2
  <2>2. \A n \in Nat : n \in Q => n + 1 \in Q
    BY <1>3, NatProduct
  <2> HIDE DEF Q
  <2> QED BY <2>1, <2>2, NatInductionSet
<1>5. g \in [Nat -> Nat]
  BY <1>1, <1>4
<1> QED BY <1>2, <1>3, <1>5 DEF g

LEMMA PowFacts ==
    /\ Pow \in [Nat -> Nat] /\ Pow[0] = 1
    /\ \A n \in Nat : Pow[n + 1] = 2 * Pow[n]
<1> DEFINE f == [n \in Nat |-> 2]
<1>1. Pow = Product(f)
  BY DEF Pow, Product
<1>2. f \in [Nat -> Int] /\ \A n \in Nat : f[n + 1] = 2 /\ f[n + 1] \in Nat
  OBVIOUS
<1> HIDE DEF f
<1>3. /\ Product(f) \in [Nat -> Nat] /\ Product(f)[0] = 1
      /\ \A n \in Nat : Product(f)[n + 1] = f[n + 1] * Product(f)[n]
  BY <1>2, ProductFacts
<1> QED BY <1>1, <1>2, <1>3

LEMMA FacFacts ==
    /\ Fac \in [Nat -> Nat] /\ Fac[0] = 1
    /\ \A n \in Nat : Fac[n + 1] = (n + 1) * Fac[n]
<1> DEFINE f == [n \in Nat |-> n]
<1>1. Fac = Product(f)
  BY DEF Fac, Product
<1>2. f \in [Nat -> Int] /\ \A n \in Nat : f[n + 1] = (n + 1) /\ f[n + 1] \in Nat
  OBVIOUS
<1> HIDE DEF f
<1>3. /\ Product(f) \in [Nat -> Nat] /\ Product(f)[0] = 1
      /\ \A n \in Nat : Product(f)[n + 1] = f[n + 1] * Product(f)[n]
  BY <1>2, ProductFacts
<1> QED BY <1>1, <1>2, <1>3

LEMMA EvensFacts ==
    /\ Evens \in [Nat -> Nat] /\ Evens[0] = 1
    /\ \A n \in Nat : Evens[n + 1] = (2 * (n + 1)) * Evens[n]
<1> DEFINE f == [n \in Nat |-> 2 * n]
<1>1. Evens = Product(f)
  BY DEF Evens, Product
<1>2. f \in [Nat -> Int] /\ \A n \in Nat : f[n + 1] = (2 * (n + 1)) /\ f[n + 1] \in Nat
  OBVIOUS
<1> HIDE DEF f
<1>3. /\ Product(f) \in [Nat -> Nat] /\ Product(f)[0] = 1
      /\ \A n \in Nat : Product(f)[n + 1] = f[n + 1] * Product(f)[n]
  BY <1>2, ProductFacts
<1> QED BY <1>1, <1>2, <1>3

LEMMA OddsFacts ==
    /\ Odds \in [Nat -> Nat] /\ Odds[0] = 1
    /\ \A n \in Nat : Odds[n + 1] = (2 * (n + 1) - 1) * Odds[n]
<1> DEFINE f == [n \in Nat |-> 2 * n - 1]
<1>1. Odds = Product(f)
  BY DEF Odds, Product
<1>2. f \in [Nat -> Int] /\ \A n \in Nat : f[n + 1] = (2 * (n + 1) - 1) /\ f[n + 1] \in Nat
  OBVIOUS
<1> HIDE DEF f
<1>3. /\ Product(f) \in [Nat -> Nat] /\ Product(f)[0] = 1
      /\ \A n \in Nat : Product(f)[n + 1] = f[n + 1] * Product(f)[n]
  BY <1>2, ProductFacts
<1> QED BY <1>1, <1>2, <1>3

-----------------------------------------------------------------------------
(* The little theorem of Fermat for 2.  Twice the first p - 1 numbers are the   *)
(* even numbers below p and numbers that exceed the odd numbers below p by p.   *)
LEMMA EvensDoubled == \A n \in Nat : Evens[n] = Pow[n] * Fac[n]
<1> DEFINE Q == {n \in Nat : Evens[n] = Pow[n] * Fac[n]}
<1>1. 0 \in Q
  BY EvensFacts, PowFacts, FacFacts
<1>2. ASSUME NEW n \in Nat, n \in Q PROVE n + 1 \in Q
  <2>1. PICK a \in Nat, b \in Nat : a = Pow[n] /\ b = Fac[n]
    BY PowFacts, FacFacts
  <2>2. Evens[n + 1] = (2 * (n + 1)) * (a * b)
    BY <1>2, <2>1, EvensFacts
  <2>3. Pow[n + 1] * Fac[n + 1] = (2 * a) * ((n + 1) * b)
    BY <2>1, PowFacts, FacFacts
  <2>4. (2 * (n + 1)) * (a * b) = (2 * a) * ((n + 1) * b)
    OBVIOUS
  <2> QED BY <2>2, <2>3, <2>4
<1> HIDE DEF Q
<1>3. Nat \subseteq Q
  BY <1>1, <1>2, NatInductionSet
<1> QED BY <1>3 DEF Q

(* The even and the odd numbers up to 2 n are all of them.                     *)
LEMMA EvensAndOdds == \A n \in Nat : Evens[n] * Odds[n] = Fac[2 * n]
<1> DEFINE Q == {n \in Nat : Evens[n] * Odds[n] = Fac[2 * n]}
<1>1. 0 \in Q
  BY EvensFacts, OddsFacts, FacFacts
<1>2. ASSUME NEW n \in Nat, n \in Q PROVE n + 1 \in Q
  <2>1. PICK a \in Nat, b \in Nat : a = Evens[n] /\ b = Odds[n]
    BY EvensFacts, OddsFacts
  <2>2. Fac[2 * n] = a * b
    BY <1>2, <2>1
  <2>3. Fac[2 * n + 1] = (2 * n + 1) * (a * b)
    BY <2>2, FacFacts
  <2>4. Fac[(2 * n + 1) + 1] = ((2 * n + 1) + 1) * ((2 * n + 1) * (a * b))
    BY <2>3, FacFacts
  <2>5. (2 * n + 1) + 1 = 2 * (n + 1) /\ 2 * (n + 1) - 1 = 2 * n + 1
    OBVIOUS
  <2>6. Evens[n + 1] * Odds[n + 1] = (2 * (n + 1) * a) * ((2 * n + 1) * b)
    BY <2>1, <2>5, EvensFacts, OddsFacts
  <2>7. (2 * (n + 1) * a) * ((2 * n + 1) * b) = (2 * (n + 1)) * ((2 * n + 1) * (a * b))
    OBVIOUS
  <2> QED BY <2>4, <2>5, <2>6, <2>7
<1> HIDE DEF Q
<1>3. Nat \subseteq Q
  BY <1>1, <1>2, NatInductionSet
<1> QED BY <1>3 DEF Q

(* Modulo p the even numbers beyond p are the odd ones below it.                *)
LEMMA EvensBeyond ==
    ASSUME NEW k \in Nat
    PROVE  \A j \in Nat : Divides(2 * k + 1, Evens[k + j] - Evens[k] * Odds[j])
<1> DEFINE p == 2 * k + 1
           Q == {j \in Nat : Divides(p, Evens[k + j] - Evens[k] * Odds[j])}
<1>0. p \in Int /\ \A j \in Nat : Evens[k + j] \in Nat /\ Odds[j] \in Nat /\ Evens[k] * Odds[j] \in Nat
  <2>1. ASSUME NEW j \in Nat
        PROVE  Evens[k + j] \in Nat /\ Odds[j] \in Nat /\ Evens[k] * Odds[j] \in Nat
    <3>1. k + j \in Nat
      OBVIOUS
    <3>2. Evens[k + j] \in Nat /\ Odds[j] \in Nat /\ Evens[k] \in Nat
      BY <3>1, EvensFacts, OddsFacts
    <3> QED BY <3>2, NatProduct
  <2> QED BY <2>1
<1>1. 0 \in Q
  <2>1. k + 0 = k /\ Evens[k] * Odds[0] = Evens[k]
    BY EvensFacts, OddsFacts
  <2>2. Evens[k + 0] - Evens[k] * Odds[0] = p * 0
    BY <1>0, <2>1
  <2> QED BY <2>2 DEF Divides
<1>2. ASSUME NEW j \in Nat, j \in Q PROVE j + 1 \in Q
  <2>1. PICK a \in Nat, b \in Nat, c \in Nat : a = Evens[k + j] /\ b = Evens[k] /\ c = Odds[j]
    <3>1. Evens[k + j] \in Nat /\ Evens[k] \in Nat /\ Odds[j] \in Nat
      BY <1>0, EvensFacts
    <3> QED BY <3>1
  <2>2. PICK i \in Int : a - b * c = p * i
    BY <1>2, <2>1 DEF Divides
  <2>3. Evens[k + (j + 1)] = (2 * (k + j + 1)) * a
    <3>1. k + (j + 1) = (k + j) + 1 /\ k + j \in Nat
      OBVIOUS
    <3> QED BY <2>1, <3>1, EvensFacts
  <2>4. Odds[j + 1] = (2 * j + 1) * c
    <3>1. 2 * (j + 1) - 1 = 2 * j + 1
      OBVIOUS
    <3> QED BY <2>1, <3>1, OddsFacts
  <2>5. 2 * (k + j + 1) = p + (2 * j + 1)
    OBVIOUS
  <2> DEFINE o == 2 * j + 1
  <2>6. o \in Int /\ p \in Int
    OBVIOUS
  <2>7. Evens[k + (j + 1)] - Evens[k] * Odds[j + 1] = (p + o) * a - b * (o * c)
    BY <2>1, <2>3, <2>4, <2>5
  <2> HIDE DEF o, p
  <2>8. (p + o) * a - b * (o * c) = p * a + o * (a - b * c)
    BY <2>6
  <2>9. p * a + o * (p * i) = p * (a + o * i)
    BY <2>6
  <2>10. a + o * i \in Int
    BY <2>6
  <2>11. Evens[k + (j + 1)] - Evens[k] * Odds[j + 1] = p * (a + o * i)
    BY <2>2, <2>7, <2>8, <2>9
  <2> QED BY <2>10, <2>11 DEF Divides
<1> HIDE DEF Q
<1>3. Nat \subseteq Q
  BY <1>1, <1>2, NatInductionSet
<1> QED BY <1>3 DEF Q

(* A prime does not divide a product of numbers below it.                    *)
LEMMA FactorialUndivided ==
    ASSUME NEW p, Prime(p)
    PROVE  \A n \in Nat : n < p => ~ Divides(p, Fac[n])
<1> DEFINE Q == {n \in Nat : n < p => ~ Divides(p, Fac[n])}
<1>0. p \in Nat /\ p > 1
  BY DEF Prime
<1>1. 0 \in Q
  <2>1. Fac[0] = 1
    BY FacFacts
  <2> QED BY <1>0, <2>1, DividesLess
<1>2. ASSUME NEW n \in Nat, n \in Q PROVE n + 1 \in Q
  <2>1. SUFFICES ASSUME n + 1 < p, Divides(p, Fac[n + 1]) PROVE FALSE
    OBVIOUS
  <2>2. Fac[n + 1] = (n + 1) * Fac[n] /\ Fac[n] \in Nat /\ n + 1 \in Nat
    <3>1. n + 1 \in Nat
      OBVIOUS
    <3> QED BY <3>1, FacFacts
  <2>3. Divides(p, n + 1) \/ Divides(p, Fac[n])
    BY <2>1, <2>2, PrimeFactor
  <2>4. ~ Divides(p, n + 1)
    BY <1>0, <2>1, <2>2, DividesLess
  <2>5. n < p
    BY <1>0, <2>1
  <2> QED BY <1>2, <2>3, <2>4, <2>5
<1> HIDE DEF Q
<1>3. Nat \subseteq Q
  BY <1>1, <1>2, NatInductionSet
<1> QED BY <1>3 DEF Q

(* p divides 2^(p - 1) - 1.                                                   *)
LEMMA Fermat ==
    ASSUME NEW p, Prime(p), p # 2
    PROVE  Divides(p, Pow[p - 1] - 1)
<1>0. p \in Nat /\ p > 2
  BY DEF Prime
<1>1. p % 2 # 0
  BY <1>0 DEF Prime
<1>2. PICK k \in Nat : p = 2 * k + 1
  <2>1. p = 2 * (p \div 2) + (p % 2) /\ p % 2 \in {0, 1} /\ p \div 2 \in Nat
    BY <1>0
  <2> QED BY <1>1, <2>1
<1>3. PICK a \in Nat, f \in Nat : a = Pow[2 * k] /\ f = Fac[2 * k]
  <2>1. 2 * k \in Nat
    OBVIOUS
  <2>2. Pow[2 * k] \in Nat /\ Fac[2 * k] \in Nat
    BY <2>1, PowFacts, FacFacts
  <2> QED BY <2>2
<1>4. Divides(p, a * f - f)
  <2>1. Divides(p, Evens[k + k] - Evens[k] * Odds[k])
    BY <1>2, EvensBeyond
  <2>2. k + k = 2 * k /\ 2 * k \in Nat
    OBVIOUS
  <2> QED BY <1>3, <2>1, <2>2, EvensDoubled, EvensAndOdds
<1>5. a # 0
  <2> DEFINE Q == {n \in Nat : Pow[n] # 0}
  <2>1. 0 \in Q /\ \A n \in Nat : n \in Q => n + 1 \in Q
    BY PowFacts
  <2> HIDE DEF Q
  <2>2. Nat \subseteq Q
    BY <2>1, NatInductionSet
  <2> QED BY <1>3, <2>2 DEF Q
<1>6. a * f - f = (a - 1) * f /\ a - 1 \in Nat
  BY <1>5
<1>7. Divides(p, a - 1) \/ Divides(p, f)
  BY <1>4, <1>6, PrimeFactor
<1>8. ~ Divides(p, f)
  BY <1>2, <1>3, FactorialUndivided
<1>9. p - 1 = 2 * k
  BY <1>2
<1> QED BY <1>3, <1>7, <1>8, <1>9

-----------------------------------------------------------------------------
(* The theorem of Euler for 2 and the product of two primes, and what follows   *)
(* for exponents that are reduced modulo phi.                                *)
LEMMA PowAdd == \A m, n \in Nat : Pow[m + n] = Pow[m] * Pow[n]
<1> SUFFICES ASSUME NEW m \in Nat PROVE \A n \in Nat : Pow[m + n] = Pow[m] * Pow[n]
  OBVIOUS
<1> DEFINE Q == {n \in Nat : Pow[m + n] = Pow[m] * Pow[n]}
<1>1. 0 \in Q
  <2>1. m + 0 = m /\ Pow[m] \in Nat /\ Pow[0] = 1
    BY PowFacts
  <2> QED BY <2>1
<1>2. ASSUME NEW n \in Nat, n \in Q PROVE n + 1 \in Q
  <2>1. PICK a \in Nat, b \in Nat : a = Pow[m] /\ b = Pow[n]
    BY PowFacts
  <2>2. m + (n + 1) = (m + n) + 1 /\ m + n \in Nat
    OBVIOUS
  <2>3. Pow[(m + n) + 1] = 2 * (a * b) /\ Pow[n + 1] = 2 * b
    BY <1>2, <2>1, <2>2, PowFacts
  <2>4. 2 * (a * b) = a * (2 * b)
    OBVIOUS
  <2> QED BY <2>1, <2>2, <2>3, <2>4
<1> HIDE DEF Q
<1>3. Nat \subseteq Q
  BY <1>1, <1>2, NatInductionSet
<1> QED BY <1>3 DEF Q

(* If d divides 2^m - 1, it divides 2^(m n) - 1.                               *)
LEMMA PowMultiple ==
    ASSUME NEW d \in Int, NEW m \in Nat, Divides(d, Pow[m] - 1)
    PROVE  \A n \in Nat : Divides(d, Pow[m * n] - 1)
<1> DEFINE Q == {n \in Nat : Divides(d, Pow[m * n] - 1)}
<1>1. 0 \in Q
  <2>1. Pow[m * 0] - 1 = d * 0
    BY PowFacts
  <2> QED BY <2>1 DEF Divides
<1>2. ASSUME NEW n \in Nat, n \in Q PROVE n + 1 \in Q
  <2>1. m * n \in Nat /\ m * (n + 1) = m * n + m
    BY NatProduct
  <2>2. PICK a \in Nat, b \in Nat : a = Pow[m] /\ b = Pow[m * n]
    BY <2>1, PowFacts
  <2>3. Pow[m * (n + 1)] = b * a
    BY <2>1, <2>2, PowAdd
  <2>4. PICK i \in Int : a - 1 = d * i
    BY <2>2 DEF Divides
  <2>5. PICK j \in Int : b - 1 = d * j
    BY <1>2, <2>2 DEF Divides
  <2>6. b * a - 1 = b * (a - 1) + (b - 1)
    OBVIOUS
  <2>7. b * (d * i) + d * j = d * (b * i + j) /\ b * i + j \in Int
    OBVIOUS
  <2>8. Pow[m * (n + 1)] - 1 = d * (b * i + j)
    BY <2>3, <2>4, <2>5, <2>6, <2>7
  <2>9. Divides(d, Pow[m * (n + 1)] - 1)
    <3> DEFINE u == Pow[m * (n + 1)] - 1
               v == b * i + j
    <3>1. u = d * v /\ v \in Int
      BY <2>7, <2>8
    <3> HIDE DEF u, v
    <3>2. Divides(d, u)
      BY <3>1 DEF Divides
    <3> QED BY <3>2 DEF u
  <2> QED BY <2>9
<1> HIDE DEF Q
<1>3. Nat \subseteq Q
  BY <1>1, <1>2, NatInductionSet
<1> QED BY <1>3 DEF Q

LEMMA PowPositive == \A n \in Nat : Pow[n] \in Nat \ {0}
<1> DEFINE Q == {n \in Nat : Pow[n] # 0}
<1>1. 0 \in Q /\ \A n \in Nat : n \in Q => n + 1 \in Q
  BY PowFacts
<1> HIDE DEF Q
<1>2. Nat \subseteq Q
  BY <1>1, NatInductionSet
<1> QED BY <1>2, PowFacts DEF Q

(* Two different primes that divide a number divide it together.             *)
LEMMA PrimesTogether ==
    ASSUME NEW p, NEW q, Prime(p), Prime(q), p # q, NEW n \in Nat, Divides(p, n), Divides(q, n)
    PROVE  Divides(p * q, n)
<1>0. p \in Nat /\ q \in Nat /\ p > 1 /\ q > 1
  BY DEF Prime
<1>1. PICK k \in Int : n = p * k
  BY DEF Divides
<1>2. k \in Nat
  <2>1. SUFFICES ASSUME k < 0 PROVE FALSE
    OBVIOUS
  <2>2. p * (0 - k) = p * 0 - p * k /\ p * 1 <= p * (0 - k) /\ p * 0 = 0 /\ p * 1 = p
    BY <1>0, <2>1, Ring, NatProduct
  <2> QED BY <1>0, <1>1, <2>2
<1>3. Divides(q, p) \/ Divides(q, k)
  BY <1>0, <1>1, <1>2, PrimeFactor
<1>4. ~ Divides(q, p)
  BY <1>0, PrimeDivisor
<1>5. PICK j \in Int : k = q * j
  BY <1>3, <1>4 DEF Divides
<1>6. n = (p * q) * j
  BY <1>0, <1>1, <1>5, Ring
<1> QED BY <1>6 DEF Divides

(* p q divides 2^phi - 1.                                                     *)
LEMMA Euler ==
    ASSUME NEW p, NEW q, Prime(p), Prime(q), p # q, p # 2, q # 2
    PROVE  Divides(p * q, Pow[(p - 1) * (q - 1)] - 1)
<1>0. p - 1 \in Nat /\ q - 1 \in Nat /\ p \in Int /\ q \in Int
  BY DEF Prime
<1> DEFINE phi == (p - 1) * (q - 1)
<1>1. phi \in Nat /\ phi = (q - 1) * (p - 1)
  BY <1>0, NatProduct
<1>2. Divides(p, Pow[phi] - 1)
  BY <1>0, Fermat, PowMultiple
<1>3. Divides(q, Pow[(q - 1) * (p - 1)] - 1)
  BY <1>0, Fermat, PowMultiple
<1>4. Divides(q, Pow[phi] - 1)
  BY <1>1, <1>3
<1> HIDE DEF phi
<1>5. Pow[phi] - 1 \in Nat
  BY <1>1, PowPositive
<1>6. Divides(p * q, Pow[phi] - 1)
  BY <1>2, <1>4, <1>5, PrimesTogether
<1> QED BY <1>6 DEF phi

(* An exponent may be reduced modulo phi.                                     *)
LEMMA ReducedExponent ==
    ASSUME NEW n \in Nat \ {0}, NEW phi \in Nat \ {0}, Divides(n, Pow[phi] - 1), NEW e \in Nat
    PROVE  Pow[e] % n = Pow[e % phi] % n
<1>1. PICK k \in Nat, r \in Nat : r = e % phi /\ e = phi * k + r
  BY DivMod
<1>2. phi * k \in Nat
  BY NatProduct
<1>3. PICK a \in Nat, b \in Nat : a = Pow[phi * k] /\ b = Pow[r]
  BY <1>2, PowFacts
<1>4. Pow[e] = a * b
  BY <1>1, <1>2, <1>3, PowAdd
<1>5. Divides(n, a - 1)
  <2>1. Divides(n, Pow[phi * k] - 1)
    BY PowMultiple
  <2> QED BY <1>3, <2>1
<1> DEFINE c == a - 1
           u == a * b
<1>6. u - b = c * b /\ c \in Int /\ u \in Nat /\ Divides(n, c) /\ n \in Int /\ b \in Int
  BY <1>5, NatProduct
<1> HIDE DEF c, u
<1>7. Divides(n, c * b)
  BY <1>6, DividesMultiple
<1>8. Divides(n, u - b)
  BY <1>6, <1>7
<1>9. u % n = b % n
  BY <1>6, <1>8, SameRemainder
<1> QED BY <1>1, <1>3, <1>4, <1>9 DEF u

-----------------------------------------------------------------------------
(* What the functions of big.Int compute.                                    *)

(* Exp(2, e, m) is the power, reduced.                                       *)
LEMMA ReducedPow ==
    ASSUME NEW m \in Nat \ {0}, NEW n \in Nat
    PROVE  Pow[n + 1] % m = ((Pow[n] % m) * 2) % m
<1>1. PICK a \in Nat : a = Pow[n] /\ Pow[n + 1] = 2 * a
  BY PowFacts
<1>2. PICK k \in Nat, r \in Nat : r = a % m /\ a = m * k + r
  BY DivMod
<1> DEFINE u == 2 * a
           v == r * 2
<1>3. u - v = m * (2 * k) /\ 2 * k \in Int /\ u \in Nat /\ v \in Nat
  BY <1>2
<1> HIDE DEF u, v
<1>4. Divides(m, u - v)
  BY <1>3 DEF Divides
<1>5. u % m = v % m
  BY <1>3, <1>4, SameRemainder
<1> QED BY <1>1, <1>2, <1>5 DEF u, v

LEMMA ExpIsPow ==
    ASSUME NEW e \in Nat, NEW m \in Nat \ {0}
    PROVE  Exp(2, e, m) = Pow[e] % m
<1> DEFINE Eqn(p) == p = [i \in 0..e |-> IF i = 0 THEN 1 % m ELSE (p[i - 1] * 2) % m]
           k == [i \in 0..e |-> Pow[i] % m]
<1>1. Exp(2, e, m) = (CHOOSE p : Eqn(p))[e]
  BY DEF Exp
<1>2. Eqn(k)
  <2>1. ASSUME NEW i \in 0..e
        PROVE  k[i] = IF i = 0 THEN 1 % m ELSE (k[i - 1] * 2) % m
    <3>1. CASE i = 0
      BY <3>1, PowFacts
    <3>2. CASE i # 0
      <4>1. i - 1 \in Nat /\ i - 1 \in 0..e /\ (i - 1) + 1 = i
        BY <3>2
      <4>2. Pow[i] % m = ((Pow[i - 1] % m) * 2) % m
        BY <4>1, ReducedPow
      <4> QED BY <3>2, <4>1, <4>2
    <3> QED BY <3>1, <3>2
  <2> QED BY <2>1
<1> DEFINE p == CHOOSE g : Eqn(g)
<1>3. Eqn(p)
  BY <1>2
<1> HIDE DEF p
<1> DEFINE Q == {i \in Nat : i <= e => p[i] = Pow[i] % m}
<1>4. 0 \in Q
  BY <1>3, PowFacts
<1>5. ASSUME NEW i \in Nat, i \in Q PROVE i + 1 \in Q
  <2>1. SUFFICES ASSUME i + 1 <= e PROVE p[i + 1] = Pow[i + 1] % m
    OBVIOUS
  <2>2. i + 1 \in 0..e /\ i + 1 # 0 /\ (i + 1) - 1 = i /\ i <= e
    BY <2>1
  <2>3. p[i + 1] = (p[i] * 2) % m
    BY <1>3, <2>2
  <2>4. p[i] = Pow[i] % m
    BY <1>5, <2>2
  <2> QED BY <2>3, <2>4, ReducedPow
<1> HIDE DEF Q, Eqn
<1>6. Nat \subseteq Q
  BY <1>4, <1>5, NatInductionSet
<1>7. p[e] = Pow[e] % m
  BY <1>6 DEF Q
<1> QED BY <1>1, <1>7 DEF p

(* The number of bytes of a key.                                             *)
LEMMA KeyFacts ==
    ASSUME NEW key \in Keys
    PROVE  /\ key \in Seq(Nat) /\ Len(key) = KeySize /\ KeySize \in Nat /\ KeySize >= 1
           /\ Base \in Nat /\ Base >= 2
           /\ \A i \in 1..KeySize : key[i] \in Nat /\ key[i] < Base
<1>1. KeySize \in Nat /\ KeySize >= 1 /\ Base \in Nat /\ Base >= 2
  BY TimelockPuzzleAssumption DEF TimelockPuzzleAssumption
<1>2. key \in [1..KeySize -> 0..(Base - 1)]
  BY DEF Keys
<1>3. \A i \in 1..KeySize : key[i] \in Nat /\ key[i] < Base
  BY <1>1, <1>2
<1>4. key \in [1..KeySize -> Nat]
  BY <1>2, <1>3
<1>5. key \in Seq(Nat)
  BY <1>1, <1>4, SeqDef
<1>6. Len(key) = KeySize
  BY <1>1, <1>4, <1>5, LenProperties
<1> QED BY <1>1, <1>3, <1>5, <1>6

(* SetBytes reads the bytes from the first one on.                            *)
LEMMA ValueFacts ==
    ASSUME NEW key \in Keys
    PROVE  \E v \in [0..KeySize -> Nat] :
              /\ v[0] = 0 /\ Value(key) = v[KeySize]
              /\ \A i \in 1..KeySize : v[i] = Base * v[i - 1] + key[i]
<1>0. Len(key) = KeySize /\ KeySize \in Nat /\ Base \in Nat /\ \A i \in 1..KeySize : key[i] \in Nat
  BY KeyFacts
<1> DEFINE D == 0..KeySize
           Eqn(v) == v = [i \in 0..Len(key) |-> IF i = 0 THEN 0 ELSE v[i - 1] * Base + key[i]]
           mu == [i \in D |-> i]
           prev == [i \in D \ {0} |-> i - 1]
           h == [z \in D \X Nat |-> IF z[1] = 0 THEN 0 ELSE z[2] * Base + key[z[1]]]
<1>1. Value(key) = (CHOOSE v : Eqn(v))[Len(key)]
  BY DEF Value
<1>2. h \in [D \X Nat -> Nat] /\ \A i \in D \ {0}, m \in Nat : h[<<i, m>>] = m * Base + key[i]
  <2>1. ASSUME NEW z \in D \X Nat PROVE (IF z[1] = 0 THEN 0 ELSE z[2] * Base + key[z[1]]) \in Nat
    <3>1. z[1] \in 0..KeySize /\ z[2] \in Nat /\ z[2] * Base \in Nat
      BY <1>0, NatProduct
    <3>2. z[1] # 0 => key[z[1]] \in Nat
      BY <1>0, <3>1
    <3> QED BY <3>1, <3>2
  <2> QED BY <2>1
<1>3. /\ mu \in [D -> Nat] /\ prev \in [D \ {0} -> D] /\ {0} \in SUBSET D /\ 0 \in Nat
      /\ \A i \in D \ {0} : mu[prev[i]] < mu[i] /\ prev[i] = i - 1
  BY <1>0
<1> HIDE DEF mu, prev, h, D
<1>4. PICK v : Satisfies(v, D, Nat, {0}, prev, 0, h)
  <2>1. \E v : Satisfies(v, D, Nat, {0}, prev, 0, h)
    BY <1>2, <1>3, RecursionExists
  <2> QED BY <2>1
<1>5. v \in [D -> Nat] /\ v[0] = 0
  BY <1>3, <1>4 DEF Satisfies
<1>6. ASSUME NEW i \in D \ {0} PROVE v[i] = v[i - 1] * Base + key[i]
  <2>1. v[i] = h[<<i, v[i - 1]>>] /\ i - 1 \in D
    BY <1>3, <1>4 DEF Satisfies
  <2> QED BY <1>2, <1>5, <2>1
<1>7. Eqn(v)
  <2>1. D = 0..Len(key)
    BY <1>0 DEF D
  <2>2. \A i \in D : v[i] = IF i = 0 THEN 0 ELSE v[i - 1] * Base + key[i]
    BY <1>5, <1>6
  <2> QED BY <1>5, <2>1, <2>2
<1> DEFINE w == CHOOSE g : Eqn(g)
<1>8. Eqn(w)
  BY <1>7
<1> HIDE DEF w
<1>9. w[0] = 0 /\ \A i \in 1..KeySize : w[i] = w[i - 1] * Base + key[i]
  BY <1>0, <1>8
<1> DEFINE Q == {i \in Nat : i <= KeySize => w[i] \in Nat}
<1>10. Nat \subseteq Q
  <2>1. 0 \in Q
    BY <1>9
  <2>2. ASSUME NEW i \in Nat, i \in Q PROVE i + 1 \in Q
    <3>1. SUFFICES ASSUME i + 1 <= KeySize PROVE w[i + 1] \in Nat
      OBVIOUS
    <3>2. i + 1 \in 1..KeySize /\ (i + 1) - 1 = i /\ w[i] \in Nat
      BY <1>0, <2>2, <3>1
    <3>3. w[i + 1] = w[i] * Base + key[i + 1] /\ key[i + 1] \in Nat
      BY <1>0, <1>9, <3>2
    <3>4. PICK a \in Nat, c \in Nat : a = w[i] * Base /\ c = key[i + 1]
      BY <1>0, <3>2, <3>3, NatProduct
    <3> QED BY <3>3, <3>4
  <2> HIDE DEF Q
  <2> QED BY <2>1, <2>2, NatInductionSet
<1>11. w \in [0..KeySize -> Nat]
  <2>1. \A i \in 0..KeySize : w[i] \in Nat
    BY <1>0, <1>10
  <2>2. w = [i \in 0..KeySize |-> w[i]]
    BY <1>0, <1>8
  <2> QED BY <2>1, <2>2
<1>12. \A i \in 1..KeySize : w[i] = Base * w[i - 1] + key[i]
  BY <1>0, <1>9, <1>11
<1> QED BY <1>0, <1>1, <1>9, <1>11, <1>12 DEF w

(* Bytes takes the last byte off, again and again.                            *)
LEMMA BytesFacts ==
    ASSUME NEW n \in Nat
    PROVE  \E b : /\ b[0] = <<>> /\ Bytes(n) = b[n]
                  /\ \A i \in 1..n : b[i] = Append(b[i \div Base], i % Base)
<1>0. Base \in Nat \ {0} /\ Base >= 2
  BY TimelockPuzzleAssumption DEF TimelockPuzzleAssumption
<1> DEFINE D == 0..n
           Eqn(b) == b = [i \in D |-> IF i = 0 THEN <<>> ELSE Append(b[i \div Base], i % Base)]
           mu == [i \in D |-> i]
           prev == [i \in D \ {0} |-> i \div Base]
           h == [z \in D \X Seq(Nat) |-> Append(z[2], z[1] % Base)]
<1>1. Bytes(n) = (CHOOSE b : Eqn(b))[n]
  BY DEF Bytes
<1>2. /\ h \in [D \X Seq(Nat) -> Seq(Nat)]
      /\ \A i \in D, s \in Seq(Nat) : h[<<i, s>>] = Append(s, i % Base)
  <2>1. ASSUME NEW z \in D \X Seq(Nat) PROVE Append(z[2], z[1] % Base) \in Seq(Nat)
    <3>1. z[1] \in Nat /\ z[2] \in Seq(Nat)
      OBVIOUS
    <3>2. z[1] % Base \in Nat
      BY <1>0, <3>1, DivMod
    <3> QED BY <3>1, <3>2
  <2> QED BY <2>1
<1>3. ASSUME NEW i \in D \ {0} PROVE i \div Base \in D /\ i \div Base < i
  <2>1. i \in Nat /\ i # 0 /\ i <= n
    OBVIOUS
  <2>2. PICK q \in Nat, r \in Nat : q = i \div Base /\ i = Base * q + r
    BY <1>0, <2>1, DivMod
  <2>3. 2 * q <= Base * q
    BY <1>0
  <2>4. q < i
    BY <1>0, <2>1, <2>2, <2>3, NatProduct
  <2> QED BY <2>1, <2>2, <2>4
<1>4. /\ mu \in [D -> Nat] /\ prev \in [D \ {0} -> D] /\ {0} \in SUBSET D /\ <<>> \in Seq(Nat)
      /\ \A i \in D \ {0} : mu[prev[i]] < mu[i] /\ prev[i] = i \div Base
  BY <1>3
<1> HIDE DEF mu, prev, h
<1>5. PICK b : Satisfies(b, D, Seq(Nat), {0}, prev, <<>>, h)
  <2> HIDE DEF D
  <2>1. \E b : Satisfies(b, D, Seq(Nat), {0}, prev, <<>>, h)
    BY <1>2, <1>4, RecursionExists
  <2> QED BY <2>1
<1>6. b \in [D -> Seq(Nat)] /\ b[0] = <<>>
  <2>1. 0 \in D
    OBVIOUS
  <2> HIDE DEF D
  <2> QED BY <1>5, <2>1 DEF Satisfies
<1>7. ASSUME NEW i \in D \ {0} PROVE b[i] = Append(b[i \div Base], i % Base)
  <2>1. b[i] = h[<<i, b[i \div Base]>>] /\ b[i \div Base] \in Seq(Nat)
    BY <1>3, <1>4, <1>5, <1>6 DEF Satisfies
  <2> QED BY <1>2, <2>1
<1>8. Eqn(b)
  <2>1. \A i \in D : b[i] = IF i = 0 THEN <<>> ELSE Append(b[i \div Base], i % Base)
    BY <1>6, <1>7
  <2> QED BY <1>6, <2>1
<1> DEFINE w == CHOOSE g : Eqn(g)
<1>9. Eqn(w)
  BY <1>8
<1> HIDE DEF w
<1>10. w[0] = <<>> /\ \A i \in 1..n : w[i] = Append(w[i \div Base], i % Base)
  <2>1. ASSUME NEW i \in D
        PROVE  w[i] = IF i = 0 THEN <<>> ELSE Append(w[i \div Base], i % Base)
    BY <1>9
  <2>2. 0 \in D /\ \A i \in 1..n : i \in D /\ i # 0
    OBVIOUS
  <2> HIDE DEF D
  <2> QED BY <2>1, <2>2
<1> QED BY <1>1, <1>10 DEF w

(* A key that starts with another byte than 0 survives both conversions.       *)
LEMMA BytesOfValue ==
    ASSUME NEW key \in Keys, key[1] # 0
    PROVE  Bytes(Value(key)) = key /\ Value(key) \in Nat
<1>0. /\ key \in Seq(Nat) /\ Len(key) = KeySize /\ KeySize \in Nat /\ KeySize >= 1
      /\ Base \in Nat \ {0} /\ Base >= 2
      /\ \A i \in 1..KeySize : key[i] \in Nat /\ key[i] < Base
  BY KeyFacts
<1>1. PICK v \in [0..KeySize -> Nat] :
         /\ v[0] = 0 /\ Value(key) = v[KeySize]
         /\ \A i \in 1..KeySize : v[i] = Base * v[i - 1] + key[i]
  BY ValueFacts
<1>2. ASSUME NEW i \in 1..KeySize
      PROVE  v[i] \div Base = v[i - 1] /\ v[i] % Base = key[i] /\ v[i - 1] <= v[i]
  <2>1. PICK a \in Nat, c \in Nat, r \in Nat :
           a = v[i] /\ c = v[i - 1] /\ r = key[i] /\ a = Base * c + r /\ r < Base
    <3>1. i \in 0..KeySize /\ i - 1 \in 0..KeySize
      BY <1>0
    <3> QED BY <1>0, <1>1, <3>1
  <2>2. a \div Base = c /\ a % Base = r
    BY <1>0, <2>1, DivModUnique
  <2>3. c <= a
    <3>1. c <= Base * c /\ Base * c \in Nat
      BY <1>0
    <3> QED BY <2>1, <3>1
  <2> QED BY <2>1, <2>2, <2>3
<1>3. \A i \in 1..KeySize : v[i] # 0
  <2> DEFINE Q == {i \in Nat : i + 1 <= KeySize => v[i + 1] # 0}
  <2>1. 0 \in Q
    <3>1. 1 \in 1..KeySize /\ 1 - 1 = 0
      BY <1>0
    <3>2. v[1] = Base * 0 + key[1]
      BY <1>1, <3>1
    <3> QED BY <1>0, <3>1, <3>2
  <2>2. ASSUME NEW i \in Nat, i \in Q PROVE i + 1 \in Q
    <3>1. SUFFICES ASSUME (i + 1) + 1 <= KeySize PROVE v[(i + 1) + 1] # 0
      OBVIOUS
    <3>2. (i + 1) + 1 \in 1..KeySize /\ ((i + 1) + 1) - 1 = i + 1 /\ i + 1 \in 0..KeySize /\ i + 1 <= KeySize
      BY <1>0, <3>1
    <3>3. v[i + 1] <= v[(i + 1) + 1] /\ v[i + 1] \in Nat /\ v[i + 1] # 0 /\ v[(i + 1) + 1] \in Nat
      BY <1>1, <1>2, <2>2, <3>2
    <3> QED BY <3>3
  <2> HIDE DEF Q
  <2>3. Nat \subseteq Q
    BY <2>1, <2>2, NatInductionSet
  <2>4. ASSUME NEW i \in 1..KeySize PROVE v[i] # 0
    <3>1. i - 1 \in Nat /\ (i - 1) + 1 = i /\ i <= KeySize
      BY <1>0
    <3> QED BY <2>3, <3>1 DEF Q
  <2> QED BY <2>4
<1> DEFINE n == v[KeySize]
<1>4. n \in Nat
  BY <1>0, <1>1
<1>5. \A i \in 0..KeySize : v[i] <= n
  <2> DEFINE Q == {j \in Nat : j <= KeySize => v[KeySize - j] <= n}
  <2>1. 0 \in Q
    <3>1. KeySize - 0 = KeySize
      BY <1>0
    <3> QED BY <1>4, <3>1
  <2>2. ASSUME NEW j \in Nat, j \in Q PROVE j + 1 \in Q
    <3>1. SUFFICES ASSUME j + 1 <= KeySize PROVE v[KeySize - (j + 1)] <= n
      OBVIOUS
    <3>2. KeySize - j \in 1..KeySize /\ (KeySize - j) - 1 = KeySize - (j + 1) /\ j <= KeySize
          /\ KeySize - j \in 0..KeySize /\ KeySize - (j + 1) \in 0..KeySize
      BY <1>0, <3>1
    <3>3. v[KeySize - (j + 1)] <= v[KeySize - j] /\ v[KeySize - j] <= n
      BY <1>2, <2>2, <3>2
    <3>4. v[KeySize - (j + 1)] \in Nat /\ v[KeySize - j] \in Nat
      BY <1>1, <3>2
    <3> QED BY <1>4, <3>3, <3>4
  <2> HIDE DEF Q, n
  <2>3. Nat \subseteq Q
    BY <2>1, <2>2, NatInductionSet
  <2>4. ASSUME NEW i \in 0..KeySize PROVE v[i] <= n
    <3>1. KeySize - i \in Nat /\ KeySize - i <= KeySize /\ KeySize - (KeySize - i) = i
      BY <1>0
    <3> QED BY <2>3, <3>1 DEF Q
  <2> QED BY <2>4
<1> HIDE DEF n
<1>6. PICK b : /\ b[0] = <<>> /\ Bytes(n) = b[n]
               /\ \A i \in 1..n : b[i] = Append(b[i \div Base], i % Base)
  BY <1>4, BytesFacts
<1> DEFINE Front(i) == [j \in 1..i |-> key[j]]
           Q == {i \in Nat : i <= KeySize => b[v[i]] = Front(i)}
<1>7. 0 \in Q
  <2>1. Front(0) = <<>>
    OBVIOUS
  <2> QED BY <1>1, <1>6, <2>1
<1>8. ASSUME NEW i \in Nat, i \in Q PROVE i + 1 \in Q
  <2>1. SUFFICES ASSUME i + 1 <= KeySize PROVE b[v[i + 1]] = Front(i + 1)
    OBVIOUS
  <2>2. i + 1 \in 1..KeySize /\ i + 1 \in 0..KeySize /\ (i + 1) - 1 = i /\ i <= KeySize
    BY <1>0, <2>1
  <2>3. v[i + 1] \in 1..n
    <3>1. v[i + 1] \in Nat /\ v[i + 1] # 0 /\ v[i + 1] <= n
      BY <1>1, <1>3, <1>5, <2>2
    <3> QED BY <1>4, <3>1
  <2>4. b[v[i + 1]] = Append(b[v[i]], key[i + 1])
    <3>1. v[i + 1] \div Base = v[i] /\ v[i + 1] % Base = key[i + 1]
      BY <1>2, <2>2
    <3>2. b[v[i + 1]] = Append(b[v[i + 1] \div Base], v[i + 1] % Base)
      BY <1>6, <2>3
    <3> QED BY <3>1, <3>2
  <2>5. b[v[i]] = Front(i)
    BY <1>8, <2>2
  <2>6. Front(i) \in Seq(Nat) /\ Len(Front(i)) = i
    <3>1. \A j \in 1..i : key[j] \in Nat
      BY <1>0, <2>2
    <3> QED BY <3>1
  <2>7. Append(Front(i), key[i + 1]) = Front(i + 1)
    <3>1. key[i + 1] \in Nat
      BY <1>0, <2>2
    <3> QED BY <2>6, <3>1
  <2> QED BY <2>4, <2>5, <2>7
<1>9. Nat \subseteq Q
  <2> HIDE DEF Q
  <2> QED BY <1>7, <1>8, NatInductionSet
<1>10. b[n] = Front(KeySize)
  BY <1>0, <1>9 DEF n
<1>11. Front(KeySize) = key
  BY DEF Keys
<1> QED BY <1>1, <1>4, <1>6, <1>10, <1>11 DEF n

(* Xor goes through the bits from the last one on: f is its table for m and n. *)
XorTable(f, m, n) ==
    /\ f \in [(0..(m + n)) \X (0..(m + n)) -> Nat]
    /\ f[<<0, 0>>] = 0
    /\ Xor(m, n) = f[<<m, n>>]
    /\ \A a, b \in 0..(m + n) : <<a, b>> # <<0, 0>> =>
          f[<<a, b>>] = 2 * f[<<a \div 2, b \div 2>>] + ((a + b) % 2)

LEMMA XorFacts ==
    ASSUME NEW m \in Nat, NEW n \in Nat
    PROVE  \E f : XorTable(f, m, n)
<1> DEFINE I == 0..(m + n)
           D == I \X I
           Half(z) == <<z[1] \div 2, z[2] \div 2>>
           Both(z) == z[1] + z[2]
           Bit(z) == Both(z) % 2
           Eqn(f) == f = [z \in D |-> IF z = <<0, 0>> THEN 0 ELSE 2 * f[Half(z)] + Bit(z)]
           mu == [z \in D |-> Both(z)]
           prev == [z \in D \ {<<0, 0>>} |-> Half(z)]
           h == [y \in D \X Nat |-> 2 * y[2] + Bit(y[1])]
<1>1. Xor(m, n) = (CHOOSE f : Eqn(f))[<<m, n>>]
  BY DEF Xor
<1>2. ASSUME NEW z \in D
      PROVE  /\ Both(z) \in Nat /\ Bit(z) \in Nat /\ Half(z) \in D
             /\ z # <<0, 0>> => Both(Half(z)) < Both(z)
             /\ Both(z) <= 0 => z = <<0, 0>>
  <2>1. z[1] \in I /\ z[2] \in I /\ z = <<z[1], z[2]>>
    OBVIOUS
  <2>2. PICK a \in Nat, c \in Nat : a = z[1] /\ c = z[2] /\ a <= m + n /\ c <= m + n
    BY <2>1
  <2>3. a \div 2 \in Nat /\ c \div 2 \in Nat /\ a \div 2 <= a /\ c \div 2 <= c
    OBVIOUS
  <2>4. a # 0 => a \div 2 < a
    OBVIOUS
  <2>5. c # 0 => c \div 2 < c
    OBVIOUS
  <2>6. Half(z) \in D
    <3>1. a \div 2 \in I /\ c \div 2 \in I
      BY <2>2, <2>3
    <3> QED BY <2>2, <3>1
  <2>7. z # <<0, 0>> => a # 0 \/ c # 0
    BY <2>1, <2>2
  <2>8. z # <<0, 0>> => (a \div 2) + (c \div 2) < a + c
    BY <2>3, <2>4, <2>5, <2>7
  <2>9. a + c \in Nat /\ (a + c) % 2 \in Nat /\ (a + c <= 0 => a = 0 /\ c = 0)
    OBVIOUS
  <2>10. Both(z) = a + c /\ Both(Half(z)) = (a \div 2) + (c \div 2)
    BY <2>2
  <2> QED BY <2>1, <2>2, <2>6, <2>8, <2>9, <2>10
<1>3. /\ <<0, 0>> \in D /\ <<m, n>> \in D
      /\ \A a, c \in I : /\ <<a, c>> \in D /\ Half(<<a, c>>) = <<a \div 2, c \div 2>>
                         /\ Bit(<<a, c>>) = (a + c) % 2
  OBVIOUS
<1> HIDE DEF D, Half, Both, Bit
<1>4. /\ h \in [D \X Nat -> Nat]
      /\ \A z \in D, k \in Nat : h[<<z, k>>] = 2 * k + Bit(z)
  <2>1. ASSUME NEW y \in D \X Nat PROVE 2 * y[2] + Bit(y[1]) \in Nat
    <3>1. Bit(y[1]) \in Nat
      BY <1>2
    <3> QED BY <3>1
  <2> QED BY <2>1
<1>5. /\ mu \in [D -> Nat] /\ prev \in [D \ {<<0, 0>>} -> D] /\ {<<0, 0>>} \in SUBSET D /\ 0 \in Nat
      /\ \A z \in D \ {<<0, 0>>} : prev[z] = Half(z)
  BY <1>2, <1>3
<1>6. \A z \in D \ {<<0, 0>>} : mu[prev[z]] < mu[z]
  BY <1>2
<1> HIDE DEF mu, prev, h
<1>7. PICK f : Satisfies(f, D, Nat, {<<0, 0>>}, prev, 0, h)
  <2>1. \E f : Satisfies(f, D, Nat, {<<0, 0>>}, prev, 0, h)
    BY <1>4, <1>5, <1>6, RecursionExists
  <2> QED BY <2>1
<1>8. f \in [D -> Nat] /\ f[<<0, 0>>] = 0
  BY <1>3, <1>7 DEF Satisfies
<1>9. ASSUME NEW z \in D \ {<<0, 0>>}
      PROVE  f[z] = 2 * f[Half(z)] + Bit(z)
  <2>1. f[z] = h[<<z, f[prev[z]]>>] /\ f[prev[z]] \in Nat
    BY <1>5, <1>7, <1>8 DEF Satisfies
  <2> QED BY <1>4, <1>5, <2>1
<1>10. Eqn(f)
  <2>1. \A z \in D : f[z] = IF z = <<0, 0>> THEN 0 ELSE 2 * f[Half(z)] + Bit(z)
    BY <1>8, <1>9
  <2> QED BY <1>8, <2>1
<1> DEFINE w == CHOOSE g : Eqn(g)
<1>11. Eqn(w)
  BY <1>10
<1> HIDE DEF w
<1>12. \A z \in D : w[z] = IF z = <<0, 0>> THEN 0 ELSE 2 * w[Half(z)] + Bit(z)
  BY <1>11
<1>13. w[<<0, 0>>] = 0
  BY <1>3, <1>12
<1>14. ASSUME NEW a \in I, NEW c \in I, <<a, c>> # <<0, 0>>
       PROVE  w[<<a, c>>] = 2 * w[<<a \div 2, c \div 2>>] + ((a + c) % 2)
  <2>1. w[<<a, c>>] = 2 * w[Half(<<a, c>>)] + Bit(<<a, c>>)
    BY <1>3, <1>12, <1>14
  <2> QED BY <1>3, <2>1
<1> DEFINE Q == {k \in Nat : \A z \in D : Both(z) <= k => w[z] \in Nat}
<1>15. 0 \in Q
  BY <1>2, <1>13
<1>16. ASSUME NEW k \in Nat, k \in Q PROVE k + 1 \in Q
  <2>1. ASSUME NEW z \in D, Both(z) <= k + 1, z # <<0, 0>> PROVE w[z] \in Nat
    <3>1. Half(z) \in D /\ Both(Half(z)) < Both(z) /\ Both(z) \in Nat /\ Bit(z) \in Nat
      BY <1>2, <2>1
    <3>2. Both(Half(z)) \in Nat
      BY <1>2, <3>1
    <3>3. Both(Half(z)) <= k
      BY <2>1, <3>1, <3>2
    <3>4. w[Half(z)] \in Nat
      BY <1>16, <3>1, <3>3
    <3>5. w[z] = 2 * w[Half(z)] + Bit(z)
      BY <1>12, <2>1
    <3> QED BY <3>1, <3>4, <3>5
  <2>2. \A z \in D : Both(z) <= k + 1 => w[z] \in Nat
    BY <1>13, <2>1
  <2> QED BY <2>2
<1>17. Nat \subseteq Q
  <2> HIDE DEF Q
  <2> QED BY <1>15, <1>16, NatInductionSet
<1>18. w \in [D -> Nat]
  <2>1. ASSUME NEW z \in D PROVE w[z] \in Nat
    <3>1. Both(z) \in Nat
      BY <1>2
    <3>2. Both(z) \in Q
      BY <1>17, <3>1
    <3> QED BY <3>1, <3>2
  <2>2. w = [z \in D |-> w[z]]
    BY <1>11
  <2> QED BY <2>1, <2>2
<1>19. Xor(m, n) = w[<<m, n>>]
  BY <1>1 DEF w
<1> QED BY <1>13, <1>14, <1>18, <1>19 DEF D, XorTable


(* Adding the same number twice, bit by bit, changes nothing.                  *)
LEMMA XorInvolution ==
    ASSUME NEW m \in Nat, NEW n \in Nat
    PROVE  Xor(m, n) \in Nat /\ Xor(Xor(m, n), m) = n
<1>0. PICK f : XorTable(f, m, n)
  BY XorFacts
<1>1. /\ f \in [(0..(m + n)) \X (0..(m + n)) -> Nat] /\ f[<<0, 0>>] = 0
      /\ Xor(m, n) = f[<<m, n>>]
      /\ \A a, b \in 0..(m + n) : <<a, b>> # <<0, 0>> =>
            f[<<a, b>>] = 2 * f[<<a \div 2, b \div 2>>] + ((a + b) % 2)
  BY <1>0 DEF XorTable
<1> DEFINE I == 0..(m + n)
           c == Xor(m, n)
<1>2. m \in I /\ n \in I /\ 0 \in I
  OBVIOUS
<1>3. ASSUME NEW a \in I, NEW b \in I PROVE f[<<a, b>>] \in Nat
  <2>1. f \in [I \X I -> Nat] /\ <<a, b>> \in I \X I
    BY <1>1
  <2> HIDE DEF I
  <2> QED BY <2>1
<1>4. c \in Nat
  BY <1>1, <1>2, <1>3
<1> HIDE DEF c
<1>5a. PICK g : XorTable(g, c, m)
  BY <1>4, XorFacts
<1>5. /\ g[<<0, 0>>] = 0 /\ Xor(c, m) = g[<<c, m>>]
      /\ \A a, b \in 0..(c + m) : <<a, b>> # <<0, 0>> =>
            g[<<a, b>>] = 2 * g[<<a \div 2, b \div 2>>] + ((a + b) % 2)
  BY <1>5a DEF XorTable
<1> DEFINE J == 0..(c + m)
           Q == {k \in Nat : \A a, b \in I : a + b <= k /\ f[<<a, b>>] \in J /\ a \in J
                                               => g[<<f[<<a, b>>], a>>] = b}
<1>6. 0 \in Q
  <2>1. ASSUME NEW a \in I, NEW b \in I, a + b <= 0 PROVE a = 0 /\ b = 0
    BY <2>1
  <2> QED BY <1>1, <1>5, <2>1
<1>7. ASSUME NEW k \in Nat, k \in Q PROVE k + 1 \in Q
  <2>1. ASSUME NEW a \in I, NEW b \in I, a + b <= k + 1, f[<<a, b>>] \in J, a \in J
        PROVE  g[<<f[<<a, b>>], a>>] = b
    <3> DEFINE a2 == a \div 2
               b2 == b \div 2
               d == f[<<a, b>>]
               e == f[<<a2, b2>>]
    <3>1. CASE a = 0 /\ b = 0
      BY <1>1, <1>5, <3>1
    <3>2. CASE a # 0 \/ b # 0
      <4>1. a2 \in I /\ b2 \in I /\ a2 \in J
        BY <1>4, <2>1
      <4>2. a2 + b2 <= k
        BY <2>1, <3>2
      <4>3. e \in Nat
        BY <1>3, <4>1
      <4>4. d = 2 * e + ((a + b) % 2)
        <5>1. <<a, b>> # <<0, 0>>
          BY <3>2
        <5> QED BY <1>1, <5>1
      <4> HIDE DEF d, e
      <4>5. d \div 2 = e /\ d % 2 = (a + b) % 2
        BY <4>3, <4>4
      <4>6. d \in J /\ e \in J
        <5>1. d \in J
          BY <2>1 DEF d
        <5> QED BY <1>4, <4>3, <4>4, <5>1
      <4>7. g[<<e, a2>>] = b2
        <5>1. f[<<a2, b2>>] \in J
          BY <4>6 DEF e
        <5> HIDE DEF J, I
        <5>2. g[<<f[<<a2, b2>>], a2>>] = b2
          BY <1>7, <4>1, <4>2, <5>1
        <5> QED BY <5>2 DEF e
      <4>8. (d + a) % 2 = b % 2
        <5>1. d \in Nat /\ a \in Nat /\ b \in Nat
          BY <1>4, <4>6
        <5> QED BY <4>5, <5>1
      <4>9. b = 2 * b2 + (b % 2)
        OBVIOUS
      <4>10. CASE d = 0 /\ a = 0
        <5>1. e = 0 /\ a2 = 0
          BY <4>3, <4>4, <4>10
        <5>2. b2 = 0
          BY <1>5, <4>7, <5>1
        <5>3. b % 2 = 0
          BY <4>8, <4>10
        <5>4. b = 0
          BY <4>9, <5>2, <5>3
        <5> QED BY <3>2, <4>10, <5>4
      <4>11. CASE d # 0 \/ a # 0
        <5>1. <<d, a>> # <<0, 0>>
          BY <4>11
        <5>2. g[<<d, a>>] = 2 * g[<<d \div 2, a2>>] + ((d + a) % 2)
          BY <1>5, <2>1, <4>6, <5>1
        <5>3. g[<<d, a>>] = 2 * b2 + (b % 2)
          BY <4>5, <4>7, <4>8, <5>2
        <5> QED BY <4>9, <5>3 DEF d
      <4> QED BY <4>10, <4>11
    <3> QED BY <3>1, <3>2
  <2> HIDE DEF I, J
  <2>2. \A a, b \in I : a + b <= k + 1 /\ f[<<a, b>>] \in J /\ a \in J => g[<<f[<<a, b>>], a>>] = b
    BY <2>1
  <2> QED BY <2>2
<1>8. Nat \subseteq Q
  <2> HIDE DEF Q
  <2> QED BY <1>6, <1>7, NatInductionSet
<1>9. m + n \in Q
  BY <1>8
<1>10. f[<<m, n>>] = c /\ c \in J /\ m \in J
  BY <1>1, <1>4 DEF c
<1>11. g[<<c, m>>] = n
  <2>1. f[<<m, n>>] \in J
    BY <1>10
  <2> HIDE DEF I, J
  <2>2. g[<<f[<<m, n>>], m>>] = n
    BY <1>2, <1>9, <1>10, <2>1
  <2> QED BY <1>10, <2>2
<1> QED BY <1>4, <1>5, <1>11 DEF c


-----------------------------------------------------------------------------
(* The time lock that takes k steps instead.                                 *)
Timelocks == [p : Primes, q : Primes, t : Times, key : Keys]
After(tl, k) == [tl EXCEPT !.t = k]

(* What the assumption says of a time lock.                                    *)
LEMMA TimelockFacts ==
    ASSUME NEW tl \in Timelocks
    PROVE  /\ tl.p \in Nat /\ tl.q \in Nat /\ Prime(tl.p) /\ Prime(tl.q) /\ tl.p > 2 /\ tl.q > 2
           /\ tl.t \in Nat /\ tl.key \in Keys
           /\ N(tl) \in Nat /\ N(tl) > 2
           /\ Phi(tl) \in Nat \ {0}
           /\ After(tl, tl.t) = tl
           /\ \A k \in Nat : N(After(tl, k)) = N(tl) /\ Phi(After(tl, k)) = Phi(tl) /\ After(tl, k).t = k
<1>1. tl.p \in Primes /\ tl.q \in Primes /\ tl.t \in Times /\ tl.key \in Keys
  BY DEF Timelocks
<1>2. \A p \in Primes : p \in Nat /\ p > 2 /\ Prime(p)
  <2>1. /\ Primes \subseteq Nat \ {0, 1, 2}
        /\ \A p \in Primes : \A d \in 2..(p - 1) : p % d # 0
    BY TimelockPuzzleAssumption DEF TimelockPuzzleAssumption
  <2>2. ASSUME NEW p \in Primes PROVE p \in Nat /\ p > 2 /\ p \in Nat \ {0, 1}
    BY <2>1
  <2>3. ASSUME NEW p \in Primes PROVE Prime(p)
    BY <2>1, <2>2, Zenon DEF Prime
  <2> QED BY <2>2, <2>3, Zenon
<1>3. tl.t \in Nat
  BY <1>1, TimelockPuzzleAssumption DEF TimelockPuzzleAssumption
<1>4. tl.p \in Nat /\ tl.q \in Nat /\ tl.p > 2 /\ tl.q > 2 /\ Prime(tl.p) /\ Prime(tl.q)
  BY <1>1, <1>2
<1>5. N(tl) \in Nat /\ N(tl) > 2
  <2>1. PICK p \in Nat, q \in Nat : p = tl.p /\ q = tl.q /\ p > 2 /\ q > 2
    BY <1>4
  <2>2. p * 3 <= p * q /\ p * q \in Nat
    BY <2>1, NatProduct
  <2> QED BY <2>1, <2>2 DEF N
<1>6. Phi(tl) \in Nat \ {0}
  <2>1. PICK p \in Nat, q \in Nat : p = tl.p - 1 /\ q = tl.q - 1 /\ p > 0 /\ q > 0
    BY <1>4
  <2>2. p * 1 <= p * q /\ p * q \in Nat /\ p * 1 = p
    BY <2>1, NatProduct
  <2> QED BY <2>1, <2>2 DEF Phi
<1>7. After(tl, tl.t) = tl
  BY DEF After, Timelocks
<1>8. ASSUME NEW k \in Nat PROVE N(After(tl, k)) = N(tl) /\ Phi(After(tl, k)) = Phi(tl) /\ After(tl, k).t = k
  <2>1. After(tl, k).p = tl.p /\ After(tl, k).q = tl.q /\ After(tl, k).t = k
    BY DEF After, Timelocks
  <2> QED BY <2>1 DEF N, Phi
<1> QED BY <1>1, <1>3, <1>4, <1>5, <1>6, <1>7, <1>8

(* The short cut through phi comes to 2^(2^k), reduced.                        *)
LEMMA ShortCut ==
    ASSUME NEW tl \in Timelocks, tl.p # tl.q, NEW k \in Nat
    PROVE  B(After(tl, k)) = Pow[Pow[k]] % N(tl)
<1>1. /\ Prime(tl.p) /\ Prime(tl.q) /\ tl.p > 2 /\ tl.q > 2 /\ tl.p \in Nat /\ tl.q \in Nat
      /\ N(tl) \in Nat \ {0} /\ Phi(tl) \in Nat \ {0}
      /\ N(After(tl, k)) = N(tl) /\ Phi(After(tl, k)) = Phi(tl) /\ After(tl, k).t = k
  BY TimelockFacts
<1>2. Divides(N(tl), Pow[Phi(tl)] - 1)
  <2>1. tl.p # 2 /\ tl.q # 2
    BY <1>1
  <2> QED BY <1>1, <2>1, Euler DEF N, Phi
<1>3. PICK e \in Nat : e = Pow[k]
  BY PowFacts
<1>4. E(After(tl, k)) = e % Phi(tl)
  BY <1>1, <1>3, ExpIsPow DEF E
<1>5. e % Phi(tl) \in Nat
  BY <1>1, DivMod
<1>6. B(After(tl, k)) = Pow[e % Phi(tl)] % N(tl)
  BY <1>1, <1>4, <1>5, ExpIsPow DEF B, A
<1>7. Pow[e] % N(tl) = Pow[e % Phi(tl)] % N(tl)
  BY <1>1, <1>2, ReducedExponent
<1> QED BY <1>3, <1>6, <1>7

(* A square is reduced alike whether or not its root was.                     *)
LEMMA ReducedSquare ==
    ASSUME NEW m \in Nat \ {0}, NEW a \in Nat
    PROVE  (a * a) % m = ((a % m) * (a % m)) % m
<1>1. PICK k \in Nat, r \in Nat : r = a % m /\ a = m * k + r
  BY DivMod
<1>2. a * a \in Nat /\ r * r \in Nat
  BY NatProduct
<1>3. a * a - r * r = (a - r) * (a + r)
  <2>1. (a - r) * (a + r) = (a - r) * a + (a - r) * r
    BY Ring
  <2>2. (a - r) * a = a * a - a * r
    BY Ring
  <2>3. (a - r) * r = r * a - r * r
    BY Ring
  <2>4. r * a = a * r /\ a * a \in Int /\ a * r \in Int /\ r * r \in Int
    BY Ring
  <2> QED BY <2>1, <2>2, <2>3, <2>4
<1>4. Divides(m, a - r)
  <2>1. m * k \in Int /\ a - r = m * k /\ k \in Int
    BY <1>1, Ring
  <2> QED BY <2>1 DEF Divides
<1>5. Divides(m, (a - r) * (a + r))
  <2>1. PICK u \in Int, v \in Int : u = a - r /\ v = a + r
    BY <1>1
  <2>2. Divides(m, u) /\ m \in Int
    BY <1>4, <2>1
  <2> QED BY <2>1, <2>2, DividesMultiple
<1>6. Divides(m, a * a - r * r)
  BY <1>3, <1>5
<1>7. (a * a) % m = (r * r) % m
  <2>1. PICK u \in Nat, v \in Nat : u = a * a /\ v = r * r
    BY <1>2
  <2> QED BY <1>6, <2>1, SameRemainder
<1> QED BY <1>1, <1>7

(* Each squaring takes the solver one step along what the short cut gives.     *)
LEMMA Squaring ==
    ASSUME NEW tl \in Timelocks, tl.p # tl.q
    PROVE  /\ B(After(tl, 0)) = A
           /\ \A k \in Nat : /\ B(After(tl, k)) \in Nat
                             /\ B(After(tl, k + 1)) = (B(After(tl, k)) * B(After(tl, k))) % N(tl)
<1>1. N(tl) \in Nat \ {0} /\ N(tl) > 2
  BY TimelockFacts
<1>2. B(After(tl, 0)) = A
  <2>1. Pow[0] = 1 /\ Pow[1] = 2
    <3>1. Pow[0 + 1] = 2 * Pow[0] /\ Pow[0] = 1
      BY PowFacts
    <3> QED BY <3>1
  <2>2. B(After(tl, 0)) = 2 % N(tl)
    BY <2>1, ShortCut
  <2>3. 2 % N(tl) = 2
    <3>1. 2 = N(tl) * 0 + 2
      BY <1>1
    <3> QED BY <1>1, <3>1, DivModUnique
  <2> QED BY <2>2, <2>3 DEF A
<1>3. ASSUME NEW k \in Nat
      PROVE  /\ B(After(tl, k)) \in Nat
             /\ B(After(tl, k + 1)) = (B(After(tl, k)) * B(After(tl, k))) % N(tl)
  <2>1. PICK e \in Nat : e = Pow[k] /\ Pow[k + 1] = e + e
    BY PowFacts
  <2>2. PICK a \in Nat : a = Pow[e] /\ Pow[e + e] = a * a
    BY PowAdd, PowFacts
  <2>3. B(After(tl, k)) = a % N(tl) /\ B(After(tl, k + 1)) = (a * a) % N(tl)
    BY <2>1, <2>2, ShortCut
  <2>4. a % N(tl) \in Nat
    BY <1>1, DivMod
  <2> QED BY <1>1, <2>3, <2>4, ReducedSquare
<1> QED BY <1>2, <1>3

(* The key comes back from the puzzle as big.Int has it.                      *)
LEMMA KeyRecovered ==
    ASSUME NEW tl \in Timelocks, tl.p # tl.q
    PROVE  Bytes(Xor(CkXOR(tl), B(tl))) = Bytes(Value(tl.key))
<1>1. tl.key \in Keys /\ tl.t \in Nat /\ After(tl, tl.t) = tl
  BY TimelockFacts
<1>2. B(tl) \in Nat
  BY <1>1, Squaring
<1>3. Value(tl.key) \in Nat
  <2>1. KeySize \in Nat
    BY TimelockPuzzleAssumption DEF TimelockPuzzleAssumption
  <2> QED BY <1>1, <2>1, ValueFacts
<1>4. Xor(Xor(B(tl), Value(tl.key)), B(tl)) = Value(tl.key)
  BY <1>2, <1>3, XorInvolution
<1> QED BY <1>4 DEF CkXOR


(* What holds throughout.  While a puzzle is being solved the solver has got to *)
(* what the short cut would give for as many steps; the message is encrypted     *)
(* under the answer, or under the key by the asymmetric ciphers; what they read   *)
(* in the end is what Solve found.                                             *)
PuzzleInv ==
    /\ scheme \in {"rc5", "rc6", "aes", "sha", "rsa", "ecies"}
    /\ timelock \in Timelocks
    /\ timelock.p # timelock.q
    /\ scheme = "rsa" => timelock.key[1] # 0
    /\ phase \in {"setup", "refused", "solving", "solved"}
    /\ phase = "setup" => steps = 0
    /\ phase \in {"solving", "solved"} =>
          /\ puzzle = SetupTimelockPuzzle(timelock).puzzle
          /\ answer = SetupTimelockPuzzle(timelock).answer
          /\ steps \in 0..timelock.t
          /\ x = IF scheme = "sha" THEN Digest(timelock.key, steps) ELSE B(After(timelock, steps))
          /\ ciphertext = IF scheme \in {"rsa", "ecies"} THEN timelock.key ELSE answer
          /\ RightSize(ciphertext)
    /\ phase = "solved" =>
          /\ steps = timelock.t
          /\ solution = Solve
          /\ outcome = IF ~RightSize(solution) THEN "error"
                       ELSE IF solution = ciphertext THEN "message" ELSE "garbage"

(* Creating a puzzle, in all schemes.                                          *)
LEMMA EncryptPreserves ==
    ASSUME PuzzleInv, NEW key, Encrypt(SetupTimelockPuzzle(timelock), key),
           key = IF scheme \in {"rsa", "ecies"} THEN timelock.key ELSE SetupTimelockPuzzle(timelock).answer
    PROVE  PuzzleInv'
<1>1. /\ phase = "setup" /\ steps = 0 /\ steps' = 0
      /\ scheme' = scheme /\ timelock' = timelock
      /\ puzzle' = SetupTimelockPuzzle(timelock).puzzle
      /\ answer' = SetupTimelockPuzzle(timelock).answer
  BY DEF Encrypt, PuzzleInv
<1>2. SetupTimelockPuzzle(timelock)' = SetupTimelockPuzzle(timelock)
  BY <1>1 DEF SetupTimelockPuzzle
<1>3. CASE RightSize(key) /\ message = "fits"
  <2>1. /\ ciphertext' = key /\ phase' = "solving"
        /\ x' = IF scheme = "sha" THEN Digest(timelock.key, 0) ELSE A
    BY <1>3 DEF Encrypt
  <2>2. RightSize(ciphertext)'
    BY <1>1, <1>3, <2>1 DEF RightSize
  <2>3. 0 \in 0..timelock.t
    BY TimelockFacts DEF PuzzleInv
  <2>4. A = B(After(timelock, 0))
    BY Squaring DEF PuzzleInv
  <2>5. /\ puzzle' = SetupTimelockPuzzle(timelock)'.puzzle
        /\ answer' = SetupTimelockPuzzle(timelock)'.answer
    BY <1>1, <1>2
  <2>6. x' = IF scheme' = "sha" THEN Digest(timelock'.key, steps') ELSE B(After(timelock', steps'))
    BY <1>1, <2>1, <2>4
  <2>7. ciphertext' = IF scheme' \in {"rsa", "ecies"} THEN timelock'.key ELSE answer'
    BY <1>1, <2>1
  <2> QED BY <1>1, <2>1, <2>2, <2>3, <2>5, <2>6, <2>7 DEF PuzzleInv
<1>4. CASE ~(RightSize(key) /\ message = "fits")
  <2>1. phase' = "refused"
    BY <1>4 DEF Encrypt
  <2> QED BY <1>1, <2>1 DEF PuzzleInv
<1> QED BY <1>3, <1>4


(* One squaring, or one hash.                                                *)
LEMMA IteratePreserves ==
    ASSUME PuzzleInv, Iterate
    PROVE  PuzzleInv'
<1>1. /\ phase = "solving" /\ phase' = phase /\ steps < puzzle.t /\ steps' = steps + 1 /\ x' = Step
      /\ scheme' = scheme /\ timelock' = timelock /\ puzzle' = puzzle /\ answer' = answer
      /\ ciphertext' = ciphertext
  BY DEF Iterate
<1>2. /\ timelock \in Timelocks /\ timelock.p # timelock.q /\ steps \in 0..timelock.t
      /\ puzzle = SetupTimelockPuzzle(timelock).puzzle
      /\ x = IF scheme = "sha" THEN Digest(timelock.key, steps) ELSE B(After(timelock, steps))
  BY <1>1 DEF PuzzleInv
<1>3. SetupTimelockPuzzle(timelock)' = SetupTimelockPuzzle(timelock)
  BY <1>1 DEF SetupTimelockPuzzle
<1>4. puzzle.t = timelock.t /\ (scheme # "sha" => puzzle.n = N(timelock))
  BY <1>2 DEF SetupTimelockPuzzle, SetupHash, SetupRSW
<1>5. steps \in Nat /\ steps' \in 0..timelock.t
  <2>1. timelock.t \in Nat
    BY <1>2, TimelockFacts
  <2> QED BY <1>1, <1>2, <1>4, <2>1
<1>6. x' = IF scheme = "sha" THEN Digest(timelock.key, steps + 1) ELSE B(After(timelock, steps + 1))
  <2>1. CASE scheme = "sha"
    <3>1. x.seed = timelock.key /\ x.hashes = steps
      BY <1>2, <2>1 DEF Digest
    <3> QED BY <1>1, <2>1, <3>1 DEF Step
  <2>2. CASE scheme # "sha"
    <3>1. x = B(After(timelock, steps)) /\ x' = (x * x) % N(timelock)
      BY <1>1, <1>2, <1>4, <2>2 DEF Step
    <3> QED BY <1>2, <1>5, <2>2, <3>1, Squaring
  <2> QED BY <2>1, <2>2
<1>7. RightSize(ciphertext)' <=> RightSize(ciphertext)
  BY <1>1 DEF RightSize
<1> QED BY <1>1, <1>3, <1>5, <1>6, <1>7 DEF PuzzleInv

(* The end of solving, in all schemes.                                        *)
LEMMA DecryptPreserves ==
    ASSUME PuzzleInv, Decrypt
    PROVE  PuzzleInv'
<1>1. /\ phase = "solving" /\ phase' = "solved" /\ steps = puzzle.t /\ solution' = Solve
      /\ scheme' = scheme /\ timelock' = timelock /\ puzzle' = puzzle /\ answer' = answer
      /\ ciphertext' = ciphertext /\ x' = x /\ steps' = steps
      /\ outcome' = IF ~RightSize(Solve) THEN "error"
                    ELSE IF Solve = ciphertext THEN "message" ELSE "garbage"
  BY DEF Decrypt
<1>2. puzzle.t = timelock.t
  BY <1>1 DEF PuzzleInv, SetupTimelockPuzzle, SetupHash, SetupRSW
<1>3. SetupTimelockPuzzle(timelock)' = SetupTimelockPuzzle(timelock)
  BY <1>1 DEF SetupTimelockPuzzle
<1>4. Solve' = Solve
  BY <1>1 DEF Solve
<1>5. /\ RightSize(ciphertext)' <=> RightSize(ciphertext)
      /\ RightSize(solution)' <=> RightSize(Solve)
  BY <1>1 DEF RightSize
<1>6. /\ phase' \in {"solving", "solved"} /\ steps' = timelock'.t /\ solution' = Solve'
      /\ outcome' = IF ~RightSize(solution)' THEN "error"
                    ELSE IF solution' = ciphertext' THEN "message" ELSE "garbage"
  BY <1>1, <1>2, <1>4, <1>5
<1> QED BY <1>1, <1>3, <1>5, <1>6 DEF PuzzleInv

(* Each operation keeps the invariant.                                         *)
LEMMA PuzzleInvInductive ==
    ASSUME PuzzleInv, [Next]_vars
    PROVE  PuzzleInv'
<1>1. scheme \in {"rc5", "rc6", "aes", "sha", "rsa", "ecies"}
  BY DEF PuzzleInv
<1>2. CASE CreatePuzzleRC5
  <2>1. scheme = "rc5" /\ Encrypt(SetupTimelockPuzzle(timelock), SetupTimelockPuzzle(timelock).answer)
    BY <1>2 DEF CreatePuzzleRC5
  <2> QED BY <2>1, EncryptPreserves
<1>3. CASE CreatePuzzleRC6
  <2>1. scheme = "rc6" /\ Encrypt(SetupTimelockPuzzle(timelock), SetupTimelockPuzzle(timelock).answer)
    BY <1>3 DEF CreatePuzzleRC6
  <2> QED BY <2>1, EncryptPreserves
<1>4. CASE CreatePuzzleAES
  <2>1. scheme \in {"aes", "sha"} /\ Encrypt(SetupTimelockPuzzle(timelock), SetupTimelockPuzzle(timelock).answer)
    BY <1>4 DEF CreatePuzzleAES
  <2> QED BY <2>1, EncryptPreserves
<1>5. CASE CreatePuzzleRSA
  <2>1. scheme = "rsa" /\ Encrypt(SetupTimelockPuzzle(timelock), timelock.key)
    BY <1>5 DEF CreatePuzzleRSA
  <2> QED BY <2>1, EncryptPreserves
<1>6. CASE CreatePuzzleECIES
  <2>1. scheme = "ecies" /\ Encrypt(SetupTimelockPuzzle(timelock), timelock.key)
    BY <1>6 DEF CreatePuzzleECIES
  <2> QED BY <2>1, EncryptPreserves
<1>7. CASE Iterate
  BY <1>7, IteratePreserves
<1>8. CASE SolvePuzzleRC5 \/ SolvePuzzleRC6 \/ SolvePuzzleAES \/ SolvePuzzleRSA \/ SolvePuzzleECIES
  BY <1>8, DecryptPreserves DEF SolvePuzzleRC5, SolvePuzzleRC6, SolvePuzzleAES, SolvePuzzleRSA, SolvePuzzleECIES
<1>9. CASE UNCHANGED vars
  <2>1. /\ scheme' = scheme /\ timelock' = timelock /\ phase' = phase /\ puzzle' = puzzle
        /\ answer' = answer /\ ciphertext' = ciphertext /\ x' = x /\ steps' = steps
        /\ solution' = solution /\ outcome' = outcome
    BY <1>9 DEF vars
  <2>2. SetupTimelockPuzzle(timelock)' = SetupTimelockPuzzle(timelock) /\ Solve' = Solve
    BY <2>1 DEF SetupTimelockPuzzle, Solve
  <2>3. (RightSize(ciphertext)' <=> RightSize(ciphertext)) /\ (RightSize(solution)' <=> RightSize(solution))
    BY <2>1 DEF RightSize
  <2> QED BY <2>1, <2>2, <2>3 DEF PuzzleInv
<1> QED BY <1>2, <1>3, <1>4, <1>5, <1>6, <1>7, <1>8, <1>9 DEF Next

LEMMA PuzzleInvHolds == Spec => []PuzzleInv
<1>1. Init => PuzzleInv
  BY DEF Init, PuzzleInv, Timelocks
<1>2. PuzzleInv /\ [Next]_vars => PuzzleInv'
  BY PuzzleInvInductive
<1> QED BY <1>1, <1>2, PTL DEF Spec

(* What Solve returns at the end is what SetupTimelockPuzzle returned.          *)
LEMMA SolveIsAnswer ==
    ASSUME PuzzleInv, phase = "solved"
    PROVE  /\ solution = answer
           /\ scheme # "sha" => answer = Bytes(Value(timelock.key))
<1>1. /\ timelock \in Timelocks /\ timelock.p # timelock.q /\ steps = timelock.t /\ solution = Solve
      /\ puzzle = SetupTimelockPuzzle(timelock).puzzle
      /\ answer = SetupTimelockPuzzle(timelock).answer
      /\ x = IF scheme = "sha" THEN Digest(timelock.key, steps) ELSE B(After(timelock, steps))
  BY DEF PuzzleInv
<1>2. CASE scheme = "sha"
  BY <1>1, <1>2 DEF Solve, SetupTimelockPuzzle, SetupHash
<1>3. CASE scheme # "sha"
  <2>1. puzzle.ck = CkXOR(timelock) /\ answer = Bytes(Xor(CkXOR(timelock), B(timelock)))
    BY <1>1, <1>3 DEF SetupTimelockPuzzle, SetupRSW
  <2>2. x = B(timelock)
    BY <1>1, <1>3, TimelockFacts
  <2>3. solution = answer
    BY <1>1, <1>3, <2>1, <2>2 DEF Solve
  <2> QED BY <1>1, <2>1, <2>3, KeyRecovered
<1> QED BY <1>2, <1>3

(* Solve, of PuzzleRSW and of HashTimelock, returns the same answer that         *)
(* SetupTimelockPuzzle returned, for all primes, numbers of steps and keys:      *)
(* t squarings modulo N come to the exponentiations with phi.                  *)
THEOREM SolverFindsAnswer == Spec => []SameAnswer
<1>1. PuzzleInv => SameAnswer
  BY SolveIsAnswer DEF SameAnswer
<1> QED BY <1>1, PuzzleInvHolds, PTL

(* SolvePuzzleRC5, RC6, AES, RSA and ECIES read the message of every puzzle that *)
(* could be made, other than an ECIES puzzle whose key starts with a zero byte.   *)
THEOREM MessagesRecovered == Spec => []MessageRecovered
<1>1. PuzzleInv => MessageRecovered
  <2>1. SUFFICES ASSUME PuzzleInv, phase = "solved", ~(scheme = "ecies" /\ timelock.key[1] = 0)
                 PROVE  outcome = "message"
    BY DEF MessageRecovered
  <2>2. /\ ciphertext = IF scheme \in {"rsa", "ecies"} THEN timelock.key ELSE answer
        /\ RightSize(ciphertext)
        /\ outcome = IF ~RightSize(solution) THEN "error"
                     ELSE IF solution = ciphertext THEN "message" ELSE "garbage"
    BY <2>1 DEF PuzzleInv
  <2>3. solution = ciphertext
    <3>1. CASE scheme \in {"rsa", "ecies"}
      <4>1. timelock.key \in Keys /\ timelock.key[1] # 0
        BY <2>1, <3>1, TimelockFacts DEF PuzzleInv
      <4>2. Bytes(Value(timelock.key)) = timelock.key
        BY <4>1, BytesOfValue
      <4> QED BY <2>1, <2>2, <3>1, <4>2, SolveIsAnswer
    <3>2. CASE scheme \notin {"rsa", "ecies"}
      BY <2>1, <2>2, <3>2, SolveIsAnswer
    <3> QED BY <3>1, <3>2
  <2> QED BY <2>2, <2>3
<1> QED BY <1>1, PuzzleInvHolds, PTL
=============================================================================
