----------------------------- MODULE Arithmetic -----------------------------
(***************************************************************************)
(* Facts about the naturals that the proofs share: induction, division     *)
(* with remainder, powers of two, and sums.                                *)
(***************************************************************************)
EXTENDS Summation, FiniteSetTheorems, WellFoundedInduction, TLAPS

(* Induction over the naturals, for a set: the least number outside it has a  *)
(* predecessor inside.                                                        *)
LEMMA SetInduction ==
    ASSUME NEW S, 0 \in S, \A n \in Nat : n \in S => n + 1 \in S
    PROVE  Nat \subseteq S
<1> DEFINE R == OpToRel(<, Nat)
           T == Nat \ S
<1>1. IsWellFoundedOn(R, Nat)
  BY NatLessThanWellFounded, Zenon
<1>2. SUFFICES ASSUME T # {} PROVE FALSE
  OBVIOUS
<1>3. PICK x \in T : \A y \in T : ~(<<y, x>> \in R)
  <2> HIDE DEF R
  <2> QED BY <1>1, <1>2, WFMin
<1>4. \A y \in Nat : y < x => <<y, x>> \in R
  BY DEF OpToRel
<1>5. x \in Nat /\ x # 0 /\ x - 1 \in Nat /\ x - 1 < x /\ x - 1 + 1 = x
  OBVIOUS
<1> QED BY <1>3, <1>4, <1>5

(* A function given by its first value and its steps. *)
Recurs(T, start, step) == start \in T /\ step \in [Nat \X T -> T]

LEMMA Recursion ==
    ASSUME NEW T, NEW start, NEW step, Recurs(T, start, step)
    PROVE  \E s \in [Nat -> T] : s[0] = start /\ \A n \in Nat : s[n + 1] = step[<<n, s[n]>>]
<1> DEFINE Upto(g, m) == /\ g \in [0..m -> T] /\ g[0] = start
                         /\ \A n \in 0..(m - 1) : g[n + 1] = step[<<n, g[n]>>]
           S == {m \in Nat : \E g : Upto(g, m)}
<1>0. start \in T /\ step \in [Nat \X T -> T]
  BY DEF Recurs
<1>1. 0 \in S
  <2> DEFINE g == [n \in 0..0 |-> start]
  <2>1. Upto(g, 0)
    BY <1>0
  <2> QED BY <2>1
<1>2. ASSUME NEW m \in Nat, m \in S PROVE m + 1 \in S
  <2>1. PICK g : Upto(g, m)
    BY <1>2
  <2>2. g \in [0..m -> T] /\ g[0] = start /\ \A n \in 0..(m - 1) : g[n + 1] = step[<<n, g[n]>>]
    BY <2>1
  <2> DEFINE f == [n \in 0..(m + 1) |-> IF n = m + 1 THEN step[<<m, g[m]>>] ELSE g[n]]
  <2>3. g[m] \in T
    BY <2>2
  <2>4. <<m, g[m]>> \in Nat \X T
    BY <2>3
  <2>5. step[<<m, g[m]>>] \in T
    BY <1>0, <2>4
  <2>6. f \in [0..(m + 1) -> T]
    BY <2>2, <2>5
  <2>7. f[m + 1] = step[<<m, g[m]>>] /\ \A n \in 0..m : f[n] = g[n]
    OBVIOUS
  <2> HIDE DEF f
  <2>8. ASSUME NEW n \in 0..((m + 1) - 1) PROVE f[n + 1] = step[<<n, f[n]>>]
    <3>1. CASE n = m
      BY <2>7, <3>1
    <3>2. CASE n # m
      <4>1. n \in 0..(m - 1) /\ n + 1 \in 0..m /\ n \in 0..m
        BY <3>2
      <4> QED BY <2>2, <2>7, <4>1
    <3> QED BY <3>1, <3>2
  <2>9. f[0] = start
    BY <2>2, <2>7
  <2>10. Upto(f, m + 1)
    BY <2>6, <2>8, <2>9
  <2> QED BY <2>10
<1> HIDE DEF S
<1>3. Nat \subseteq S
  BY <1>1, <1>2, SetInduction
<1> DEFINE part(m) == CHOOSE g : Upto(g, m)
<1>4. ASSUME NEW m \in Nat PROVE Upto(part(m), m)
  <2>1. \E g : Upto(g, m)
    BY <1>3 DEF S
  <2> HIDE DEF Upto
  <2> QED BY <2>1
<1> HIDE DEF part
<1>5. ASSUME NEW m \in Nat PROVE part(m + 1)[m] = part(m)[m]
  <2> DEFINE E == {n \in Nat : n <= m => part(m + 1)[n] = part(m)[n]}
  <2>1. Upto(part(m), m) /\ Upto(part(m + 1), m + 1)
    BY <1>4
  <2>2. 0 \in E
    BY <2>1
  <2>3. ASSUME NEW n \in Nat, n \in E PROVE n + 1 \in E
    <3> SUFFICES ASSUME n + 1 <= m PROVE part(m + 1)[n + 1] = part(m)[n + 1]
      OBVIOUS
    <3>1. part(m + 1)[n] = part(m)[n]
      BY <2>3
    <3>2. part(m)[n + 1] = step[<<n, part(m)[n]>>] /\ part(m + 1)[n + 1] = step[<<n, part(m + 1)[n]>>]
      BY <2>1
    <3> QED BY <3>1, <3>2
  <2> HIDE DEF E
  <2>4. m \in E
    BY <2>2, <2>3, SetInduction
  <2> QED BY <2>4 DEF E
<1> DEFINE s == [m \in Nat |-> part(m)[m]]
<1>6. s \in [Nat -> T]
  <2>1. ASSUME NEW m \in Nat PROVE part(m)[m] \in T
    BY <1>4
  <2> QED BY <2>1
<1>7. s[0] = start
  BY <1>4
<1>8. ASSUME NEW n \in Nat PROVE s[n + 1] = step[<<n, s[n]>>]
  <2>1. part(n + 1)[n + 1] = step[<<n, part(n + 1)[n]>>]
    BY <1>4
  <2>2. part(n + 1)[n] = part(n)[n]
    BY <1>5
  <2>3. s[n + 1] = part(n + 1)[n + 1] /\ s[n] = part(n)[n]
    OBVIOUS
  <2> QED BY <2>1, <2>2, <2>3
<1> HIDE DEF s
<1> QED BY <1>6, <1>7, <1>8

(* The same up to N, as the recursive functions of the models are defined. *)
LEMMA RecursionUpto ==
    ASSUME NEW T, NEW start, NEW step, NEW N \in Nat, Recurs(T, start, step)
    PROVE  \E p \in [0..N -> T] : p[0] = start /\ \A n \in 1..N : p[n] = step[<<n - 1, p[n - 1]>>]
<1>2. PICK s \in [Nat -> T] : s[0] = start /\ \A n \in Nat : s[n + 1] = step[<<n, s[n]>>]
  BY Recursion
<1> DEFINE p == [n \in 0..N |-> s[n]]
<1>3. p \in [0..N -> T] /\ p[0] = start
  BY <1>2
<1>4. ASSUME NEW n \in 1..N PROVE p[n] = step[<<n - 1, p[n - 1]>>]
  <2>1. n - 1 \in Nat /\ (n - 1) + 1 = n /\ n \in 0..N /\ n - 1 \in 0..N
    OBVIOUS
  <2>2. s[n] = step[<<n - 1, s[n - 1]>>]
    BY <1>2, <2>1
  <2> QED BY <2>1, <2>2
<1> HIDE DEF p
<1> QED BY <1>3, <1>4

-----------------------------------------------------------------------------
(* Products, quotients and remainders *)

LEMMA ProductMonotone ==
    ASSUME NEW a \in Nat, NEW b \in Nat, NEW x \in Nat, NEW y \in Nat, a <= x, b <= y
    PROVE  a * b <= x * y
<1>1. a * b <= x * b
  BY SMT
<1>2. x * b <= x * y
  BY SMT
<1>3. a * b \in Nat /\ x * b \in Nat /\ x * y \in Nat
  BY SMT
<1> QED BY <1>1, <1>2, <1>3, SMT

LEMMA DivTimes ==
    ASSUME NEW x \in Nat, NEW m \in Nat, m > 0
    PROVE  /\ x \div m \in Nat /\ (x \div m) * m <= x
           /\ x % m \in Nat /\ x % m <= m - 1 /\ x % m <= x
  BY SMT

LEMMA Divided ==
    ASSUME NEW a \in Nat, NEW q \in Nat, q > 0
    PROVE  a \div q \in Nat /\ a % q \in 0..(q - 1) /\ a = (a \div q) * q + (a % q)
  BY SMT

LEMMA ModUnique ==
    ASSUME NEW q \in Nat, q > 0, NEW k \in Nat, NEW r \in 0..(q - 1)
    PROVE  (k * q + r) % q = r /\ (k * q + r) \div q = k
<1> DEFINE a == k * q + r
           d == a \div q
           s == a % q
<1>1. a \in Nat
  BY SMT
<1> HIDE DEF a
<1>2. d \in Nat /\ s \in 0..(q - 1) /\ a = d * q + s
  BY <1>1, Divided
<1>3. a = k * q + r
  BY DEF a
<1> HIDE DEF d, s
<1>4. ASSUME NEW m \in Nat, NEW n \in Nat, m < n PROVE m * q + q <= n * q /\ m * q \in Nat /\ n * q \in Nat
  <2>1. (m + 1) * q <= n * q /\ (m + 1) * q = m * q + q /\ m * q \in Nat /\ n * q \in Nat
    BY <1>4, ProductMonotone, SMT
  <2> QED BY <2>1
<1>5. ~ (d < k) /\ ~ (k < d)
  BY <1>2, <1>3, <1>4
<1>6. d = k
  BY <1>2, <1>5
<1>7. k * q \in Nat
  BY SMT
<1>8. s = r
  BY <1>2, <1>3, <1>6, <1>7
<1> QED BY <1>6, <1>8 DEF d, s, a

LEMMA ModSmall == ASSUME NEW q \in Nat, NEW a \in 0..(q - 1) PROVE a % q = a
<1>1. 0 * q + a = a /\ q > 0
  OBVIOUS
<1> QED BY <1>1, ModUnique

LEMMA ModAdd ==
    ASSUME NEW a \in Nat, NEW b \in Nat, NEW q \in Nat, q > 0
    PROVE  ((a % q) + b) % q = (a + b) % q
<1> DEFINE d == a \div q
           r == a % q
           e == (r + b) \div q
           s == (r + b) % q
<1>1. d \in Nat /\ r \in 0..(q - 1) /\ a = d * q + r
  BY Divided
<1> HIDE DEF d, r
<1>2. r + b \in Nat
  BY <1>1
<1>3. e \in Nat /\ s \in 0..(q - 1) /\ r + b = e * q + s
  BY <1>2, Divided
<1> HIDE DEF e, s
<1>4. d + e \in Nat /\ (d + e) * q = d * q + e * q /\ d * q \in Nat /\ e * q \in Nat
  BY <1>1, <1>3, SMT
<1>5. a + b = (d + e) * q + s
  BY <1>1, <1>3, <1>4
<1>6. (a + b) % q = s
  BY <1>3, <1>4, <1>5, ModUnique
<1> QED BY <1>6 DEF s, r

(* A word that wraps keeps its remainder modulo a divisor of the word size. *)
LEMMA ModOfMultiple ==
    ASSUME NEW a \in Nat, NEW w \in Nat, NEW q \in Nat, q > 0, w > 0, w % q = 0
    PROVE  (a % w) % q = a % q
<1> DEFINE d == a \div w
           r == a % w
           c == w \div q
           e == r \div q
           s == r % q
<1>1. d \in Nat /\ r \in 0..(w - 1) /\ a = d * w + r
  BY Divided
<1>2. c \in Nat /\ w = c * q
  <2>1. c \in Nat /\ w = c * q + 0
    BY Divided
  <2>2. c * q \in Nat
    BY <2>1, SMT
  <2> QED BY <2>1, <2>2
<1> HIDE DEF d, r, c
<1>3. e \in Nat /\ s \in 0..(q - 1) /\ r = e * q + s
  BY <1>1, Divided
<1> HIDE DEF e, s
<1>4. /\ d * c + e \in Nat /\ (d * c + e) * q = d * w + e * q
      /\ d * w \in Nat /\ e * q \in Nat
  BY <1>1, <1>2, <1>3, SMT
<1>5. a = (d * c + e) * q + s
  BY <1>1, <1>3, <1>4
<1>6. a % q = s
  BY <1>3, <1>4, <1>5, ModUnique
<1> QED BY <1>6 DEF s, r

LEMMA ProductsAreNat == \A x, y \in Nat : x * y \in Nat
BY SMT

(* The remainder of a sum, from the remainders of its parts. *)
LEMMA ModSum ==
    ASSUME NEW a \in Nat, NEW b \in Nat, NEW q \in Nat, q > 0
    PROVE  ((a % q) + (b % q)) % q = (a + b) % q
<1>1. a % q \in Nat /\ b % q \in Nat
  BY Divided
<1>2. ((a % q) + (b % q)) % q = (a + (b % q)) % q
  BY <1>1, ModAdd
<1>3. ((b % q) + a) % q = (b + a) % q
  BY ModAdd
<1>4. a + (b % q) = (b % q) + a /\ b + a = a + b
  BY <1>1
<1> QED BY <1>2, <1>3, <1>4

LEMMA ModProduct ==
    ASSUME NEW a \in Nat, NEW m \in Nat, NEW q \in Nat, q > 0
    PROVE  ((a % q) * m) % q = (a * m) % q
<1> DEFINE d == a \div q
           r == a % q
           x == (d * m) * q
           y == r * m
<1>1. d \in Nat /\ r \in Nat /\ a = d * q + r
  BY Divided
<1> HIDE DEF d, r
<1>2. d * m \in Nat /\ a * m = x + y /\ x \in Nat /\ y \in Nat
  BY <1>1, SMT
<1>3. x % q = 0
  <2> DEFINE k == d * m
  <2> HIDE DEF k
  <2>1. k \in Nat /\ x = k * q /\ k * q \in Nat
    BY <1>2 DEF k
  <2>2. (k * q + 0) % q = 0
    BY <2>1, ModUnique
  <2>3. k * q + 0 = k * q
    BY <2>1
  <2> QED BY <2>1, <2>2, <2>3, Zenon
<1> HIDE DEF x, y
<1>4. ((x % q) + y) % q = (x + y) % q
  BY <1>2, ModAdd
<1>5. y % q = (a * m) % q
  BY <1>2, <1>3, <1>4
<1> QED BY <1>5 DEF y, r

-----------------------------------------------------------------------------
(* Remainders of integers *)

LEMMA IntDivided ==
    ASSUME NEW a \in Int, NEW q \in Nat, q > 0
    PROVE  a \div q \in Int /\ a % q \in 0..(q - 1) /\ a = (a \div q) * q + (a % q)
  BY SMT

LEMMA IntModUnique ==
    ASSUME NEW q \in Nat, q > 0, NEW k \in Int, NEW r \in 0..(q - 1)
    PROVE  (k * q + r) % q = r /\ (k * q + r) \div q = k
<1> DEFINE a == k * q + r
           d == a \div q
           s == a % q
<1>1. a \in Int /\ k * q \in Int
  BY SMT
<1>2. a = k * q + r
  BY DEF a
<1> HIDE DEF a
<1>3. d \in Int /\ s \in 0..(q - 1) /\ a = d * q + s
  BY <1>1, IntDivided
<1> HIDE DEF d, s
<1>4. ASSUME NEW m \in Int, NEW n \in Int, m < n PROVE m * q + q <= n * q /\ m * q \in Int /\ n * q \in Int
  <2> DEFINE e == (n - m) - 1
  <2>1. e \in Nat /\ n = (m + 1) + e
    BY <1>4
  <2> HIDE DEF e
  <2>2. e * q \in Nat /\ n * q = (m * q + q) + e * q /\ m * q \in Int
    BY <2>1, SMT
  <2> QED BY <2>2
<1>5. ~ (d < k) /\ ~ (k < d)
  BY <1>1, <1>2, <1>3, <1>4
<1>6. d = k
  BY <1>3, <1>5
<1>7. s = r
  BY <1>1, <1>2, <1>3, <1>6
<1> QED BY <1>6, <1>7 DEF d, s, a

LEMMA IntModShift ==
    ASSUME NEW a \in Int, NEW k \in Int, NEW q \in Nat, q > 0
    PROVE  (a + k * q) % q = a % q
<1> DEFINE d == a \div q
           r == a % q
<1>1. d \in Int /\ r \in 0..(q - 1) /\ a = d * q + r
  BY IntDivided
<1> HIDE DEF d, r
<1>2. d + k \in Int /\ (d + k) * q = d * q + k * q /\ d * q \in Int /\ k * q \in Int
  BY <1>1, SMT
<1>3. a + k * q = (d + k) * q + r
  BY <1>1, <1>2
<1>4. ((d + k) * q + r) % q = r
  BY <1>1, <1>2, IntModUnique
<1> QED BY <1>3, <1>4 DEF r

(* Numbers with one remainder differ by a multiple of the modulus. *)
LEMMA Congruent ==
    ASSUME NEW a \in Int, NEW b \in Int, NEW q \in Nat, q > 0, a % q = b % q
    PROVE  \E k \in Int : a = b + k * q
<1> DEFINE d == a \div q
           e == b \div q
           r == a % q
<1>1. d \in Int /\ r \in 0..(q - 1) /\ a = d * q + r
  BY IntDivided
<1>2. e \in Int /\ b = e * q + r
  BY IntDivided
<1> HIDE DEF d, e, r
<1>3. d - e \in Int /\ (d - e) * q = d * q - e * q /\ d * q \in Int /\ e * q \in Int
  BY <1>1, <1>2, SMT
<1>4. a = b + (d - e) * q
  BY <1>1, <1>2, <1>3
<1> QED BY <1>3, <1>4

Same(a, b, q) == a \in Int /\ b \in Int /\ q \in Nat /\ q > 0 /\ a % q = b % q

LEMMA SameSum ==
    ASSUME NEW a, NEW b, NEW c, NEW d, NEW q, Same(a, b, q), Same(c, d, q) PROVE Same(a + c, b + d, q)
<1>0. /\ a \in Int /\ b \in Int /\ c \in Int /\ d \in Int /\ q \in Nat /\ q > 0
      /\ a % q = b % q /\ c % q = d % q
  BY DEF Same
<1>1. PICK k \in Int : a = b + k * q
  BY <1>0, Congruent
<1>2. PICK m \in Int : c = d + m * q
  BY <1>0, Congruent
<1>3. k + m \in Int /\ (k + m) * q = k * q + m * q /\ k * q \in Int /\ m * q \in Int
  BY <1>0, SMT
<1>4. a + c = (b + d) + (k + m) * q /\ b + d \in Int /\ a + c \in Int
  BY <1>0, <1>1, <1>2, <1>3
<1> HIDE <1>1, <1>2
<1> DEFINE x == b + d
           n == k + m
<1>5. x \in Int /\ n \in Int /\ a + c = x + n * q
  BY <1>3, <1>4
<1> HIDE DEF x, n
<1>6. (x + n * q) % q = x % q
  BY <1>0, <1>5, IntModShift
<1>7. (a + c) % q = (b + d) % q
  BY <1>5, <1>6 DEF x
<1> QED BY <1>0, <1>4, <1>7 DEF Same

LEMMA SameProduct ==
    ASSUME NEW a, NEW b, NEW c, NEW d, NEW q, Same(a, b, q), Same(c, d, q) PROVE Same(a * c, b * d, q)
<1>0. /\ a \in Int /\ b \in Int /\ c \in Int /\ d \in Int /\ q \in Nat /\ q > 0
      /\ a % q = b % q /\ c % q = d % q
  BY DEF Same
<1>1. PICK k \in Int : a = b + k * q
  BY <1>0, Congruent
<1>2. PICK m \in Int : c = d + m * q
  BY <1>0, Congruent
<1> DEFINE n == (b * m + k * d) + k * (m * q)
<1>3. n \in Int /\ b * d \in Int /\ a * c \in Int /\ a * c = b * d + n * q
  BY <1>0, <1>1, <1>2, SMT
<1> HIDE DEF n
<1> HIDE <1>1, <1>2
<1>4. (a * c) % q = (b * d) % q
  BY <1>0, <1>3, IntModShift
<1> QED BY <1>0, <1>3, <1>4 DEF Same

LEMMA ModTwice ==
    ASSUME NEW a \in Int, NEW q \in Nat, q > 0
    PROVE  a % q \in 0..(q - 1) /\ (a % q) % q = a % q
<1>1. a % q \in 0..(q - 1)
  BY IntDivided
<1> QED BY <1>1, ModSmall

(* Reduction modulo a multiple of q first. *)
LEMMA ModOfProduct ==
    ASSUME NEW a \in Int, NEW c \in Nat, c > 0, NEW q \in Nat, q > 0
    PROVE  (a % (c * q)) % q = a % q
<1> DEFINE w == c * q
           d == a \div w
           r == a % w
<1>1. w \in Nat /\ w > 0
  BY SMT
<1>2. w = c * q
  OBVIOUS
<1> HIDE DEF w
<1>3. d \in Int /\ r \in 0..(w - 1) /\ a = d * w + r
  BY <1>1, IntDivided
<1> HIDE DEF d, r
<1> DEFINE k == d * c
<1>4. k \in Int /\ k * q = d * w /\ d * w \in Int
  BY <1>1, <1>2, <1>3, SMT
<1> HIDE DEF k
<1>5. a = r + k * q /\ r \in Int
  BY <1>1, <1>3, <1>4
<1>6. (r + k * q) % q = r % q
  BY <1>4, <1>5, IntModShift
<1> QED BY <1>5, <1>6 DEF r, w

LEMMA ProductsAreInt == \A x, y \in Int : x * y \in Int
BY SMT

LEMMA SameOfMod == ASSUME NEW a \in Int, NEW q \in Nat, q > 0 PROVE Same(a % q, a, q) /\ Same(a, a, q)
  BY ModTwice DEF Same

-----------------------------------------------------------------------------
(* Powers of two count subsets. *)
LEMMA PowerZero == 2^0 = 1
<1>1. IsFiniteSet({}) /\ Cardinality({}) = 0
  BY FS_EmptySet
<1>2. Cardinality(SUBSET {}) = 2^0
  BY <1>1, FS_SUBSET
<1>3. SUBSET {} = {{}}
  OBVIOUS
<1>4. Cardinality({{}}) = 1
  BY FS_Singleton
<1> QED BY <1>2, <1>3, <1>4

LEMMA PowerDoubles == ASSUME NEW n \in Nat PROVE 2^(n + 1) = 2 * 2^n /\ 2^n \in Nat
<1> DEFINE S == 1..n
           U == S \union {n + 1}
           A == SUBSET S
           B == {X \union {n + 1} : X \in A}
           f == [X \in A |-> X \union {n + 1}]
<1>1. IsFiniteSet(S) /\ Cardinality(S) = n
  BY FS_Interval
<1>2. IsFiniteSet(U) /\ Cardinality(U) = n + 1
  <2>1. n + 1 \notin S
    OBVIOUS
  <2> HIDE DEF S
  <2> QED BY <1>1, <2>1, FS_AddElement
<1>3. IsFiniteSet(A) /\ Cardinality(A) = 2^n
  <2> HIDE DEF S
  <2> QED BY <1>1, FS_SUBSET
<1>4. Cardinality(SUBSET U) = 2^(n + 1)
  <2> HIDE DEF U
  <2> QED BY <1>2, FS_SUBSET
<1>5. n + 1 \notin S
  OBVIOUS
<1> HIDE DEF S
<1>6. f \in Bijection(A, B)
  <2>1. f \in [A -> B]
    OBVIOUS
  <2>2. \A X, Y \in A : f[X] = f[Y] => X = Y
    <3> SUFFICES ASSUME NEW X \in A, NEW Y \in A, f[X] = f[Y] PROVE X = Y
      OBVIOUS
    <3>1. X \union {n + 1} = Y \union {n + 1} /\ n + 1 \notin X /\ n + 1 \notin Y
      BY <1>5
    <3> QED BY <3>1
  <2>3. \A Z \in B : \E X \in A : f[X] = Z
    OBVIOUS
  <2> QED BY <2>1, <2>2, <2>3 DEF Bijection, Injection, Surjection, IsInjective
<1>7. IsFiniteSet(B) /\ Cardinality(B) = 2^n
  <2>1. ExistsBijection(A, B)
    BY <1>6, Zenon DEF ExistsBijection
  <2> HIDE DEF A, B
  <2> QED BY <1>3, <2>1, FS_Bijection
<1>8. SUBSET U = A \union B
  <2>1. ASSUME NEW X \in SUBSET U PROVE X \in A \union B
    <3>1. CASE n + 1 \in X
      <4>1. X \ {n + 1} \in A /\ X = (X \ {n + 1}) \union {n + 1}
        BY <3>1
      <4> QED BY <4>1
    <3> QED BY <3>1
  <2> QED BY <2>1
<1>9. A \cap B = {}
  BY <1>5
<1>10. Cardinality(A \union B) = Cardinality(A) + Cardinality(B) - Cardinality(A \cap B)
  <2> HIDE DEF A, B
  <2> QED BY <1>3, <1>7, FS_Union
<1>11. Cardinality(A \cap B) = 0
  BY <1>9, FS_EmptySet
<1>12. 2^n \in Nat
  BY <1>3, FS_CardinalityType
<1> HIDE DEF A, B, U
<1>13. 2^(n + 1) = 2^n + 2^n - 0
  BY <1>3, <1>4, <1>7, <1>8, <1>10, <1>11, Zenon
<1> QED BY <1>12, <1>13
LEMMA PowerPositive == ASSUME NEW n \in Nat PROVE 2^n \in Nat /\ 2^n > n
<1> DEFINE S == {m \in Nat : 2^m > m}
<1>1. 0 \in S
  BY PowerZero
<1>2. ASSUME NEW m \in Nat, m \in S PROVE m + 1 \in S
  BY <1>2, PowerDoubles
<1> HIDE DEF S
<1>3. n \in S
  BY <1>1, <1>2, SetInduction
<1> QED BY <1>3, PowerDoubles DEF S

LEMMA PowerSum == ASSUME NEW m \in Nat, NEW n \in Nat PROVE 2^(m + n) = 2^m * 2^n
<1> DEFINE S == {k \in Nat : 2^(m + k) = 2^m * 2^k}
<1>1. 0 \in S
  BY PowerZero, PowerDoubles
<1>2. ASSUME NEW k \in Nat, k \in S PROVE k + 1 \in S
  <2>1. m + (k + 1) = (m + k) + 1 /\ m + k \in Nat
    OBVIOUS
  <2>2. 2^(m + (k + 1)) = 2 * 2^(m + k) /\ 2^(k + 1) = 2 * 2^k /\ 2^m \in Nat /\ 2^k \in Nat
    BY <2>1, PowerDoubles, Zenon
  <2>3. \A a, b \in Nat : 2 * (a * b) = a * (2 * b)
    BY SMT
  <2>4. 2^(m + (k + 1)) = 2^m * 2^(k + 1)
    BY <1>2, <2>2, <2>3
  <2> QED BY <2>4
<1> HIDE DEF S
<1>3. n \in S
  BY <1>1, <1>2, SetInduction
<1> QED BY <1>3 DEF S

LEMMA PowerMonotone == ASSUME NEW m \in Nat, NEW n \in Nat, m <= n PROVE 2^m <= 2^n
<1> DEFINE k == n - m
<1>1. k \in Nat /\ m + k = n
  OBVIOUS
<1> HIDE DEF k
<1>2. 2^m \in Nat /\ 2^k \in Nat /\ 2^k >= 1
  BY <1>1, PowerPositive
<1>3. 2^m * 1 <= 2^m * 2^k /\ 2^m * 2^k \in Nat
  BY <1>2, ProductMonotone
<1>4. 2^n = 2^m * 2^k
  BY <1>1, PowerSum
<1> QED BY <1>2, <1>3, <1>4

(* Every positive number has a highest bit. *)
LEMMA HighestBit ==
    ASSUME NEW x \in Nat, x > 0
    PROVE  \E k \in 1..x : 2^(k - 1) <= x /\ x < 2^k
<1>1. SUFFICES ASSUME ~ \E k \in 1..x : 2^(k - 1) <= x /\ x < 2^k PROVE FALSE
  OBVIOUS
<1> DEFINE R == {n \in Nat : n <= x => 2^n <= x}
<1>2. 0 \in R
  BY PowerZero
<1>3. ASSUME NEW n \in Nat, n \in R PROVE n + 1 \in R
  <2> SUFFICES ASSUME n + 1 <= x PROVE 2^(n + 1) <= x
    OBVIOUS
  <2>1. n + 1 \in 1..x /\ (n + 1) - 1 = n /\ 2^n <= x
    BY <1>3
  <2>2. ~ (x < 2^(n + 1)) /\ 2^(n + 1) \in Nat
    BY <1>1, <2>1, PowerPositive
  <2> QED BY <2>2
<1> HIDE DEF R
<1>4. x \in R
  BY <1>2, <1>3, SetInduction
<1>5. 2^x <= x /\ 2^x \in Nat /\ 2^x > x
  BY <1>4, PowerPositive DEF R
<1> QED BY <1>5

-----------------------------------------------------------------------------
(* Sums *)

IsSum(s, f, from, to) == s = [r \in from..to |-> IF r = from THEN 0 ELSE s[r - 1] + f[r - 1]]

LEMMA SumExists ==
    ASSUME NEW f, NEW from \in Nat, NEW to \in Nat, from <= to PROVE \E s : IsSum(s, f, from, to)
<1> DEFINE S == {n \in Nat : \E s : IsSum(s, f, from, from + n)}
<1>1. 0 \in S
  <2> DEFINE s == [r \in from..(from + 0) |-> 0]
  <2>1. s = [r \in from..(from + 0) |-> IF r = from THEN 0 ELSE s[r - 1] + f[r - 1]]
    OBVIOUS
  <2> QED BY <2>1, Zenon DEF IsSum
<1>2. ASSUME NEW n \in Nat, n \in S PROVE n + 1 \in S
  <2> DEFINE k == from + n
  <2>1. PICK s : IsSum(s, f, from, k)
    BY <1>2
  <2> DEFINE g == [r \in from..(k + 1) |-> IF r = k + 1 THEN s[k] + f[k] ELSE s[r]]
  <2>2. k \in Nat /\ from <= k /\ from + (n + 1) = k + 1
    OBVIOUS
  <2> HIDE DEF k
  <2>3. /\ \A r \in from..k : g[r] = s[r]
        /\ g[k + 1] = s[k] + f[k]
        /\ g = [r \in from..(k + 1) |-> g[r]]
    BY <2>2
  <2> HIDE DEF g
  <2>4. ASSUME NEW r \in from..(k + 1)
        PROVE  g[r] = IF r = from THEN 0 ELSE g[r - 1] + f[r - 1]
    <3>1. CASE r = k + 1
      <4>1. r - 1 = k /\ r # from /\ k \in from..k
        BY <2>2, <3>1
      <4> QED BY <2>3, <3>1, <4>1
    <3>2. CASE r \in from..k
      <4>1. s[r] = IF r = from THEN 0 ELSE s[r - 1] + f[r - 1]
        BY <2>1, <3>2 DEF IsSum
      <4>2. ASSUME r # from PROVE g[r - 1] = s[r - 1]
        <5>1. r - 1 \in from..k
          BY <2>2, <3>2, <4>2
        <5> QED BY <2>3, <5>1, Zenon
      <4> QED BY <2>3, <3>2, <4>1, <4>2
    <3> QED BY <2>2, <3>1, <3>2
  <2>5. IsSum(g, f, from, k + 1)
    BY <2>3, <2>4, Zenon DEF IsSum
  <2> QED BY <2>2, <2>5
<1> HIDE DEF S
<1>3. Nat \subseteq S
  BY <1>1, <1>2, SetInduction
<1>4. to - from \in Nat /\ from + (to - from) = to
  OBVIOUS
<1> QED BY <1>3, <1>4 DEF S

LEMMA SumUnique ==
    ASSUME NEW f, NEW from \in Nat, NEW m \in Nat, NEW n \in Nat, from <= m, m <= n,
           NEW s, IsSum(s, f, from, m), NEW u, IsSum(u, f, from, n)
    PROVE  s[m] = u[m]
<1> DEFINE S == {k \in Nat : from + k <= m => s[from + k] = u[from + k]}
<1>1. ASSUME NEW r \in from..m
      PROVE  /\ s[r] = IF r = from THEN 0 ELSE s[r - 1] + f[r - 1]
             /\ u[r] = IF r = from THEN 0 ELSE u[r - 1] + f[r - 1]
  <2>1. r \in from..n
    OBVIOUS
  <2> QED BY <2>1 DEF IsSum
<1>2. 0 \in S
  <2>1. from + 0 = from /\ from \in from..m
    OBVIOUS
  <2> QED BY <1>1, <2>1
<1>3. ASSUME NEW k \in Nat, k \in S PROVE k + 1 \in S
  <2> SUFFICES ASSUME from + (k + 1) <= m PROVE s[from + (k + 1)] = u[from + (k + 1)]
    OBVIOUS
  <2> DEFINE r == from + (k + 1)
  <2>1. r \in from..m /\ r # from /\ r - 1 = from + k /\ from + k <= m
    OBVIOUS
  <2>2. s[from + k] = u[from + k]
    BY <1>3, <2>1
  <2> HIDE DEF r
  <2>3. s[r] = u[r]
    BY <1>1, <2>1, <2>2
  <2> QED BY <2>3 DEF r
<1> HIDE DEF S
<1>4. Nat \subseteq S
  BY <1>2, <1>3, SetInduction
<1>5. m - from \in Nat /\ from + (m - from) = m
  OBVIOUS
<1> QED BY <1>4, <1>5 DEF S

(* The recursion of SumOf. *)
LEMMA SumStep ==
    ASSUME NEW f, NEW from \in Nat, NEW k \in Nat, from <= k
    PROVE  SumOf(f, from, from) = 0 /\ SumOf(f, from, k + 1) = SumOf(f, from, k) + f[k]
<1> DEFINE Of(to) == CHOOSE s : s = [r \in from..to |-> IF r = from THEN 0 ELSE s[r - 1] + f[r - 1]]
<1>1. ASSUME NEW to \in Nat, from <= to PROVE IsSum(Of(to), f, from, to)
  <2>1. \E s : IsSum(s, f, from, to)
    BY <1>1, SumExists
  <2> QED BY <2>1, Zenon DEF IsSum
<1>2. \A to : SumOf(f, from, to) = Of(to)[to]
  BY Zenon DEF SumOf
<1> HIDE DEF Of
<1>3. Of(from)[from] = 0
  <2>1. IsSum(Of(from), f, from, from) /\ from \in from..from
    BY <1>1
  <2> QED BY <2>1 DEF IsSum
<1>4. Of(k + 1)[k + 1] = Of(k + 1)[k] + f[k]
  <2>1. IsSum(Of(k + 1), f, from, k + 1)
    BY <1>1
  <2>2. k + 1 \in from..(k + 1) /\ k + 1 # from /\ (k + 1) - 1 = k
    OBVIOUS
  <2> QED BY <2>1, <2>2 DEF IsSum
<1>5. Of(k)[k] = Of(k + 1)[k]
  <2>1. k + 1 \in Nat /\ k <= k + 1 /\ from <= k + 1
    OBVIOUS
  <2>2. IsSum(Of(k), f, from, k) /\ IsSum(Of(k + 1), f, from, k + 1)
    BY <1>1, <2>1
  <2> QED BY <2>1, <2>2, SumUnique
<1> QED BY <1>2, <1>3, <1>4, <1>5

(* A sum of naturals that are at most M. *)
LEMMA SumBounded ==
    ASSUME NEW f, NEW from \in Nat, NEW to \in Nat, from <= to, NEW M \in Nat,
           \A r \in from..(to - 1) : f[r] \in Nat /\ f[r] <= M
    PROVE  SumOf(f, from, to) \in Nat /\ SumOf(f, from, to) <= (to - from) * M
<1> DEFINE S == {n \in Nat : from + n <= to =>
                   SumOf(f, from, from + n) \in Nat /\ SumOf(f, from, from + n) <= n * M}
<1>1. 0 \in S
  <2>1. SumOf(f, from, from) = 0 /\ from + 0 = from /\ 0 * M = 0
    BY SumStep
  <2> QED BY <2>1
<1>2. ASSUME NEW n \in Nat, n \in S PROVE n + 1 \in S
  <2> SUFFICES ASSUME from + (n + 1) <= to
               PROVE  /\ SumOf(f, from, from + (n + 1)) \in Nat
                      /\ SumOf(f, from, from + (n + 1)) <= (n + 1) * M
    OBVIOUS
  <2> DEFINE k == from + n
  <2>1. k \in Nat /\ from <= k /\ k <= to /\ k \in from..(to - 1) /\ from + (n + 1) = k + 1
    OBVIOUS
  <2>2. SumOf(f, from, k) \in Nat /\ SumOf(f, from, k) <= n * M
    BY <1>2, <2>1
  <2> HIDE DEF k
  <2>3. SumOf(f, from, k + 1) = SumOf(f, from, k) + f[k]
    BY <2>1, SumStep
  <2>4. f[k] \in Nat /\ f[k] <= M
    BY <2>1
  <2>5. (n + 1) * M = n * M + M /\ n * M \in Nat
    BY SMT
  <2>6. SumOf(f, from, k + 1) \in Nat /\ SumOf(f, from, k + 1) <= (n + 1) * M
    BY <2>2, <2>3, <2>4, <2>5
  <2> QED BY <2>1, <2>6
<1> HIDE DEF S
<1>3. Nat \subseteq S
  BY <1>1, <1>2, SetInduction
<1> DEFINE d == to - from
<1>4. d \in Nat /\ from + d = to
  OBVIOUS
<1> HIDE DEF d
<1>5. SumOf(f, from, to) \in Nat /\ SumOf(f, from, to) <= d * M
  BY <1>3, <1>4 DEF S
<1> QED BY <1>5 DEF d

(* Rows that add nothing. *)
LEMMA SumZero ==
    ASSUME NEW f, NEW from \in Nat, NEW a \in Nat, NEW b \in Nat, from <= a, a <= b,
           SumOf(f, from, a) \in Nat, \A r \in a..(b - 1) : f[r] = 0
    PROVE  SumOf(f, from, b) = SumOf(f, from, a)
<1> DEFINE S == {n \in Nat : a + n <= b => SumOf(f, from, a + n) = SumOf(f, from, a)}
<1>1. 0 \in S
  <2>1. a + 0 = a
    OBVIOUS
  <2> QED BY <2>1
<1>2. ASSUME NEW n \in Nat, n \in S PROVE n + 1 \in S
  <2> SUFFICES ASSUME a + (n + 1) <= b PROVE SumOf(f, from, a + (n + 1)) = SumOf(f, from, a)
    OBVIOUS
  <2> DEFINE k == a + n
  <2>1. k \in Nat /\ from <= k /\ k <= b /\ k \in a..(b - 1) /\ a + (n + 1) = k + 1
    OBVIOUS
  <2>2. SumOf(f, from, k) = SumOf(f, from, a)
    BY <1>2, <2>1
  <2> HIDE DEF k
  <2>3. SumOf(f, from, k + 1) = SumOf(f, from, k) + f[k] /\ f[k] = 0
    BY <2>1, SumStep
  <2> QED BY <2>1, <2>2, <2>3
<1> HIDE DEF S
<1>3. Nat \subseteq S
  BY <1>1, <1>2, SetInduction
<1>4. b - a \in Nat /\ a + (b - a) = b
  OBVIOUS
<1> QED BY <1>3, <1>4 DEF S

(* The sum of a function that combines two others. *)
Combines(h, f, g, m, from, to) ==
    /\ m \in Nat /\ from \in Nat /\ to \in Nat /\ from <= to
    /\ \A r \in from..(to - 1) : f[r] \in Nat /\ g[r] \in Nat /\ h[r] = f[r] + m * g[r]

LEMMA SumLinear ==
    ASSUME NEW f, NEW g, NEW h, NEW m, NEW from, NEW to, Combines(h, f, g, m, from, to)
    PROVE  /\ SumOf(f, from, to) \in Nat /\ SumOf(g, from, to) \in Nat
           /\ SumOf(h, from, to) = SumOf(f, from, to) + m * SumOf(g, from, to)
<1>0. /\ m \in Nat /\ from \in Nat /\ to \in Nat /\ from <= to
      /\ \A r \in from..(to - 1) : f[r] \in Nat /\ g[r] \in Nat /\ h[r] = f[r] + m * g[r]
  BY DEF Combines
<1> DEFINE S == {n \in Nat : from + n <= to =>
                   /\ SumOf(f, from, from + n) \in Nat /\ SumOf(g, from, from + n) \in Nat
                   /\ SumOf(h, from, from + n) = SumOf(f, from, from + n) + m * SumOf(g, from, from + n)}
<1>1. 0 \in S
  <2>1. from + 0 = from /\ m * 0 = 0
    BY <1>0
  <2>2. SumOf(f, from, from) = 0 /\ SumOf(g, from, from) = 0 /\ SumOf(h, from, from) = 0
    BY <1>0, SumStep
  <2> QED BY <2>1, <2>2
<1>2. ASSUME NEW n \in Nat, n \in S PROVE n + 1 \in S
  <2> SUFFICES ASSUME from + (n + 1) <= to
               PROVE  LET k == from + (n + 1)
                      IN  /\ SumOf(f, from, k) \in Nat /\ SumOf(g, from, k) \in Nat
                          /\ SumOf(h, from, k) = SumOf(f, from, k) + m * SumOf(g, from, k)
    OBVIOUS
  <2> DEFINE k == from + n
             x == SumOf(f, from, k)
             y == SumOf(g, from, k)
  <2>1. k \in Nat /\ from <= k /\ k <= to /\ k \in from..(to - 1) /\ from + (n + 1) = k + 1
    BY <1>0
  <2>2. x \in Nat /\ y \in Nat /\ SumOf(h, from, k) = x + m * y
    BY <1>2, <2>1
  <2> HIDE DEF k, x, y
  <2>3. /\ SumOf(f, from, k + 1) = x + f[k] /\ SumOf(g, from, k + 1) = y + g[k]
        /\ SumOf(h, from, k + 1) = (x + m * y) + h[k]
    <3>1. \A e : SumOf(e, from, k + 1) = SumOf(e, from, k) + e[k]
      BY <1>0, <2>1, SumStep
    <3> QED BY <2>2, <3>1, Zenon DEF x, y
  <2>4. f[k] \in Nat /\ g[k] \in Nat /\ h[k] = f[k] + m * g[k]
    BY <1>0, <2>1
  <2>5. m * (y + g[k]) = m * y + m * g[k] /\ m * y \in Nat /\ m * g[k] \in Nat
    BY <1>0, <2>2, <2>4, SMT
  <2>6. /\ SumOf(f, from, k + 1) \in Nat /\ SumOf(g, from, k + 1) \in Nat
        /\ SumOf(h, from, k + 1) = (x + f[k]) + m * (y + g[k])
    BY <1>0, <2>2, <2>3, <2>4, <2>5
  <2> QED BY <2>1, <2>3, <2>6
<1> HIDE DEF S
<1>3. Nat \subseteq S
  BY <1>1, <1>2, SetInduction
<1>4. to - from \in Nat /\ from + (to - from) = to /\ to <= to
  BY <1>0
<1> QED BY <1>3, <1>4 DEF S

LEMMA SumIsNat ==
    ASSUME NEW f, NEW from \in Nat, NEW to \in Nat, from <= to,
           \A r \in from..(to - 1) : f[r] \in Nat
    PROVE  SumOf(f, from, to) \in Nat
<1> DEFINE S == {n \in Nat : from + n <= to => SumOf(f, from, from + n) \in Nat}
<1>1. 0 \in S
  <2>1. SumOf(f, from, from) = 0 /\ from + 0 = from
    BY SumStep
  <2> QED BY <2>1
<1>2. ASSUME NEW n \in Nat, n \in S PROVE n + 1 \in S
  <2> SUFFICES ASSUME from + (n + 1) <= to PROVE SumOf(f, from, from + (n + 1)) \in Nat
    OBVIOUS
  <2> DEFINE k == from + n
  <2>1. k \in Nat /\ from <= k /\ k <= to /\ k \in from..(to - 1) /\ from + (n + 1) = k + 1
    OBVIOUS
  <2>2. SumOf(f, from, k) \in Nat
    BY <1>2, <2>1
  <2> HIDE DEF k
  <2>3. SumOf(f, from, k + 1) = SumOf(f, from, k) + f[k] /\ f[k] \in Nat
    BY <2>1, SumStep
  <2> QED BY <2>1, <2>2, <2>3
<1> HIDE DEF S
<1>3. Nat \subseteq S
  BY <1>1, <1>2, SetInduction
<1>4. to - from \in Nat /\ from + (to - from) = to
  OBVIOUS
<1> QED BY <1>3, <1>4 DEF S

(* A sum in two parts. *)
LEMMA SumConcat ==
    ASSUME NEW f, NEW a \in Nat, NEW b \in Nat, a <= b, \A r \in 0..(b - 1) : f[r] \in Nat
    PROVE  /\ SumOf(f, 0, a) \in Nat /\ SumOf(f, a, b) \in Nat
           /\ SumOf(f, 0, b) = SumOf(f, 0, a) + SumOf(f, a, b)
<1> DEFINE S == {n \in Nat : a + n <= b =>
                   /\ SumOf(f, a, a + n) \in Nat
                   /\ SumOf(f, 0, a + n) = SumOf(f, 0, a) + SumOf(f, a, a + n)}
<1>0. SumOf(f, 0, a) \in Nat
  <2>1. \A r \in 0..(a - 1) : f[r] \in Nat
    OBVIOUS
  <2> QED BY <2>1, SumIsNat
<1>1. 0 \in S
  <2>1. a + 0 = a
    OBVIOUS
  <2>2. SumOf(f, a, a) = 0
    BY SumStep
  <2> QED BY <1>0, <2>1, <2>2
<1>2. ASSUME NEW n \in Nat, n \in S PROVE n + 1 \in S
  <2> SUFFICES ASSUME a + (n + 1) <= b
               PROVE  /\ SumOf(f, a, a + (n + 1)) \in Nat
                      /\ SumOf(f, 0, a + (n + 1)) = SumOf(f, 0, a) + SumOf(f, a, a + (n + 1))
    OBVIOUS
  <2> DEFINE k == a + n
  <2>1. k \in Nat /\ 0 <= k /\ a <= k /\ k <= b /\ k \in 0..(b - 1) /\ a + (n + 1) = k + 1
    OBVIOUS
  <2>2. SumOf(f, a, k) \in Nat /\ SumOf(f, 0, k) = SumOf(f, 0, a) + SumOf(f, a, k)
    BY <1>2, <2>1
  <2> HIDE DEF k
  <2>3. SumOf(f, a, k + 1) = SumOf(f, a, k) + f[k] /\ SumOf(f, 0, k + 1) = SumOf(f, 0, k) + f[k]
    BY <2>1, SumStep
  <2>4. f[k] \in Nat
    BY <2>1
  <2> QED BY <1>0, <2>1, <2>2, <2>3, <2>4
<1> HIDE DEF S
<1>3. Nat \subseteq S
  BY <1>1, <1>2, SetInduction
<1>4. b - a \in Nat /\ a + (b - a) = b
  OBVIOUS
<1> QED BY <1>0, <1>3, <1>4 DEF S
(* The same for integers. *)
IntTerms(f, from, to) ==
    from \in Nat /\ to \in Nat /\ from <= to /\ \A r \in from..(to - 1) : f[r] \in Int

LEMMA SumIsInt ==
    ASSUME NEW f, NEW from, NEW to, IntTerms(f, from, to)
    PROVE  SumOf(f, from, to) \in Int
<1>0. from \in Nat /\ to \in Nat /\ from <= to /\ \A r \in from..(to - 1) : f[r] \in Int
  BY DEF IntTerms
<1> DEFINE S == {n \in Nat : from + n <= to => SumOf(f, from, from + n) \in Int}
<1>1. 0 \in S
  <2>1. SumOf(f, from, from) = 0 /\ from + 0 = from
    BY <1>0, SumStep
  <2> QED BY <2>1
<1>2. ASSUME NEW n \in Nat, n \in S PROVE n + 1 \in S
  <2> SUFFICES ASSUME from + (n + 1) <= to PROVE SumOf(f, from, from + (n + 1)) \in Int
    OBVIOUS
  <2> DEFINE k == from + n
  <2>1. k \in Nat /\ from <= k /\ k <= to /\ k \in from..(to - 1) /\ from + (n + 1) = k + 1
    BY <1>0
  <2>2. SumOf(f, from, k) \in Int
    BY <1>2, <2>1
  <2> HIDE DEF k
  <2>3. SumOf(f, from, k + 1) = SumOf(f, from, k) + f[k] /\ f[k] \in Int
    BY <1>0, <2>1, SumStep
  <2> QED BY <2>1, <2>2, <2>3
<1> HIDE DEF S
<1>3. Nat \subseteq S
  BY <1>1, <1>2, SetInduction
<1>4. to - from \in Nat /\ from + (to - from) = to /\ to <= to
  BY <1>0
<1> QED BY <1>3, <1>4 DEF S

LEMMA SumSplit ==
    ASSUME NEW f, NEW from, NEW to, IntTerms(f, from, to), NEW mid \in from..to
    PROVE  /\ SumOf(f, from, mid) \in Int /\ SumOf(f, mid, to) \in Int
           /\ SumOf(f, from, to) = SumOf(f, from, mid) + SumOf(f, mid, to)
<1>0. /\ from \in Nat /\ to \in Nat /\ from <= to /\ \A r \in from..(to - 1) : f[r] \in Int
      /\ mid \in Nat /\ from <= mid /\ mid <= to
  BY DEF IntTerms
<1> DEFINE S == {n \in Nat : mid + n <= to =>
                   SumOf(f, from, mid + n) = SumOf(f, from, mid) + SumOf(f, mid, mid + n)}
<1>1. IntTerms(f, from, mid) /\ \A k \in mid..to : IntTerms(f, mid, k)
  BY <1>0 DEF IntTerms
<1>2. SumOf(f, from, mid) \in Int /\ \A k \in mid..to : SumOf(f, mid, k) \in Int
  BY <1>1, SumIsInt
<1>3. 0 \in S
  <2>1. SumOf(f, mid, mid) = 0 /\ mid + 0 = mid
    BY <1>0, SumStep
  <2> QED BY <1>2, <2>1
<1>4. ASSUME NEW n \in Nat, n \in S PROVE n + 1 \in S
  <2> SUFFICES ASSUME mid + (n + 1) <= to
               PROVE  SumOf(f, from, mid + (n + 1)) = SumOf(f, from, mid) + SumOf(f, mid, mid + (n + 1))
    OBVIOUS
  <2> DEFINE k == mid + n
  <2>1. k \in Nat /\ from <= k /\ mid <= k /\ k \in mid..to /\ k \in from..(to - 1) /\ mid + (n + 1) = k + 1
    BY <1>0
  <2>2. SumOf(f, from, k) = SumOf(f, from, mid) + SumOf(f, mid, k)
    BY <1>4, <2>1
  <2> HIDE DEF k
  <2>3. SumOf(f, from, k + 1) = SumOf(f, from, k) + f[k] /\ SumOf(f, mid, k + 1) = SumOf(f, mid, k) + f[k]
    BY <1>0, <2>1, SumStep
  <2>4. SumOf(f, mid, k) \in Int /\ f[k] \in Int
    BY <1>0, <1>2, <2>1
  <2>5. SumOf(f, from, k + 1) = SumOf(f, from, mid) + SumOf(f, mid, k + 1)
    BY <1>2, <2>2, <2>3, <2>4
  <2> QED BY <2>1, <2>5
<1> HIDE DEF S
<1>5. Nat \subseteq S
  BY <1>3, <1>4, SetInduction
<1>6. to - mid \in Nat /\ mid + (to - mid) = to /\ to \in mid..to
  BY <1>0
<1>7. SumOf(f, from, to) = SumOf(f, from, mid) + SumOf(f, mid, to)
  BY <1>5, <1>6 DEF S
<1> QED BY <1>2, <1>6, <1>7

IntCombines(h, f, g, m, from, to) ==
    /\ m \in Int /\ IntTerms(f, from, to) /\ IntTerms(g, from, to)
    /\ \A r \in from..(to - 1) : h[r] = f[r] + m * g[r]

LEMMA IntSumLinear ==
    ASSUME NEW f, NEW g, NEW h, NEW m, NEW from, NEW to, IntCombines(h, f, g, m, from, to)
    PROVE  /\ SumOf(f, from, to) \in Int /\ SumOf(g, from, to) \in Int
           /\ SumOf(h, from, to) = SumOf(f, from, to) + m * SumOf(g, from, to)
<1>0. /\ m \in Int /\ from \in Nat /\ to \in Nat /\ from <= to
      /\ \A r \in from..(to - 1) : f[r] \in Int /\ g[r] \in Int /\ h[r] = f[r] + m * g[r]
  BY DEF IntCombines, IntTerms
<1> DEFINE S == {n \in Nat : from + n <= to =>
                   /\ SumOf(f, from, from + n) \in Int /\ SumOf(g, from, from + n) \in Int
                   /\ SumOf(h, from, from + n) = SumOf(f, from, from + n) + m * SumOf(g, from, from + n)}
<1>1. 0 \in S
  <2>1. from + 0 = from /\ m * 0 = 0
    BY <1>0
  <2>2. SumOf(f, from, from) = 0 /\ SumOf(g, from, from) = 0 /\ SumOf(h, from, from) = 0
    BY <1>0, SumStep
  <2> QED BY <2>1, <2>2
<1>2. ASSUME NEW n \in Nat, n \in S PROVE n + 1 \in S
  <2> SUFFICES ASSUME from + (n + 1) <= to
               PROVE  LET k == from + (n + 1)
                      IN  /\ SumOf(f, from, k) \in Int /\ SumOf(g, from, k) \in Int
                          /\ SumOf(h, from, k) = SumOf(f, from, k) + m * SumOf(g, from, k)
    OBVIOUS
  <2> DEFINE k == from + n
             x == SumOf(f, from, k)
             y == SumOf(g, from, k)
  <2>1. k \in Nat /\ from <= k /\ k <= to /\ k \in from..(to - 1) /\ from + (n + 1) = k + 1
    BY <1>0
  <2>2. x \in Int /\ y \in Int /\ SumOf(h, from, k) = x + m * y
    BY <1>2, <2>1
  <2> HIDE DEF k, x, y
  <2>3. /\ SumOf(f, from, k + 1) = x + f[k] /\ SumOf(g, from, k + 1) = y + g[k]
        /\ SumOf(h, from, k + 1) = (x + m * y) + h[k]
    <3>1. \A e : SumOf(e, from, k + 1) = SumOf(e, from, k) + e[k]
      BY <1>0, <2>1, SumStep
    <3> QED BY <2>2, <3>1, Zenon DEF x, y
  <2>4. f[k] \in Int /\ g[k] \in Int /\ h[k] = f[k] + m * g[k]
    BY <1>0, <2>1
  <2>5. m * (y + g[k]) = m * y + m * g[k] /\ m * y \in Int /\ m * g[k] \in Int
    BY <1>0, <2>2, <2>4, SMT
  <2>6. /\ SumOf(f, from, k + 1) \in Int /\ SumOf(g, from, k + 1) \in Int
        /\ SumOf(h, from, k + 1) = (x + f[k]) + m * (y + g[k])
    BY <1>0, <2>2, <2>3, <2>4, <2>5
  <2> QED BY <2>1, <2>3, <2>6
<1> HIDE DEF S
<1>3. Nat \subseteq S
  BY <1>1, <1>2, SetInduction
<1>4. to - from \in Nat /\ from + (to - from) = to /\ to <= to
  BY <1>0
<1> QED BY <1>3, <1>4 DEF S

(* Sums of terms with the same remainders. *)
SameTerms(f, g, q, from, to) ==
    /\ IntTerms(f, from, to) /\ IntTerms(g, from, to) /\ q \in Nat /\ q > 0
    /\ \A r \in from..(to - 1) : f[r] % q = g[r] % q

LEMMA SumModulo ==
    ASSUME NEW f, NEW g, NEW q, NEW from, NEW to, SameTerms(f, g, q, from, to)
    PROVE  SumOf(f, from, to) \in Int /\ SumOf(g, from, to) \in Int
           /\ SumOf(f, from, to) % q = SumOf(g, from, to) % q
<1> DEFINE quotient(r) == CHOOSE k \in Int : f[r] = g[r] + k * q
           u == [r \in from..(to - 1) |-> quotient(r)]
<1>0. /\ from \in Nat /\ to \in Nat /\ from <= to /\ q \in Nat /\ q > 0
      /\ IntTerms(f, from, to) /\ IntTerms(g, from, to)
      /\ \A r \in from..(to - 1) : f[r] \in Int /\ g[r] \in Int /\ f[r] % q = g[r] % q
  BY DEF SameTerms, IntTerms
<1>1. ASSUME NEW r \in from..(to - 1) PROVE u[r] \in Int /\ f[r] = g[r] + q * u[r]
  <2>1. \E k \in Int : f[r] = g[r] + k * q
    BY <1>0, Congruent
  <2>2. quotient(r) \in Int /\ f[r] = g[r] + quotient(r) * q
    BY <2>1
  <2>3. u[r] = quotient(r)
    OBVIOUS
  <2> HIDE DEF quotient, u
  <2>4. u[r] * q = q * u[r]
    BY <1>0, <2>2, <2>3, SMT
  <2> QED BY <2>2, <2>3, <2>4
<1> HIDE DEF u
<1>2. IntCombines(f, g, u, q, from, to)
  BY <1>0, <1>1 DEF IntCombines, IntTerms
<1> DEFINE x == SumOf(g, from, to)
           y == SumOf(u, from, to)
<1>3. x \in Int /\ y \in Int /\ SumOf(f, from, to) = x + q * y
  BY <1>2, IntSumLinear
<1> HIDE DEF x, y
<1>4. q * y = y * q /\ y * q \in Int
  BY <1>0, <1>3, SMT
<1>5. (x + y * q) % q = x % q
  BY <1>0, <1>3, IntModShift
<1> QED BY <1>3, <1>4, <1>5 DEF x

LEMMA SumSame ==
    ASSUME NEW f, NEW g, NEW from, NEW to, IntTerms(f, from, to),
           \A r \in from..(to - 1) : g[r] = f[r]
    PROVE  SumOf(g, from, to) = SumOf(f, from, to)
<1> DEFINE u == [r \in from..(to - 1) |-> 0]
           zero == 0
<1>1. \A r \in from..(to - 1) : f[r] \in Int /\ g[r] = f[r] + zero * u[r]
  BY DEF IntTerms
<1>2. IntCombines(g, f, u, zero, from, to)
  BY <1>1 DEF IntCombines, IntTerms
<1> HIDE DEF u, zero
<1>3. /\ SumOf(f, from, to) \in Int /\ SumOf(u, from, to) \in Int
      /\ SumOf(g, from, to) = SumOf(f, from, to) + zero * SumOf(u, from, to)
  BY <1>2, IntSumLinear
<1> QED BY <1>3, SMT DEF zero

(* A sum does not depend on where its terms are numbered from. *)
Shifts(g, f, from, to, by) ==
    /\ by \in Nat /\ IntTerms(g, from, to)
    /\ \A r \in from..(to - 1) : f[r + by] = g[r]

LEMMA SumShift ==
    ASSUME NEW f, NEW g, NEW from, NEW to, NEW by, Shifts(g, f, from, to, by)
    PROVE  SumOf(f, from + by, to + by) = SumOf(g, from, to)
<1>0. /\ from \in Nat /\ to \in Nat /\ by \in Nat /\ from <= to
      /\ \A r \in from..(to - 1) : f[r + by] = g[r]
  BY DEF Shifts, IntTerms
<1> DEFINE S == {n \in Nat : from + n <= to => SumOf(f, from + by, (from + n) + by) = SumOf(g, from, from + n)}
<1>1. 0 \in S
  <2>1. from + 0 = from /\ from + by \in Nat /\ (from + 0) + by = from + by
    BY <1>0
  <2>2. SumOf(f, from + by, from + by) = 0 /\ SumOf(g, from, from) = 0
    BY <1>0, <2>1, SumStep
  <2> QED BY <2>1, <2>2
<1>2. ASSUME NEW n \in Nat, n \in S PROVE n + 1 \in S
  <2> SUFFICES ASSUME from + (n + 1) <= to
               PROVE  SumOf(f, from + by, (from + (n + 1)) + by) = SumOf(g, from, from + (n + 1))
    OBVIOUS
  <2> DEFINE k == from + n
             a == from + by
             m == k + by
  <2>1. /\ k \in Nat /\ from <= k /\ k \in from..(to - 1) /\ from + (n + 1) = k + 1
        /\ a \in Nat /\ m \in Nat /\ a <= m /\ (from + (n + 1)) + by = m + 1
    BY <1>0
  <2>2. SumOf(f, a, m) = SumOf(g, from, k)
    <3>1. from + n <= to
      BY <1>0, <2>1
    <3> QED BY <1>2, <3>1
  <2>3. f[m] = g[k]
    BY <1>0, <2>1
  <2> HIDE DEF k, a, m
  <2>4. SumOf(f, a, m + 1) = SumOf(f, a, m) + f[m] /\ SumOf(g, from, k + 1) = SumOf(g, from, k) + g[k]
    BY <1>0, <2>1, SumStep
  <2> QED BY <2>1, <2>2, <2>3, <2>4 DEF a
<1> HIDE DEF S
<1>3. Nat \subseteq S
  BY <1>1, <1>2, SetInduction
<1>4. to - from \in Nat /\ from + (to - from) = to /\ to <= to
  BY <1>0
<1> QED BY <1>3, <1>4 DEF S

(* A factor common to all terms. *)
Scales(h, g, m, from, to) ==
    m \in Int /\ IntTerms(g, from, to) /\ \A r \in from..(to - 1) : h[r] = m * g[r]

LEMMA SumScale ==
    ASSUME NEW h, NEW g, NEW m, NEW from, NEW to, Scales(h, g, m, from, to)
    PROVE  SumOf(g, from, to) \in Int /\ SumOf(h, from, to) = m * SumOf(g, from, to)
<1> DEFINE u == [r \in from..(to - 1) |-> 0]
<1>1. m \in Int /\ IntTerms(g, from, to) /\ from \in Nat /\ to \in Nat /\ from <= to
  BY DEF Scales, IntTerms
<1>2. IntTerms(u, from, to) /\ \A r \in from..(to - 1) : u[r] = 0
  BY <1>1 DEF IntTerms
<1>3. \A r \in from..(to - 1) : h[r] = u[r] + m * g[r]
  <2>1. ASSUME NEW r \in from..(to - 1) PROVE h[r] = u[r] + m * g[r]
    <3>1. h[r] = m * g[r] /\ g[r] \in Int /\ m \in Int
      BY DEF Scales, IntTerms
    <3>2. m * g[r] \in Int
      BY <3>1, ProductsAreInt
    <3> QED BY <1>2, <3>1, <3>2
  <2> QED BY <2>1
<1>4. SumOf(u, from, from) = 0
  BY <1>1, SumStep
<1>5. SumOf(u, from, to) = 0
  <2> HIDE DEF u
  <2>1. SumOf(u, from, from) \in Nat /\ from <= from
    BY <1>1, <1>4
  <2> QED BY <1>1, <1>2, <1>4, <2>1, SumZero
<1> HIDE DEF u
<1>6. IntCombines(h, u, g, m, from, to)
  BY <1>1, <1>2, <1>3 DEF IntCombines
<1> DEFINE y == SumOf(g, from, to)
<1>7. y \in Int /\ SumOf(h, from, to) = 0 + m * y
  BY <1>5, <1>6, IntSumLinear
<1> HIDE DEF y
<1>8. m * y \in Int
  BY <1>1, <1>7, ProductsAreInt
<1> QED BY <1>7, <1>8 DEF y

(* The order in which the terms of a table are added.  Row j of t is t[j];    *)
(* column r, u[r].                                                            *)
Crossed(t, u, f, g, a, b, from, to) ==
    /\ a \in Nat /\ b \in Nat /\ a <= b /\ from \in Nat /\ to \in Nat /\ from <= to
    /\ \A j \in a..(b - 1) : \A r \in from..(to - 1) : t[j][r] \in Int /\ u[r][j] = t[j][r]
    /\ \A j \in a..(b - 1) : f[j] = SumOf(t[j], from, to)
    /\ \A r \in from..(to - 1) : g[r] = SumOf(u[r], a, b)

LEMMA SumExchange ==
    ASSUME NEW t, NEW u, NEW f, NEW g, NEW a, NEW b, NEW from, NEW to, Crossed(t, u, f, g, a, b, from, to)
    PROVE  SumOf(f, a, b) = SumOf(g, from, to) /\ IntTerms(g, from, to)
<1>0. /\ a \in Nat /\ b \in Nat /\ a <= b /\ from \in Nat /\ to \in Nat /\ from <= to
      /\ \A j \in a..(b - 1) : \A r \in from..(to - 1) : t[j][r] \in Int /\ u[r][j] = t[j][r]
      /\ \A j \in a..(b - 1) : f[j] = SumOf(t[j], from, to)
      /\ \A r \in from..(to - 1) : g[r] = SumOf(u[r], a, b)
  BY Zenon DEF Crossed
<1> DEFINE part(n) == [r \in from..(to - 1) |-> SumOf(u[r], a, a + n)]
           S == {n \in Nat : a + n <= b => /\ IntTerms(part(n), from, to)
                                           /\ SumOf(f, a, a + n) = SumOf(part(n), from, to)}
<1>1. 0 \in S
  <2> DEFINE p == part(0)
  <2>1. a + 0 = a /\ SumOf(f, a, a) = 0
    BY <1>0, SumStep
  <2>2. \A r \in from..(to - 1) : p[r] = 0
    <3>1. \A e : SumOf(e, a, a) = 0
      BY <1>0, SumStep
    <3> QED BY <2>1, <3>1
  <2> HIDE DEF p
  <2>3. SumOf(p, from, from) = 0 /\ from <= from
    BY <1>0, SumStep
  <2>4. SumOf(p, from, to) = SumOf(p, from, from)
    <3>1. SumOf(p, from, from) \in Nat
      BY <2>3
    <3> QED BY <1>0, <2>2, <2>3, <3>1, SumZero
  <2>5. IntTerms(p, from, to)
    BY <1>0, <2>2 DEF IntTerms
  <2> QED BY <2>1, <2>3, <2>4, <2>5 DEF p
<1>2. ASSUME NEW n \in Nat, n \in S PROVE n + 1 \in S
  <2> SUFFICES ASSUME a + (n + 1) <= b
               PROVE  /\ IntTerms(part(n + 1), from, to)
                      /\ SumOf(f, a, a + (n + 1)) = SumOf(part(n + 1), from, to)
    OBVIOUS
  <2> DEFINE k == a + n
             p == part(n)
             q == part(n + 1)
             one == 1
  <2>1. k \in Nat /\ a <= k /\ k \in a..(b - 1) /\ a + (n + 1) = k + 1 /\ a + n <= b
    BY <1>0
  <2>2. IntTerms(p, from, to) /\ SumOf(f, a, k) = SumOf(p, from, to)
    BY <1>2, <2>1
  <2>3. \A r \in from..(to - 1) : p[r] = SumOf(u[r], a, k) /\ q[r] = SumOf(u[r], a, k + 1)
    BY <2>1
  <2> HIDE DEF k, p, q
  <2>4. \A e : SumOf(e, a, k + 1) = SumOf(e, a, k) + e[k]
    BY <1>0, <2>1, SumStep
  <2>5. IntTerms(t[k], from, to)
    BY <1>0, <2>1 DEF IntTerms
  <2>6. ASSUME NEW r \in from..(to - 1) PROVE q[r] = p[r] + one * t[k][r] /\ q[r] \in Int
    <3>1. q[r] = p[r] + u[r][k] /\ u[r][k] = t[k][r]
      BY <1>0, <2>1, <2>3, <2>4
    <3>2. p[r] \in Int /\ t[k][r] \in Int
      BY <2>2, <2>5 DEF IntTerms
    <3> QED BY <3>1, <3>2
  <2>7. IntCombines(q, p, t[k], one, from, to) /\ IntTerms(q, from, to)
    <3>1. one \in Int
      OBVIOUS
    <3> HIDE DEF one
    <3> QED BY <1>0, <2>2, <2>5, <2>6, <3>1 DEF IntCombines, IntTerms
  <2>8. /\ SumOf(p, from, to) \in Int /\ SumOf(t[k], from, to) \in Int
        /\ SumOf(q, from, to) = SumOf(p, from, to) + one * SumOf(t[k], from, to)
    <3> HIDE DEF one
    <3> QED BY <2>7, IntSumLinear
  <2>9. SumOf(f, a, k + 1) = SumOf(f, a, k) + SumOf(t[k], from, to)
    BY <1>0, <2>1, <2>4
  <2>10. SumOf(f, a, k + 1) = SumOf(q, from, to)
    BY <2>2, <2>8, <2>9
  <2> QED BY <2>1, <2>7, <2>10 DEF q
<1>3. Nat \subseteq S
  <2> HIDE DEF S
  <2> QED BY <1>1, <1>2, SetInduction
<1>4. b - a \in Nat /\ a + (b - a) = b /\ b <= b
  BY <1>0
<1> DEFINE p == part(b - a)
<1>5. IntTerms(p, from, to) /\ SumOf(f, a, b) = SumOf(p, from, to)
  BY <1>3, <1>4
<1>6. \A r \in from..(to - 1) : g[r] = p[r]
  BY <1>0, <1>4
<1> HIDE DEF p
<1>7. SumOf(g, from, to) = SumOf(p, from, to)
  BY <1>5, <1>6, SumSame
<1>8. IntTerms(g, from, to)
  BY <1>5, <1>6 DEF IntTerms
<1> QED BY <1>5, <1>7, <1>8
=============================================================================
