--------------------------- MODULE Packing_proofs ---------------------------
(***************************************************************************)
(* The schedule of the fused path of packing, for every ring, gadget,      *)
(* batch, number of threads and width of an accumulator.                   *)
(***************************************************************************)
EXTENDS Packing, SequenceTheorems, Arithmetic

Poly == [Index -> Coeff]
Row == [Columns -> Poly]

LEMMA RingFacts ==
    /\ D \in Nat /\ D >= 2 /\ Q \in Nat /\ Q >= 3 /\ ell \in Nat /\ ell >= 1
    /\ bits_per \in Nat /\ bits_per >= 1 /\ P \in Nat /\ P >= 2 /\ Psi \in Coeff
    /\ \E k \in 1..D : D = 2^k
    /\ d_inv \in Coeff
<1>1. /\ D \in Nat /\ D >= 2 /\ Q \in Nat /\ Q >= 3 /\ ell \in Nat /\ ell >= 1
      /\ bits_per \in Nat /\ bits_per >= 1 /\ P \in Nat /\ P >= 2 /\ Psi \in Coeff
      /\ \E k \in 1..D : D = 2^k
      /\ \E x \in Coeff : (D * x) % Q = 1
  BY RingConstants DEF valid_params
<1>2. d_inv \in Coeff
  BY <1>1 DEF d_inv, mod_inverse
<1> QED BY <1>1, <1>2

LEMMA HalfFacts == Half \in Nat /\ Half >= 1 /\ D = 2 * Half /\ Steps = 2 * Half - 1
<1>1. PICK k \in 1..D : D = 2^k
  BY RingFacts
<1>2. k - 1 \in Nat /\ (k - 1) + 1 = k /\ D \in Nat
  BY RingFacts
<1>3. 2^k = 2 * 2^(k - 1) /\ 2^(k - 1) \in Nat
  BY <1>2, PowerDoubles
<1>4. D \div 2 = 2^(k - 1)
  BY <1>1, <1>2, <1>3
<1> QED BY <1>1, <1>3, <1>4, RingFacts DEF Half, Steps

LEMMA ModCoeff == ASSUME NEW x \in Int PROVE x % Q \in Coeff
  BY RingFacts, ModTwice DEF Coeff

(* A sum modulo Q is a coefficient. *)
LEMMA SumInCoeff ==
    ASSUME NEW f, NEW from, NEW to, IntTerms(f, from, to)
    PROVE  SumOf(f, from, to) % Q \in Coeff
  BY SumIsInt, ModCoeff

LEMMA CoeffFacts ==
    /\ Coeff \subseteq Int /\ Coeff \subseteq Nat /\ 0 \in Coeff /\ 1 \in Coeff
    /\ \A x \in Coeff : x >= 0 /\ x <= Q - 1
    /\ Index \subseteq Nat /\ 0 \in Index /\ Columns \subseteq Nat /\ 0 \in Columns /\ ell - 1 \in Columns
    /\ \A k \in Columns : k # 0 => k - 1 \in Columns
  BY RingFacts DEF Coeff, Index, Columns

(* What holds of the start and is kept by each step of a recursive function   *)
(* holds of all its values.                                                   *)
LEMMA ValuesIn ==
    ASSUME NEW T, NEW N \in Nat, NEW p, p[0] \in T,
           \A n \in 0..(N - 1) : p[n] \in T => p[n + 1] \in T
    PROVE  \A n \in 0..N : p[n] \in T
<1> DEFINE S == {n \in Nat : n <= N => p[n] \in T}
<1>1. 0 \in S
  OBVIOUS
<1>2. ASSUME NEW n \in Nat, n \in S PROVE n + 1 \in S
  <2>1. CASE n + 1 <= N
    <3>1. n \in 0..(N - 1) /\ p[n] \in T
      BY <1>2, <2>1
    <3> QED BY <3>1
  <2>2. CASE ~(n + 1 <= N)
    BY <2>2
  <2> QED BY <2>1, <2>2
<1> HIDE DEF S
<1>3. Nat \subseteq S
  BY <1>1, <1>2, SetInduction
<1> QED BY <1>3 DEF S

LEMMA PowersOfPsi == PsiPower \in [0..(2 * D - 1) -> Coeff]
<1> DEFINE E == 0..(2 * D - 1)
           Is(p) == p = [e \in E |-> IF e = 0 THEN 1 ELSE (p[e - 1] * Psi) % Q]
           step == [x \in Nat \X Coeff |-> (x[2] * Psi) % Q]
           last == 2 * D - 1
<1>1. \A x \in Coeff : (x * Psi) % Q \in Coeff
  <2> TAKE x \in Coeff
  <2>1. x \in Int /\ Psi \in Int
    BY RingFacts, CoeffFacts
  <2>2. x * Psi \in Int
    BY <2>1, ProductsAreInt
  <2> QED BY <2>2, ModCoeff
<1>2. step \in [Nat \X Coeff -> Coeff]
  <2>1. ASSUME NEW x \in Nat \X Coeff PROVE (x[2] * Psi) % Q \in Coeff
    BY <1>1
  <2> QED BY <2>1
<1> HIDE DEF step
<1>3. Recurs(Coeff, 1, step) /\ last \in Nat
  BY <1>2, CoeffFacts, RingFacts DEF Recurs
<1>4. PICK s \in [E -> Coeff] : s[0] = 1 /\ \A n \in 1..last : s[n] = step[<<n - 1, s[n - 1]>>]
  BY <1>3, RecursionUpto
<1>5. \E p : Is(p)
  <2>1. ASSUME NEW e \in E PROVE s[e] = IF e = 0 THEN 1 ELSE (s[e - 1] * Psi) % Q
    <3>1. CASE e = 0
      BY <1>4, <3>1
    <3>2. CASE e # 0
      <4>1. e - 1 \in E /\ e - 1 \in Nat /\ e \in 1..last
        BY <3>2, RingFacts
      <4>2. s[e] = step[<<e - 1, s[e - 1]>>] /\ s[e - 1] \in Coeff
        BY <1>4, <4>1
      <4> QED BY <3>2, <4>1, <4>2 DEF step
    <3> QED BY <3>1, <3>2
  <2> QED BY <2>1
<1> DEFINE p == CHOOSE p : Is(p)
<1>6. Is(p)
  BY <1>5
<1>7. PsiPower = [e \in E |-> p[e]]
  BY Zenon DEF PsiPower
<1> HIDE DEF p
<1>8. last \in Nat /\ E = 0..last
  BY RingFacts
<1>9. \A n \in 0..last : p[n] \in Coeff
  <2>1. p[0] \in Coeff
    BY <1>6, <1>8, CoeffFacts
  <2>2. ASSUME NEW n \in 0..(last - 1), p[n] \in Coeff PROVE p[n + 1] \in Coeff
    <3>1. n + 1 \in E /\ n + 1 # 0 /\ (n + 1) - 1 = n
      BY <1>8
    <3>2. p[n + 1] = (p[n] * Psi) % Q
      BY <1>6, <3>1
    <3> QED BY <1>1, <2>2, <3>2
  <2> HIDE DEF last
  <2> QED BY <1>8, <2>1, <2>2, ValuesIn
<1> QED BY <1>7, <1>8, <1>9

-----------------------------------------------------------------------------
(* The operations of the ring give polynomials. *)

LEMMA SumModTyped ==
    ASSUME NEW f, NEW N \in Nat, \A k \in 0..(N - 1) : f[k] \in Int
    PROVE  SumOf(f, 0, N) % Q \in Coeff
<1>1. IntTerms(f, 0, N)
  BY DEF IntTerms
<1> QED BY <1>1, SumInCoeff

LEMMA ProductMod == \A x, y \in Int : (x * y) % Q \in Coeff /\ (x * y) % Q \in Int
<1> TAKE x, y \in Int
<1>1. x * y \in Int
  BY ProductsAreInt
<1>2. (x * y) % Q \in Coeff
  BY <1>1, ModCoeff
<1> QED BY <1>2, CoeffFacts

(* An exponent reduced modulo 2*D. *)
LEMMA Exponents == \A e \in Int : e % (2 * D) \in 0..(2 * D - 1)
<1> TAKE e \in Int
<1> DEFINE w == 2 * D
<1>1. w \in Nat /\ w > 0
  BY RingFacts
<1> HIDE DEF w
<1>2. e % w \in 0..(w - 1)
  BY <1>1, ModTwice
<1> QED BY <1>2 DEF w

LEMMA PsiInt == \A e \in Int : PsiPower[e % (2 * D)] \in Int
  BY Exponents, PowersOfPsi, CoeffFacts

LEMMA NttTyped == ASSUME NEW p \in [Index -> Int] PROVE ntt(p) \in Poly
<1>1. ASSUME NEW i \in Index
      PROVE  SumMod(LAMBDA k : (p[k] * PsiPower[((2 * i + 1) * k) % (2 * D)]) % Q, 0, D) \in Coeff
  <2> DEFINE f == [k \in 0..(D - 1) |-> (p[k] * PsiPower[((2 * i + 1) * k) % (2 * D)]) % Q]
  <2>1. ASSUME NEW k \in 0..(D - 1) PROVE f[k] \in Int
    <3>1. k \in Int /\ 2 * i + 1 \in Int /\ k \in Index
      BY RingFacts DEF Index
    <3> DEFINE e == (2 * i + 1) * k
    <3>2. e \in Int
      BY <3>1, ProductsAreInt
    <3> HIDE DEF e
    <3>3. PsiPower[e % (2 * D)] \in Int /\ p[k] \in Int
      BY <3>1, <3>2, PsiInt
    <3> QED BY <3>3, ProductMod DEF e
  <2> HIDE DEF f
  <2>2. SumOf(f, 0, D) % Q \in Coeff
    BY <2>1, RingFacts, SumModTyped
  <2> QED BY <2>2 DEF SumMod, f
<1> QED BY <1>1 DEF ntt, Poly

LEMMA FromNttTyped == ASSUME NEW v \in Poly PROVE from_ntt(v) \in Poly
<1>1. ASSUME NEW k \in Index
      PROVE  SumMod(LAMBDA i : (v[i] * PsiPower[(-((2 * i + 1) * k)) % (2 * D)]) % Q, 0, D) \in Coeff
  <2> DEFINE f == [i \in 0..(D - 1) |-> (v[i] * PsiPower[(-((2 * i + 1) * k)) % (2 * D)]) % Q]
  <2>1. ASSUME NEW i \in 0..(D - 1) PROVE f[i] \in Int
    <3>1. k \in Int /\ 2 * i + 1 \in Int /\ i \in Index
      BY RingFacts DEF Index
    <3> DEFINE e == -((2 * i + 1) * k)
    <3>2. e \in Int
      <4>1. (2 * i + 1) * k \in Int
        BY <3>1, ProductsAreInt
      <4> QED BY <4>1
    <3> HIDE DEF e
    <3>3. PsiPower[e % (2 * D)] \in Int /\ v[i] \in Int
      BY <3>1, <3>2, PsiInt, CoeffFacts DEF Poly
    <3> QED BY <3>3, ProductMod DEF e
  <2> HIDE DEF f
  <2>2. SumOf(f, 0, D) % Q \in Coeff
    BY <2>1, RingFacts, SumModTyped
  <2> QED BY <2>2 DEF SumMod, f
<1>2. \A x \in Coeff : (d_inv * x) % Q \in Coeff
  BY ProductMod, RingFacts, CoeffFacts
<1> QED BY <1>1, <1>2 DEF from_ntt, Poly

LEMMA PolyInt == Poly \subseteq [Index -> Int]
  BY CoeffFacts DEF Poly

LEMMA NttPoly == ASSUME NEW p \in Poly PROVE ntt(p) \in Poly
  BY PolyInt, NttTyped

LEMMA NegTyped == \A x \in Coeff : neg(x) \in Coeff
  BY RingFacts DEF neg, Coeff

LEMMA PointwiseTyped ==
    ASSUME NEW u \in Poly, NEW v \in Poly
    PROVE  add(u, v) \in Poly /\ mul(u, v) \in Poly /\ negate(u) \in Poly
<1>1. ASSUME NEW i \in Index
      PROVE  (u[i] + v[i]) % Q \in Coeff /\ (u[i] * v[i]) % Q \in Coeff /\ neg(u[i]) \in Coeff
  <2>1. u[i] \in Int /\ v[i] \in Int /\ u[i] \in Coeff
    BY CoeffFacts DEF Poly
  <2>2. u[i] + v[i] \in Int
    BY <2>1
  <2> QED BY <2>1, <2>2, ModCoeff, ProductMod, NegTyped
<1> QED BY <1>1 DEF add, mul, negate, Poly

LEMMA MultiplyTyped == ASSUME NEW row \in Row, NEW term \in Row PROVE multiply(row, term) \in Poly
<1>1. ASSUME NEW i \in Index PROVE SumMod(LAMBDA k : (row[k][i] * term[k][i]) % Q, 0, ell) \in Coeff
  <2> DEFINE f == [k \in 0..(ell - 1) |-> (row[k][i] * term[k][i]) % Q]
  <2>1. ASSUME NEW k \in 0..(ell - 1) PROVE f[k] \in Int
    <3>1. row[k][i] \in Int /\ term[k][i] \in Int
      BY CoeffFacts DEF Row, Poly, Columns
    <3> QED BY <3>1, ProductMod
  <2> HIDE DEF f
  <2>2. SumOf(f, 0, ell) % Q \in Coeff
    BY <2>1, RingFacts, SumModTyped
  <2> QED BY <2>2 DEF SumMod, f
<1> QED BY <1>1 DEF multiply, Poly

(* The balanced digits of a coefficient. *)
LEMMA RadixPositive == z \in Nat /\ z > 0
  BY RingFacts, PowerPositive DEF z

LEMMA DigitsTyped == ASSUME NEW x \in Coeff PROVE digits_of(x) \in [Columns -> Coeff]
<1> DEFINE carry(y) == IF y % z >= z \div 2 THEN 1 ELSE 0
           Is(r) == r = [k \in Columns |-> IF k = 0 THEN x ELSE (r[k - 1] \div z) + carry(r[k - 1])]
           step == [y \in Nat \X Int |-> (y[2] \div z) + carry(y[2])]
           last == ell - 1
           T == Int
<1>1. \A y \in Int : (y \div z) + carry(y) \in Int
  <2> TAKE y \in Int
  <2>1. y \div z \in Int
    BY RadixPositive, IntDivided
  <2> QED BY <2>1
<1>2. step \in [Nat \X Int -> Int]
  <2>1. ASSUME NEW y \in Nat \X Int PROVE (y[2] \div z) + carry(y[2]) \in Int
    <3>1. y[2] \in Int
      OBVIOUS
    <3> HIDE DEF carry
    <3> QED BY <1>1, <3>1
  <2> HIDE DEF carry
  <2> QED BY <2>1
<1>3. Recurs(T, x, step) /\ last \in Nat /\ Columns = 0..last
  BY <1>2, CoeffFacts, RingFacts DEF Recurs, Columns
<1>4. \A y \in Nat \X Int : step[y] = (y[2] \div z) + carry(y[2])
  <2> HIDE DEF carry
  <2> QED OBVIOUS
<1> HIDE DEF step, last
<1>5. PICK s \in [0..last -> Int] : s[0] = x /\ \A n \in 1..last : s[n] = step[<<n - 1, s[n - 1]>>]
  <2> HIDE DEF T
  <2>1. \E s \in [0..last -> T] : s[0] = x /\ \A n \in 1..last : s[n] = step[<<n - 1, s[n - 1]>>]
    BY <1>3, RecursionUpto
  <2> QED BY <2>1, Zenon DEF T
<1>6. \E r : Is(r)
  <2>1. ASSUME NEW k \in Columns PROVE s[k] = IF k = 0 THEN x ELSE (s[k - 1] \div z) + carry(s[k - 1])
    <3> HIDE DEF carry
    <3>1. CASE k = 0
      BY <1>5, <3>1
    <3>2. CASE k # 0
      <4>1. k - 1 \in 0..last /\ k - 1 \in Nat /\ k \in 1..last
        BY <1>3, <3>2
      <4>2. s[k] = step[<<k - 1, s[k - 1]>>] /\ s[k - 1] \in Int
        BY <1>5, <4>1
      <4> DEFINE y == <<k - 1, s[k - 1]>>
      <4>3. y \in Nat \X Int /\ y[2] = s[k - 1]
        BY <4>1, <4>2
      <4> HIDE DEF y
      <4>4. step[y] = (s[k - 1] \div z) + carry(s[k - 1])
        BY <1>4, <4>3
      <4> QED BY <3>2, <4>2, <4>4 DEF y
    <3> QED BY <3>1, <3>2
  <2>2. s = [k \in Columns |-> s[k]]
    BY <1>3
  <2> HIDE DEF carry
  <2>3. s = [k \in Columns |-> IF k = 0 THEN x ELSE (s[k - 1] \div z) + carry(s[k - 1])]
    BY <2>1, <2>2, Zenon
  <2> QED BY <2>3
<1> DEFINE rest == CHOOSE r : Is(r)
<1>7. Is(rest)
  <2> HIDE DEF Is
  <2> QED BY <1>6
<1>8. digits_of(x) = [k \in Columns |-> IF k = ell - 1 THEN rest[k] % Q
                                        ELSE ((rest[k] % z) - (z * carry(rest[k]))) % Q]
  BY Zenon DEF digits_of
<1> HIDE DEF rest
<1>9. \A n \in 0..last : rest[n] \in Int
  <2> HIDE DEF carry
  <2>1. rest[0] \in Int
    BY <1>3, <1>7, CoeffFacts
  <2>2. ASSUME NEW n \in 0..(last - 1), rest[n] \in Int PROVE rest[n + 1] \in Int
    <3>1. n + 1 \in Columns /\ n + 1 # 0 /\ (n + 1) - 1 = n
      BY <1>3
    <3>2. rest[n + 1] = (rest[n] \div z) + carry(rest[n])
      BY <1>7, <3>1
    <3> QED BY <1>1, <2>2, <3>2
  <2> QED BY <1>3, <2>1, <2>2, ValuesIn
<1>10. ASSUME NEW k \in Columns
       PROVE  rest[k] % Q \in Coeff /\ ((rest[k] % z) - (z * carry(rest[k]))) % Q \in Coeff
  <2>1. rest[k] \in Int
    BY <1>3, <1>9
  <2>2. rest[k] % z \in Int
    BY <2>1, RadixPositive, ModTwice
  <2>3. carry(rest[k]) \in Int
    OBVIOUS
  <2> HIDE DEF carry
  <2>4. z * carry(rest[k]) \in Int
    BY <2>3, RadixPositive, ProductsAreInt
  <2>5. (rest[k] % z) - (z * carry(rest[k])) \in Int
    BY <2>2, <2>4
  <2> QED BY <2>1, <2>5, ModCoeff
<1> HIDE DEF carry
<1> QED BY <1>8, <1>10

LEMMA SwitchDigitsTyped == ASSUME NEW c1 \in Poly PROVE ks_digits_ntt_from_c1(c1) \in Row
<1> DEFINE p == from_ntt(c1)
           raw == signed_gadget_invert(p)
<1>1. p \in Poly
  BY FromNttTyped
<1> HIDE DEF p
<1>2. ASSUME NEW k \in Columns PROVE raw[k] \in Poly
  <2>1. ASSUME NEW i \in Index PROVE digits_of(p[i]) \in [Columns -> Coeff]
    BY <1>1, DigitsTyped DEF Poly
  <2>2. raw[k] = [i \in Index |-> digits_of(p[i])[k]]
    BY DEF signed_gadget_invert
  <2> QED BY <2>1, <2>2 DEF Poly
<1> HIDE DEF raw
<1>3. ASSUME NEW k \in Columns PROVE ntt(raw[k]) \in Poly
  BY <1>2, NttPoly
<1>4. ks_digits_ntt_from_c1(c1) = [k \in Columns |-> ntt(raw[k])]
  BY DEF ks_digits_ntt_from_c1, raw, p
<1> QED BY <1>3, <1>4 DEF Row

-----------------------------------------------------------------------------
(* Automorphisms: an odd number has an inverse modulo every power of two, so  *)
(* every coefficient of tau_raw has a source.                                 *)

LEMMA OddInverse ==
    ASSUME NEW t \in Nat, t % 2 = 1, NEW k \in Nat
    PROVE  \E u \in Int, m \in Int : t * u = 1 + m * 2^k
<1> DEFINE S == {n \in Nat : \E u \in Int, m \in Int : t * u = 1 + m * 2^n}
<1>1. 0 \in S
  <2>1. 1 \in Int /\ t - 1 \in Int /\ t * 1 = 1 + (t - 1) * 1
    OBVIOUS
  <2>2. t * 1 = 1 + (t - 1) * 2^0
    BY <2>1, PowerZero
  <2> QED BY <2>1, <2>2
<1>2. ASSUME NEW n \in Nat, n \in S PROVE n + 1 \in S
  <2>1. PICK u \in Int, m \in Int : t * u = 1 + m * 2^n
    BY <1>2
  <2> DEFINE w == 2^n
  <2>2. w \in Int /\ 2^(n + 1) = 2 * w
    BY PowerDoubles
  <2>3. t * u = 1 + m * w
    BY <2>1
  <2> HIDE DEF w
  <2>4. CASE m % 2 = 0
    <3> DEFINE e == m \div 2
    <3>1. e \in Int /\ m = 2 * e
      BY <2>4
    <3> HIDE DEF e
    <3>2. m * w = e * (2 * w)
      BY <2>2, <3>1, SMT
    <3>3. t * u = 1 + e * 2^(n + 1)
      BY <2>2, <2>3, <3>2
    <3> QED BY <3>1, <3>3
  <2>5. CASE m % 2 # 0
    <3> DEFINE e == (m + t) \div 2
               v == u + w
    <3>1. e \in Int /\ m + t = 2 * e /\ v \in Int
      BY <2>2, <2>5
    <3>2. t * v = t * u + t * w
      BY <2>2, SMT
    <3> HIDE DEF e, v
    <3>3. m * w + t * w = (m + t) * w /\ (2 * e) * w = e * (2 * w)
      BY <2>2, <3>1, SMT
    <3>4. t * v = 1 + e * (2 * w)
      <4>1. m * w \in Int /\ t * w \in Int
        BY <2>2, ProductsAreInt
      <4>2. (m + t) * w = e * (2 * w)
        BY <3>1, <3>3
      <4>3. t * v = (1 + m * w) + t * w
        BY <2>3, <3>2
      <4>4. (1 + m * w) + t * w = 1 + (m * w + t * w)
        BY <4>1
      <4> QED BY <3>3, <4>2, <4>3, <4>4
    <3>5. t * v = 1 + e * 2^(n + 1)
      BY <2>2, <3>4
    <3> QED BY <3>1, <3>5
  <2> QED BY <2>4, <2>5
<1> HIDE DEF S
<1>3. Nat \subseteq S
  BY <1>1, <1>2, SetInduction
<1> QED BY <1>3 DEF S

LEMMA Sources ==
    ASSUME NEW t \in Nat, t % 2 = 1, NEW i \in Index
    PROVE  \E k \in Index : (k * t) % D = i
<1>1. PICK j \in 1..D : D = 2^j
  BY RingFacts
<1>2. j \in Nat /\ D \in Nat /\ D > 0 /\ i \in Int /\ i \in 0..(D - 1) /\ D \in Int
  BY RingFacts DEF Index
<1>3. PICK u \in Int, m \in Int : t * u = 1 + m * 2^j
  BY <1>2, OddInverse
<1>4. t * u = 1 + m * D
  BY <1>1, <1>3
<1> DEFINE x == i * u
           k == x % D
<1>5. x \in Int
  BY <1>2, ProductsAreInt
<1>6. x * t = i + (i * m) * D
  <2>1. x * t = i * (t * u)
    BY <1>2, SMT
  <2> DEFINE n == m * D
  <2>2. n \in Int /\ i * n = (i * m) * D
    BY <1>2, SMT
  <2> HIDE DEF n
  <2>3. i * (1 + n) = i + i * n
    BY <1>2, <2>2, SMT
  <2> QED BY <1>4, <2>1, <2>2, <2>3 DEF n
<1> HIDE DEF x
<1>7. k \in Index /\ k \in Int /\ k % D = x % D
  BY <1>2, <1>5, ModTwice DEF Index
<1> HIDE DEF k
<1>8. (k * t) % D = (x * t) % D
  <2>1. Same(k, x, D) /\ Same(t, t, D)
    BY <1>2, <1>5, <1>7 DEF Same
  <2>2. Same(k * t, x * t, D)
    BY <2>1, SameProduct
  <2> QED BY <2>2 DEF Same
<1>9. (i + (i * m) * D) % D = i % D
  BY <1>2, ProductsAreInt, IntModShift
<1>10. i % D = i
  BY <1>2, ModSmall
<1> QED BY <1>6, <1>7, <1>8, <1>9, <1>10

LEMMA TauTyped == ASSUME NEW p \in Poly, NEW t \in Nat, t % 2 = 1 PROVE tau_raw(p, t) \in Poly
<1> DEFINE source(i) == CHOOSE k \in Index : (k * t) % D = i
<1>1. ASSUME NEW i \in Index PROVE source(i) \in Index
  BY Sources
<1>2. tau_raw(p, t) = [i \in Index |->
         IF (source(i) * t) % (2 * D) < D THEN p[source(i)] ELSE neg(p[source(i)])]
  BY DEF tau_raw
<1> HIDE DEF source
<1>3. ASSUME NEW i \in Index PROVE p[source(i)] \in Coeff /\ neg(p[source(i)]) \in Coeff
  BY <1>1, NegTyped DEF Poly
<1> QED BY <1>2, <1>3 DEF Poly

LEMMA Generators ==
    /\ tau_g_pow(1) \in Nat /\ tau_g_pow(1) % 2 = 1
    /\ h \in Nat /\ h % 2 = 1
<1> DEFINE w == 2 * D
           Is(p) == p = [i \in 0..1 |-> IF i = 0 THEN 1 ELSE (p[i - 1] * G) % w]
           q == [i \in 0..1 |-> IF i = 0 THEN 1 ELSE G % w]
<1>1. Is(q)
  BY DEF G
<1> DEFINE p == CHOOSE p : Is(p)
<1>2. Is(p)
  <2> HIDE DEF Is, q
  <2> QED BY <1>1
<1>3. tau_g_pow(1) = p[1]
  BY Zenon DEF tau_g_pow
<1> HIDE DEF p, q
<1>4. p[1] = 5 % w
  BY <1>2 DEF G
<1> DEFINE e == 5 \div w
           r == 5 % w
<1>5. w \in Nat /\ w > 0
  BY RingFacts
<1> HIDE DEF w
<1>6. e \in Int /\ r \in Nat /\ 5 = e * w + r
  BY <1>5, IntDivided
<1> HIDE DEF e, r
<1>7. e * w = 2 * (e * D) /\ e * D \in Int
  BY <1>6, RingFacts, SMT DEF w
<1>8. r % 2 = 1
  <2> DEFINE y == e * D
  <2>1. y \in Int /\ 5 = 2 * y + r
    BY <1>6, <1>7
  <2> HIDE DEF y
  <2> QED BY <1>6, <2>1
<1>9. h \in Nat /\ h % 2 = 1
  BY RingFacts DEF h
<1> QED BY <1>3, <1>4, <1>6, <1>8, <1>9 DEF r

-----------------------------------------------------------------------------
(* Requests *)

LEMMA BodyTyped ==
    ASSUME NEW s \in Poly, NEW t \in Nat, t % 2 = 1, NEW mask \in Row, NEW error \in Row
    PROVE  generate_reference_body(s, t, mask, error) \in Row
<1> DEFINE gadget(k) == [i \in Index |-> IF i = 0 THEN 2^(bits_per * k) % Q ELSE 0]
           column(k) == add(add(mul(ntt(s), ntt(mask[k])), ntt(error[k])), mul(ntt(tau_raw(s, t)), ntt(gadget(k))))
<1>1. ASSUME NEW k \in Columns PROVE column(k) \in Poly
  <2>1. mask[k] \in Poly /\ error[k] \in Poly
    BY DEF Row
  <2>2. gadget(k) \in Poly
    <3>1. bits_per * k \in Nat
      BY RingFacts, CoeffFacts, ProductsAreNat
    <3>2. 2^(bits_per * k) \in Int
      BY <3>1, PowerPositive
    <3>3. 2^(bits_per * k) % Q \in Coeff /\ 0 \in Coeff
      BY <3>2, ModCoeff, CoeffFacts
    <3> QED BY <3>3 DEF Poly
  <2>3. tau_raw(s, t) \in Poly
    BY TauTyped
  <2> HIDE DEF gadget
  <2>4. /\ ntt(s) \in Poly /\ ntt(mask[k]) \in Poly /\ ntt(error[k]) \in Poly
        /\ ntt(tau_raw(s, t)) \in Poly /\ ntt(gadget(k)) \in Poly
    BY <2>1, <2>2, <2>3, NttPoly
  <2>5. mul(ntt(s), ntt(mask[k])) \in Poly /\ mul(ntt(tau_raw(s, t)), ntt(gadget(k))) \in Poly
    BY <2>4, PointwiseTyped
  <2>6. add(mul(ntt(s), ntt(mask[k])), ntt(error[k])) \in Poly
    BY <2>4, <2>5, PointwiseTyped
  <2> QED BY <2>5, <2>6, PointwiseTyped
<1>2. generate_reference_body(s, t, mask, error) = [k \in Columns |-> column(k)]
  BY DEF generate_reference_body
<1> HIDE DEF column
<1> QED BY <1>1, <1>2 DEF Row

Given == [s : Poly, eg : Row, eh : Row, m : [Index -> 0..(P - 1)], e : Poly]
Request(r) == r.kg \in Row /\ r.kh \in Row /\ r.b \in Poly

LEMMA EncryptTyped ==
    ASSUME NEW rows \in [Index -> Poly], NEW g \in Given
    PROVE  Request(Encrypt(rows, g))
<1>1. g.s \in Poly /\ g.eg \in Row /\ g.eh \in Row /\ g.m \in [Index -> 0..(P - 1)] /\ g.e \in Poly
  BY DEF Given
<1>2. MaskW \in Row /\ MaskV \in Row
  BY PackingConstants DEF Row, Poly
<1> DEFINE bodies == generate_full(g.s, g.eg, g.eh)
           b == [k \in Index |-> (delta * g.m[k] + g.e[k] + Q - inner(rows[k], g.s)) % Q]
<1>3. bodies.kg \in Row /\ bodies.kh \in Row
  <2>1. /\ bodies.kg = generate_reference_body(g.s, tau_g_pow(1), MaskW, g.eg)
        /\ bodies.kh = generate_reference_body(g.s, h, MaskV, g.eh)
    BY DEF generate_full
  <2> HIDE DEF bodies
  <2>2. generate_reference_body(g.s, tau_g_pow(1), MaskW, g.eg) \in Row
    BY <1>1, <1>2, Generators, BodyTyped
  <2>3. generate_reference_body(g.s, h, MaskV, g.eh) \in Row
    BY <1>1, <1>2, Generators, BodyTyped
  <2> QED BY <2>1, <2>2, <2>3
<1>4. ASSUME NEW k \in Index PROVE inner(rows[k], g.s) \in Int
  <2> DEFINE f == [i \in 0..(D - 1) |-> (rows[k][i] * g.s[i]) % Q]
  <2>1. ASSUME NEW i \in 0..(D - 1) PROVE f[i] \in Int
    <3>1. rows[k][i] \in Int /\ g.s[i] \in Int
      BY <1>1, CoeffFacts DEF Poly, Index
    <3> QED BY <3>1, ProductMod
  <2> HIDE DEF f
  <2>2. SumOf(f, 0, D) % Q \in Coeff
    BY <2>1, RingFacts, SumModTyped
  <2> QED BY <2>2, CoeffFacts DEF inner, SumMod, f
<1>5. b \in Poly
  <2>1. ASSUME NEW k \in Index PROVE (delta * g.m[k] + g.e[k] + Q - inner(rows[k], g.s)) % Q \in Coeff
    <3>1. delta \in Int
      <4>1. Q \in Int /\ P \in Nat /\ P > 0
        BY RingFacts
      <4> QED BY <4>1, IntDivided DEF delta
    <3>2. g.m[k] \in Int /\ g.e[k] \in Int /\ Q \in Int
      <4>1. g.m[k] \in 0..(P - 1)
        BY <1>1
      <4>2. g.e[k] \in Coeff
        BY <1>1 DEF Poly
      <4>3. Q \in Int /\ P \in Int
        BY RingFacts
      <4>4. g.m[k] \in Int
        BY <4>1, <4>3
      <4>5. g.e[k] \in Int
        BY <4>2, CoeffFacts
      <4> QED BY <4>3, <4>4, <4>5
    <3>3. delta * g.m[k] \in Int
      BY <3>1, <3>2, ProductsAreInt
    <3>4. delta * g.m[k] + g.e[k] + Q - inner(rows[k], g.s) \in Int
      BY <1>4, <3>2, <3>3
    <3> QED BY <3>4, ModCoeff
  <2> QED BY <2>1 DEF Poly
<1>6. Encrypt(rows, g) = [s |-> g.s, m |-> g.m, kg |-> bodies.kg, kh |-> bodies.kh, b |-> b]
  BY DEF Encrypt
<1> HIDE DEF bodies, b
<1> QED BY <1>3, <1>5, <1>6 DEF Request

LEMMA BatchTyped ==
    ASSUME NEW rows \in [Index -> Poly], NEW given \in Batches
    PROVE  LET b == EncryptBatch(rows, given)
           IN  \E N \in Nat : DOMAIN b = 1..N /\ Len(b) = N /\ \A r \in 1..N : Request(b[r])
<1>1. given \in Seq(Given)
  BY PackingConstants DEF Given, Row, Poly
<1>2. Len(given) \in Nat /\ DOMAIN given = 1..Len(given) /\ \A r \in 1..Len(given) : given[r] \in Given
  BY <1>1
<1> DEFINE b == EncryptBatch(rows, given)
<1>3. b = [r \in 1..Len(given) |-> Encrypt(rows, given[r])]
  BY <1>2 DEF EncryptBatch
<1> HIDE DEF b
<1>4. DOMAIN b = 1..Len(given) /\ Len(b) = Len(given)
  <2>1. DOMAIN b = 1..Len(given)
    BY <1>3
  <2> QED BY <1>2, <1>3, <2>1
<1>5. ASSUME NEW r \in 1..Len(given) PROVE Request(b[r])
  BY <1>2, <1>3, EncryptTyped
<1> QED BY <1>2, <1>4, <1>5 DEF b

-----------------------------------------------------------------------------
(* Tables and the slots they give *)

Permuted == [Index -> Index]

LEMMA ComposeTyped == \A s, t \in Permuted : compose_tables(s, t) \in Permuted
  BY DEF compose_tables, Permuted

LEMMA TablesTyped ==
    LeftTables \in [0..(Half - 1) -> Permuted] /\ RightTables \in [0..(Half - 1) -> Permuted]
<1> DEFINE last == D \div 2 - 1
           E == 0..last
           id == [k \in Index |-> k]
           Is(t) == t = [i \in E |-> IF i = 0 THEN id ELSE compose_tables(t[i - 1], g_table)]
           step == [x \in Nat \X Permuted |-> compose_tables(x[2], g_table)]
<1>1. g_table \in Permuted /\ h_table \in Permuted /\ id \in Permuted
  BY TablesFound DEF Permuted
<1>2. last \in Nat /\ last = Half - 1
  BY HalfFacts DEF Half
<1>3. step \in [Nat \X Permuted -> Permuted]
  BY <1>1, ComposeTyped
<1>4. Recurs(Permuted, id, step)
  BY <1>1, <1>3 DEF Recurs
<1>5. \A x \in Nat \X Permuted : step[x] = compose_tables(x[2], g_table)
  OBVIOUS
<1> HIDE DEF step, last, id
<1>6. PICK s \in [0..last -> Permuted] : s[0] = id /\ \A n \in 1..last : s[n] = step[<<n - 1, s[n - 1]>>]
  BY <1>2, <1>4, RecursionUpto
<1>7. \E t : Is(t)
  <2>1. ASSUME NEW i \in E PROVE s[i] = IF i = 0 THEN id ELSE compose_tables(s[i - 1], g_table)
    <3>1. CASE i = 0
      BY <1>6, <3>1
    <3>2. CASE i # 0
      <4>1. i - 1 \in 0..last /\ i - 1 \in Nat /\ i \in 1..last
        BY <1>2, <3>2
      <4>2. s[i] = step[<<i - 1, s[i - 1]>>] /\ s[i - 1] \in Permuted
        BY <1>6, <4>1
      <4> DEFINE x == <<i - 1, s[i - 1]>>
      <4>3. x \in Nat \X Permuted /\ x[2] = s[i - 1]
        BY <4>1, <4>2
      <4> HIDE DEF x
      <4>4. step[x] = compose_tables(s[i - 1], g_table)
        BY <1>5, <4>3
      <4> QED BY <3>2, <4>2, <4>4 DEF x
    <3> QED BY <3>1, <3>2
  <2>2. s = [i \in E |-> s[i]]
    BY <1>2
  <2>3. Is(s)
    BY <2>1, <2>2, Zenon
  <2> QED BY <2>3
<1> DEFINE t == CHOOSE t : Is(t)
<1>8. Is(t)
  <2> HIDE DEF Is
  <2> QED BY <1>7
<1>9. LeftTables = [i \in E |-> t[i]]
  BY Zenon DEF LeftTables, id, last
<1> HIDE DEF t
<1>10. \A n \in 0..last : t[n] \in Permuted
  <2>1. t[0] \in Permuted
    <3>1. 0 \in E
      BY <1>2
    <3> QED BY <1>1, <1>8, <3>1
  <2>2. ASSUME NEW n \in 0..(last - 1), t[n] \in Permuted PROVE t[n + 1] \in Permuted
    <3>1. n + 1 \in E /\ n + 1 # 0 /\ (n + 1) - 1 = n
      BY <1>2
    <3>2. t[n + 1] = compose_tables(t[n], g_table)
      BY <1>8, <3>1
    <3> QED BY <1>1, <2>2, <3>2, ComposeTyped
  <2> QED BY <1>2, <2>1, <2>2, ValuesIn
<1>11. LeftTables \in [0..last -> Permuted]
  BY <1>2, <1>9, <1>10
<1>12. RightTables = [i \in 0..last |-> compose_tables(LeftTables[i], h_table)]
  BY DEF RightTables, last
<1>13. RightTables \in [0..last -> Permuted]
  BY <1>1, <1>11, <1>12, ComposeTyped
<1> QED BY <1>2, <1>11, <1>13

LEMMA TableTyped == ASSUME NEW n \in 1..(Steps - 1) PROVE Table(n) \in Permuted
<1>1. CASE n < Half
  <2>1. Half - 1 - n \in 0..(Half - 1)
    BY <1>1, HalfFacts
  <2> QED BY <1>1, <2>1, TablesTyped DEF Table
<1>2. CASE ~(n < Half)
  <2>1. Steps - 1 - n \in 0..(Half - 1)
    BY <1>2, HalfFacts
  <2> QED BY <1>2, <2>1, TablesTyped DEF Table
<1> QED BY <1>1, <1>2

LEMMA RowPermuted ==
    ASSUME NEW row \in Row, NEW table \in Permuted PROVE apply_tau_row(row, table) \in Row
<1>1. ASSUME NEW k \in Columns PROVE apply_tau_ntt(row[k], table) \in Poly
  BY DEF apply_tau_ntt, Permuted, Row, Poly
<1> QED BY <1>1 DEF apply_tau_row, Row

LEMMA ImageTyped ==
    ASSUME NEW n \in 1..Steps, NEW kg \in Row, NEW kh \in Row PROVE Image(n, kg, kh) \in Row
<1>1. CASE n = Steps
  BY <1>1 DEF Image
<1>2. CASE n # Steps
  <2>1. n \in 1..(Steps - 1)
    BY <1>2, HalfFacts
  <2> QED BY <1>2, <2>1, TableTyped, RowPermuted DEF Image
<1> QED BY <1>1, <1>2

LEMMA MaskTopTyped == ASSUME NEW mask \in Row PROVE reference_mask_top(mask) \in Row
<1>1. ASSUME NEW k \in Columns PROVE negate(ntt(mask[k])) \in Poly
  <2>1. mask[k] \in Poly
    BY DEF Row
  <2>2. ntt(mask[k]) \in Poly
    BY <2>1, NttPoly
  <2> QED BY <2>2, PointwiseTyped
<1> QED BY <1>1 DEF reference_mask_top, Row

LEMMA TopsTyped ==
    /\ kh_top \in Row
    /\ \A side \in Sides, image \in 0..(Half - 1) : kg_top(side, image) \in Row
<1>1. MaskW \in Row /\ MaskV \in Row
  BY PackingConstants DEF Row, Poly
<1>2. kh_top \in Row /\ reference_mask_top(MaskW) \in Row
  BY <1>1, MaskTopTyped DEF kh_top
<1>3. ASSUME NEW side \in Sides, NEW image \in 0..(Half - 1) PROVE kg_top(side, image) \in Row
  <2>1. Tables(side)[image] \in Permuted
    BY TablesTyped DEF Tables
  <2> QED BY <1>2, <2>1, RowPermuted DEF kg_top
<1> QED BY <1>2, <1>3

LEMMA SlotsTyped ==
    ASSUME NEW rows \in [Index -> Poly]
    PROVE  build_a_agg(rows) \in [Sides -> [1..Half -> Poly]]
<1> DEFINE a_hat == [j \in Index |-> ntt(a_tilde_coeffs(rows[j]))]
           e_table == [v \in Index |-> ntt([j \in Index |-> a_hat[j][v]])]
           slot(table) == [s \in Index |-> (e_table[table[s]][s] * d_inv) % Q]
<1>1. ASSUME NEW j \in Index PROVE a_hat[j] \in Poly
  <2>1. ASSUME NEW i \in Index PROVE a_tilde_coeffs(rows[j])[i] \in Coeff
    <3>1. rows[j] \in Poly
      OBVIOUS
    <3>2. i = 0 \/ D - i \in Index
      BY RingFacts DEF Index
    <3>3. rows[j][0] \in Coeff
      BY <3>1, CoeffFacts DEF Poly
    <3>4. i # 0 => neg(rows[j][D - i]) \in Coeff
      BY <3>1, <3>2, NegTyped DEF Poly
    <3> QED BY <3>3, <3>4 DEF a_tilde_coeffs
  <2>2. a_tilde_coeffs(rows[j]) \in Poly
    BY <2>1 DEF a_tilde_coeffs, Poly
  <2> QED BY <2>2, NttPoly
<1>2. ASSUME NEW v \in Index PROVE e_table[v] \in Poly
  <2> HIDE DEF a_hat
  <2>1. [j \in Index |-> a_hat[j][v]] \in Poly
    BY <1>1 DEF Poly
  <2> QED BY <2>1, NttPoly
<1> HIDE DEF a_hat, e_table
<1>3. ASSUME NEW table \in Permuted PROVE slot(table) \in Poly
  <2>1. ASSUME NEW s \in Index PROVE (e_table[table[s]][s] * d_inv) % Q \in Coeff
    <3>1. table[s] \in Index
      BY DEF Permuted
    <3>2. e_table[table[s]][s] \in Int /\ d_inv \in Int
      BY <1>2, <3>1, CoeffFacts, RingFacts DEF Poly
    <3> QED BY <3>2, ProductMod
  <2> QED BY <2>1 DEF Poly
<1>4. build_a_agg(rows) = [side \in Sides |-> [j \in 1..Half |->
         slot(IF side = "left" THEN LeftTables[j - 1] ELSE RightTables[j - 1])]]
  BY DEF build_a_agg, a_hat, e_table
<1> HIDE DEF slot
<1>5. ASSUME NEW j \in 1..Half PROVE LeftTables[j - 1] \in Permuted /\ RightTables[j - 1] \in Permuted
  <2>1. j - 1 \in 0..(Half - 1)
    BY HalfFacts
  <2> QED BY <2>1, TablesTyped
<1> QED BY <1>3, <1>4, <1>5

-----------------------------------------------------------------------------
(* One key switch adds, at slot i, the products of a row with the digits. *)

Products(body, term, i) == [k \in Columns |-> body[k][i] * term[k][i]]
TermAt(body, term, i) == SumOf(Products(body, term, i), 0, ell)
Largest == (Q - 1) * (Q - 1)

LEMMA LargestFacts == Largest \in Nat /\ Largest * ell \in Nat /\ Q - 1 \in Nat
<1>1. Q - 1 \in Nat
  BY RingFacts
<1>2. Largest \in Nat
  BY <1>1, ProductsAreNat DEF Largest
<1> QED BY <1>1, <1>2, RingFacts, ProductsAreNat

LEMMA ProductBounds ==
    ASSUME NEW body \in Row, NEW term \in Row, NEW i \in Index, NEW k \in Columns
    PROVE  Products(body, term, i)[k] \in Nat /\ Products(body, term, i)[k] <= Largest
<1> DEFINE x == body[k][i]
           y == term[k][i]
<1>1. x \in Coeff /\ y \in Coeff
  BY DEF Row, Poly
<1>2. Products(body, term, i)[k] = x * y
  BY DEF Products
<1> HIDE DEF x, y
<1>3. x \in Nat /\ y \in Nat /\ x <= Q - 1 /\ y <= Q - 1 /\ Q - 1 \in Nat
  BY <1>1, CoeffFacts, RingFacts
<1>4. x * y \in Nat /\ x * y <= (Q - 1) * (Q - 1)
  BY <1>3, ProductsAreNat, ProductMonotone
<1> QED BY <1>2, <1>4 DEF Largest

LEMMA TermBounds ==
    ASSUME NEW body \in Row, NEW term \in Row, NEW i \in Index
    PROVE  TermAt(body, term, i) \in Nat /\ TermAt(body, term, i) <= Largest * ell
<1> DEFINE f == Products(body, term, i)
<1>1. \A k \in 0..(ell - 1) : f[k] \in Nat /\ f[k] <= Largest
  BY ProductBounds DEF Columns
<1> HIDE DEF f
<1>2. ell \in Nat /\ 0 <= ell /\ Largest \in Nat /\ ell - 0 = ell
  BY RingFacts, LargestFacts
<1>3. SumOf(f, 0, ell) \in Nat /\ SumOf(f, 0, ell) <= (ell - 0) * Largest
  BY <1>1, <1>2, SumBounded
<1>4. (ell - 0) * Largest = Largest * ell
  BY <1>2, SMT
<1> QED BY <1>3, <1>4 DEF TermAt, f

LEMMA MultiplyIs ==
    ASSUME NEW body \in Row, NEW term \in Row, NEW i \in Index
    PROVE  multiply(body, term)[i] = TermAt(body, term, i) % Q
<1> DEFINE f == [k \in 0..(ell - 1) |-> (body[k][i] * term[k][i]) % Q]
           g == Products(body, term, i)
<1>1. ASSUME NEW k \in 0..(ell - 1) PROVE f[k] \in Int /\ g[k] \in Int /\ f[k] % Q = g[k] % Q
  <2>1. k \in Columns
    BY DEF Columns
  <2>2. g[k] \in Int
    BY <2>1, ProductBounds
  <2>3. f[k] = g[k] % Q
    BY <2>1 DEF Products
  <2> HIDE DEF f, g
  <2>4. g[k] % Q \in Int /\ (g[k] % Q) % Q = g[k] % Q
    BY <2>2, RingFacts, ModTwice
  <2> QED BY <2>2, <2>3, <2>4
<1>2. multiply(body, term)[i] = SumOf(f, 0, ell) % Q
  BY DEF multiply, SumMod
<1> HIDE DEF f, g
<1>3. SameTerms(f, g, Q, 0, ell)
  BY <1>1, RingFacts DEF SameTerms, IntTerms
<1>4. SumOf(f, 0, ell) % Q = SumOf(g, 0, ell) % Q
  BY <1>3, SumModulo
<1> QED BY <1>2, <1>4 DEF TermAt, g

LEMMA WidthFacts ==
    ASSUME NEW w \in Widths
    PROVE  w \in Nat /\ w + 1 \in Nat /\ w + 1 > 0 /\ Largest + (Q - 1) <= w
  BY PackingConstants, RingFacts, LargestFacts DEF Largest

(* The fallback's product, in either of its reduction modes. *)
LEMMA PermutedIs ==
    ASSUME NEW body \in Row, NEW term \in Row, NEW i \in Index, width \in Widths
    PROVE  multiply_permuted_body_by_digits(body, term)[i] = TermAt(body, term, i) % Q
<1> DEFINE f == Products(body, term, i)
           once == (Q - 1) * (Q - 1) * ell <= width
           red(x) == IF once THEN x % (width + 1) ELSE (x % (width + 1)) % Q
           value(acc, k) == red((IF k = 0 THEN 0 ELSE acc[k - 1]) + f[k])
           Is(acc) == acc = [k \in Columns |-> value(acc, k)]
           last == ell - 1
           step == [x \in Nat \X Nat |-> IF x[1] + 1 \in Columns THEN red(x[2] + f[x[1] + 1]) ELSE 0]
<1>1. last \in Nat /\ Columns = 0..last /\ ell = last + 1
  BY RingFacts DEF Columns
<1>2. \A k \in Columns : f[k] \in Nat /\ f[k] <= Largest
  BY ProductBounds
<1>3. width \in Nat /\ width + 1 \in Nat /\ width + 1 > 0 /\ Largest + (Q - 1) <= width
  BY WidthFacts
<1>4. Q \in Nat /\ Q > 0 /\ Largest \in Nat /\ Q - 1 \in Nat
  BY RingFacts, LargestFacts
<1>5. once <=> Largest * ell <= width
  BY DEF Largest
<1> HIDE DEF f, once, last
<1>6. \A x \in Nat : red(x) \in Nat
  <2> TAKE x \in Nat
  <2>1. x % (width + 1) \in Nat
    BY <1>3, ModTwice
  <2>2. (x % (width + 1)) % Q \in Nat
    BY <1>4, <2>1, ModTwice
  <2> QED BY <2>1, <2>2
<1> HIDE DEF red
<1> DEFINE T == Nat
<1>7. Recurs(T, red(f[0]), step)
  <2>1. f[0] \in Nat
    BY <1>1, <1>2
  <2>2. ASSUME NEW x \in Nat \X Nat
        PROVE  (IF x[1] + 1 \in Columns THEN red(x[2] + f[x[1] + 1]) ELSE 0) \in Nat
    <3>1. CASE x[1] + 1 \in Columns
      <4>1. x[2] + f[x[1] + 1] \in Nat
        BY <1>2, <3>1
      <4> QED BY <1>6, <3>1, <4>1
    <3>2. CASE x[1] + 1 \notin Columns
      BY <3>2
    <3> QED BY <3>1, <3>2
  <2>3. step \in [Nat \X Nat -> Nat]
    BY <2>2
  <2>4. red(f[0]) \in Nat
    BY <1>6, <2>1
  <2> HIDE DEF step
  <2> QED BY <2>3, <2>4 DEF Recurs
<1>8. \A x \in Nat \X Nat : x[1] + 1 \in Columns => step[x] = red(x[2] + f[x[1] + 1])
  OBVIOUS
<1> HIDE DEF step
<1>9. PICK s \in [0..last -> Nat] :
         s[0] = red(f[0]) /\ \A n \in 1..last : s[n] = step[<<n - 1, s[n - 1]>>]
  <2> HIDE DEF T
  <2>1. \E s \in [0..last -> T] :
           s[0] = red(f[0]) /\ \A n \in 1..last : s[n] = step[<<n - 1, s[n - 1]>>]
    BY <1>1, <1>7, RecursionUpto
  <2> QED BY <2>1, Zenon DEF T
<1>10. \E acc : Is(acc)
  <2>1. ASSUME NEW k \in Columns PROVE s[k] = value(s, k)
    <3>1. CASE k = 0
      <4>1. 0 + f[0] = f[0]
        BY <1>1, <1>2
      <4> QED BY <1>9, <3>1, <4>1
    <3>2. CASE k # 0
      <4>1. k - 1 \in 0..last /\ k - 1 \in Nat /\ k \in 1..last /\ (k - 1) + 1 = k
        BY <1>1, <3>2
      <4>2. s[k] = step[<<k - 1, s[k - 1]>>] /\ s[k - 1] \in Nat
        BY <1>9, <4>1
      <4> DEFINE x == <<k - 1, s[k - 1]>>
      <4>3. x \in Nat \X Nat /\ x[1] + 1 = k /\ x[2] = s[k - 1]
        BY <4>1, <4>2
      <4> HIDE DEF x
      <4>4. step[x] = red(s[k - 1] + f[k])
        BY <1>8, <4>3
      <4> QED BY <3>2, <4>2, <4>4 DEF x
    <3> QED BY <3>1, <3>2
  <2>2. s = [k \in Columns |-> s[k]]
    BY <1>1
  <2> HIDE DEF value
  <2>3. Is(s)
    BY <2>1, <2>2, Zenon
  <2> QED BY <2>3
<1> DEFINE Exact(acc) == acc = [k \in Columns |->
               LET sum == (IF k = 0 THEN 0 ELSE acc[k - 1]) + body[k][i] * term[k][i]
               IN  IF (Q - 1) * (Q - 1) * ell <= width THEN sum % (width + 1)
                   ELSE (sum % (width + 1)) % Q]
           acc == CHOOSE acc : Exact(acc)
<1>11. ASSUME NEW a PROVE Is(a) <=> Exact(a)
  <2>1. \A k \in Columns : f[k] = body[k][i] * term[k][i]
    BY DEF f, Products
  <2> QED BY <2>1 DEF red, once
<1>12. multiply_permuted_body_by_digits(body, term)[i] = acc[ell - 1] % Q
  BY Zenon DEF multiply_permuted_body_by_digits
<1>13. Exact(acc)
  <2> HIDE DEF Exact, Is
  <2> QED BY <1>10, <1>11
<1>14. Is(acc)
  <2> HIDE DEF Exact, Is
  <2> QED BY <1>11, <1>13
<1> HIDE DEF Exact, acc
<1>15. \A k \in Columns : acc[k] = value(acc, k)
  <2> HIDE DEF value
  <2> QED BY <1>14
<1> HIDE DEF Is
(* While a sum is not reduced it is exact, and it is small when it is. *)
<1> DEFINE S == {k \in Nat : k <= last =>
                   /\ acc[k] \in Nat /\ acc[k] % Q = SumOf(f, 0, k + 1) % Q
                   /\ IF once THEN acc[k] <= (k + 1) * Largest ELSE acc[k] <= Q - 1}
<1>16. ASSUME NEW k \in 0..last, NEW y \in Nat,
              IF once THEN y <= k * Largest ELSE y <= Q - 1,
              y % Q = SumOf(f, 0, k) % Q, SumOf(f, 0, k) \in Nat
       PROVE  LET x == red(y + f[k])
              IN  /\ x \in Nat /\ x % Q = SumOf(f, 0, k + 1) % Q
                  /\ IF once THEN x <= (k + 1) * Largest ELSE x <= Q - 1
  <2>1. f[k] \in Nat /\ f[k] <= Largest /\ k \in Nat
    BY <1>1, <1>2
  <2>2. SumOf(f, 0, k + 1) = SumOf(f, 0, k) + f[k]
    <3>1. 0 \in Nat /\ k \in Nat /\ 0 <= k
      BY <2>1
    <3> QED BY <3>1, SumStep
  <2> DEFINE u == y + f[k]
             m == SumOf(f, 0, k)
  <2>3. u \in Nat /\ u = y + f[k]
    BY <2>1
  <2>4. u % Q = (m + f[k]) % Q
    <3>1. Same(y, m, Q) /\ Same(f[k], f[k], Q)
      BY <1>4, <1>16, <2>1 DEF Same
    <3> HIDE DEF m
    <3>2. Same(y + f[k], m + f[k], Q)
      BY <3>1, SameSum
    <3> QED BY <3>2 DEF Same
  <2>5. u <= width
    <3>1. CASE once
      <4>1. k * Largest + Largest = (k + 1) * Largest /\ k * Largest \in Nat
        BY <1>4, <2>1, SMT
      <4>2. (k + 1) * Largest <= ell * Largest
        <5>1. k + 1 \in Nat /\ k + 1 <= ell /\ ell \in Nat /\ Largest <= Largest
          BY <1>1, <1>4, <2>1
        <5> QED BY <1>4, <5>1, ProductMonotone
      <4>3. ell * Largest = Largest * ell /\ ell * Largest \in Nat /\ (k + 1) * Largest \in Nat
        BY <1>1, <1>4, <2>1, SMT
      <4>4. u <= (k + 1) * Largest
        <5>1. y <= k * Largest
          BY <1>16, <3>1
        <5> DEFINE v == k * Largest
        <5>2. v \in Nat /\ y <= v /\ v + Largest = (k + 1) * Largest
          BY <4>1, <5>1
        <5> HIDE DEF v
        <5>3. u <= v + Largest
          BY <1>4, <2>1, <2>3, <5>2
        <5> QED BY <5>2, <5>3
      <4> QED BY <1>3, <1>5, <2>3, <3>1, <4>2, <4>3, <4>4
    <3>2. CASE ~once
      BY <1>3, <1>4, <1>16, <2>1, <2>3, <3>2
    <3> QED BY <3>1, <3>2
  <2> HIDE DEF u, m
  <2>6. u % (width + 1) = u
    BY <1>3, <2>3, <2>5, ModSmall
  <2>7. CASE once
    <3>1. red(u) = u
      BY <2>6, <2>7 DEF red
    <3>2. u <= (k + 1) * Largest
      <4>1. k * Largest + Largest = (k + 1) * Largest /\ k * Largest \in Nat
        BY <1>4, <2>1, SMT
      <4>2. y <= k * Largest
        BY <1>16, <2>7
      <4> DEFINE v == k * Largest
      <4>3. v \in Nat /\ y <= v /\ v + Largest = (k + 1) * Largest
        BY <4>1, <4>2
      <4> HIDE DEF v
      <4>4. u <= v + Largest
        BY <1>4, <2>1, <2>3, <4>3
      <4> QED BY <4>3, <4>4
    <3> QED BY <2>2, <2>3, <2>4, <2>7, <3>1, <3>2 DEF u, m
  <2>8. CASE ~once
    <3>1. red(u) = u % Q
      BY <2>6, <2>8 DEF red
    <3>2. u % Q \in 0..(Q - 1) /\ (u % Q) % Q = u % Q
      BY <1>4, <2>3, ModTwice
    <3>3. u % Q \in Nat /\ u % Q <= Q - 1
      BY <1>4, <3>2
    <3> QED BY <2>2, <2>4, <2>8, <3>1, <3>2, <3>3 DEF u, m
  <2> QED BY <2>7, <2>8
<1>17. ASSUME NEW k \in Nat, k <= last PROVE SumOf(f, 0, k) \in Nat
  <2>1. 0 \in Nat /\ 0 <= k /\ \A r \in 0..(k - 1) : f[r] \in Nat
    BY <1>1, <1>2, <1>17
  <2> QED BY <2>1, SumIsNat
<1>18. 0 \in S
  <2> DEFINE y == 0
  <2>1. SumOf(f, 0, 0) = 0
    BY SumStep
  <2>2. y \in Nat /\ (IF once THEN y <= 0 * Largest ELSE y <= Q - 1) /\ y % Q = SumOf(f, 0, 0) % Q /\ 0 \in 0..last
    BY <1>1, <1>4, <2>1, SMT
  <2>3. acc[0] = red(y + f[0])
    BY <1>1, <1>15
  <2> HIDE DEF y
  <2> QED BY <1>16, <2>1, <2>2, <2>3
<1>19. ASSUME NEW k \in Nat, k \in S PROVE k + 1 \in S
  <2> SUFFICES ASSUME k + 1 <= last
               PROVE  /\ acc[k + 1] \in Nat /\ acc[k + 1] % Q = SumOf(f, 0, (k + 1) + 1) % Q
                      /\ IF once THEN acc[k + 1] <= ((k + 1) + 1) * Largest ELSE acc[k + 1] <= Q - 1
    OBVIOUS
  <2> DEFINE n == k + 1
  <2>1. n \in 0..last /\ n \in Nat /\ n # 0 /\ n - 1 = k /\ n \in Columns /\ k <= last /\ n <= last
    BY <1>1
  <2>2. /\ acc[k] \in Nat /\ acc[k] % Q = SumOf(f, 0, n) % Q
        /\ IF once THEN acc[k] <= n * Largest ELSE acc[k] <= Q - 1
    BY <1>19, <2>1
  <2>3. SumOf(f, 0, n) \in Nat
    BY <1>17, <2>1
  <2> HIDE DEF n
  <2>4. acc[n] = red(acc[k] + f[n])
    BY <1>15, <2>1
  <2>5. /\ acc[n] \in Nat /\ acc[n] % Q = SumOf(f, 0, n + 1) % Q
        /\ IF once THEN acc[n] <= (n + 1) * Largest ELSE acc[n] <= Q - 1
    BY <1>16, <2>1, <2>2, <2>3, <2>4
  <2> QED BY <2>5 DEF n
<1> HIDE DEF S
<1>20. Nat \subseteq S
  BY <1>18, <1>19, SetInduction
<1>21. acc[last] % Q = SumOf(f, 0, last + 1) % Q
  BY <1>1, <1>20 DEF S
<1> QED BY <1>1, <1>12, <1>21 DEF TermAt, f, last

-----------------------------------------------------------------------------
(* The schedule of the fallback: at slot i, b and the sum of all key switches. *)

Terms(kg, kh, ds, i) == [n \in 1..Steps |-> TermAt(Image(n, kg, kh), ds[n], i)]

LEMMA TermsBounded ==
    ASSUME NEW kg \in Row, NEW kh \in Row, NEW ds, \A n \in 1..Steps : ds[n] \in Row,
           NEW i \in Index, NEW n \in 1..Steps
    PROVE  /\ Terms(kg, kh, ds, i)[n] = TermAt(Image(n, kg, kh), ds[n], i)
           /\ Terms(kg, kh, ds, i)[n] \in Nat
           /\ Terms(kg, kh, ds, i)[n] <= Largest * ell
<1>1. Terms(kg, kh, ds, i)[n] = TermAt(Image(n, kg, kh), ds[n], i)
  BY DEF Terms
<1>2. Image(n, kg, kh) \in Row /\ ds[n] \in Row
  BY ImageTyped
<1> QED BY <1>1, <1>2, TermBounds

LEMMA AddTyped ==
    ASSUME NEW u, NEW v, \A i \in Index : u[i] \in Int /\ v[i] \in Int
    PROVE  add(u, v) \in Poly /\ \A i \in Index : add(u, v)[i] = (u[i] + v[i]) % Q
<1>1. ASSUME NEW i \in Index PROVE (u[i] + v[i]) % Q \in Coeff
  <2>1. u[i] + v[i] \in Int
    OBVIOUS
  <2> QED BY <2>1, ModCoeff
<1> QED BY <1>1 DEF add, Poly

Uploaded(r) ==
    /\ keys[r].kg \in Row /\ keys[r].kh \in Row /\ batch[r].b \in Poly
    /\ \A n \in 1..Steps : pre.digits[n] \in Row

SumUpto(r, i, n) == SumOf(Terms(keys[r].kg, keys[r].kh, pre.digits, i), 1, n + 1)

LEMMA SumUptoStep ==
    ASSUME NEW r, Uploaded(r), NEW i \in Index
    PROVE  /\ SumUpto(r, i, 0) = 0
           /\ \A n \in 0..(Steps - 1) : SumUpto(r, i, n + 1)
                 = SumUpto(r, i, n) + TermAt(Image(n + 1, keys[r].kg, keys[r].kh), pre.digits[n + 1], i)
           /\ \A n \in 0..Steps : SumUpto(r, i, n) \in Nat
<1> DEFINE f == Terms(keys[r].kg, keys[r].kh, pre.digits, i)
<1>1. ASSUME NEW n \in 1..Steps
      PROVE  f[n] = TermAt(Image(n, keys[r].kg, keys[r].kh), pre.digits[n], i) /\ f[n] \in Nat
  BY TermsBounded DEF Uploaded
<1> HIDE DEF f
<1>2. Steps \in Nat
  BY HalfFacts
<1>3. \A n : SumUpto(r, i, n) = SumOf(f, 1, n + 1)
  BY DEF SumUpto, f
<1>4. SumOf(f, 1, 1) = 0
  BY SumStep
<1>5. ASSUME NEW n \in 0..(Steps - 1) PROVE SumOf(f, 1, (n + 1) + 1) = SumOf(f, 1, n + 1) + f[n + 1]
  <2> DEFINE k == n + 1
  <2>1. k \in Nat /\ 1 <= k /\ 1 \in Nat
    BY <1>2
  <2> HIDE DEF k
  <2>2. SumOf(f, 1, k + 1) = SumOf(f, 1, k) + f[k]
    BY <2>1, SumStep
  <2> QED BY <2>2 DEF k
<1>6. ASSUME NEW n \in 0..Steps PROVE SumOf(f, 1, n + 1) \in Nat
  <2> DEFINE k == n + 1
  <2>1. k \in Nat /\ 1 <= k /\ 1 \in Nat /\ \A j \in 1..(k - 1) : f[j] \in Nat
    BY <1>1, <1>2
  <2> HIDE DEF k
  <2>2. SumOf(f, 1, k) \in Nat
    BY <2>1, SumIsNat
  <2> QED BY <2>2 DEF k
<1>7. 0 + 1 = 1 /\ \A n \in 0..(Steps - 1) : n + 1 \in 1..Steps
  BY <1>2
<1>8. SumUpto(r, i, 0) = 0
  BY <1>3, <1>4, <1>7
<1>9. ASSUME NEW n \in 0..(Steps - 1) PROVE SumUpto(r, i, n + 1)
         = SumUpto(r, i, n) + TermAt(Image(n + 1, keys[r].kg, keys[r].kh), pre.digits[n + 1], i)
  BY <1>1, <1>3, <1>5, <1>7
<1> QED BY <1>3, <1>6, <1>8, <1>9

Result(r) == [i \in Index |-> (ntt(batch[r].b)[i] + SumUpto(r, i, Steps)) % Q]

LEMMA StepwiseIs ==
    ASSUME NEW r, Uploaded(r), width \in Widths
    PROVE  stepwise(r) = Result(r)
<1> DEFINE kg == keys[r].kg
           kh == keys[r].kh
           c == ntt(batch[r].b)
           at(n, i) == TermAt(Image(n, kg, kh), pre.digits[n], i)
           term(n) == IF n = Steps THEN multiply(keys[r].kh, pre.digits[n])
                      ELSE multiply_permuted_body_by_digits(Image(n, keys[r].kg, keys[r].kh), pre.digits[n])
           Is(b) == b = [n \in 0..Steps |-> IF n = 0 THEN ntt(batch[r].b) ELSE add(term(n), b[n - 1])]
           step == [x \in Nat \X Poly |-> IF x[1] + 1 \in 1..Steps THEN add(term(x[1] + 1), x[2]) ELSE x[2]]
           b == CHOOSE b : Is(b)
<1>1. kg \in Row /\ kh \in Row /\ c \in Poly /\ Steps \in Nat /\ \A n \in 1..Steps : pre.digits[n] \in Row
  BY NttPoly, HalfFacts DEF Uploaded
<1>2. stepwise(r) = b[Steps]
  BY Zenon DEF stepwise
<1>3. ASSUME NEW n \in 1..Steps, NEW i \in Index
      PROVE  at(n, i) \in Nat /\ term(n)[i] = at(n, i) % Q
  <2>1. Image(n, kg, kh) \in Row /\ pre.digits[n] \in Row
    BY <1>1, ImageTyped
  <2>2. at(n, i) \in Nat
    BY <2>1, TermBounds
  <2>3. multiply_permuted_body_by_digits(Image(n, kg, kh), pre.digits[n])[i] = at(n, i) % Q
    BY <2>1, PermutedIs
  <2>4. CASE n = Steps
    <3>1. Image(n, kg, kh) = kh
      BY <2>4 DEF Image
    <3>2. multiply(kh, pre.digits[n])[i] = at(n, i) % Q
      BY <2>1, <3>1, MultiplyIs
    <3> QED BY <2>2, <2>4, <3>2
  <2>5. CASE n # Steps
    BY <2>2, <2>3, <2>5
  <2> QED BY <2>4, <2>5
<1> HIDE DEF kg, kh, c, at, term
<1>4. ASSUME NEW n \in 1..Steps, NEW p \in Poly
      PROVE  add(term(n), p) \in Poly /\ \A i \in Index : add(term(n), p)[i] = ((at(n, i) % Q) + p[i]) % Q
  <2>1. ASSUME NEW i \in Index PROVE term(n)[i] \in Int /\ p[i] \in Int
    <3>1. at(n, i) % Q \in Int
      <4> DEFINE x == at(n, i)
      <4>1. x \in Int
        BY <1>3
      <4> HIDE DEF x
      <4>2. x % Q \in Coeff
        BY <4>1, ModCoeff
      <4> QED BY <4>2, CoeffFacts DEF x
    <3>2. p[i] \in Int
      BY CoeffFacts DEF Poly
    <3> QED BY <1>3, <3>1, <3>2
  <2> QED BY <1>3, <2>1, AddTyped
<1>5. Recurs(Poly, c, step)
  <2>1. ASSUME NEW x \in Nat \X Poly
        PROVE  (IF x[1] + 1 \in 1..Steps THEN add(term(x[1] + 1), x[2]) ELSE x[2]) \in Poly
    <3>1. CASE x[1] + 1 \in 1..Steps
      BY <1>4, <3>1
    <3>2. CASE x[1] + 1 \notin 1..Steps
      BY <3>2
    <3> QED BY <3>1, <3>2
  <2>2. step \in [Nat \X Poly -> Poly]
    BY <2>1
  <2> HIDE DEF step
  <2> QED BY <1>1, <2>2 DEF Recurs
<1>6. \A x \in Nat \X Poly : x[1] + 1 \in 1..Steps => step[x] = add(term(x[1] + 1), x[2])
  OBVIOUS
<1> HIDE DEF step
<1>7. PICK s \in [0..Steps -> Poly] : s[0] = c /\ \A n \in 1..Steps : s[n] = step[<<n - 1, s[n - 1]>>]
  BY <1>1, <1>5, RecursionUpto
<1>8. \E s0 : Is(s0)
  <2>1. ASSUME NEW n \in 0..Steps PROVE s[n] = IF n = 0 THEN c ELSE add(term(n), s[n - 1])
    <3>1. CASE n = 0
      BY <1>7, <3>1
    <3>2. CASE n # 0
      <4>1. n - 1 \in 0..Steps /\ n - 1 \in Nat /\ n \in 1..Steps /\ (n - 1) + 1 = n
        BY <1>1, <3>2
      <4>2. s[n] = step[<<n - 1, s[n - 1]>>] /\ s[n - 1] \in Poly
        BY <1>7, <4>1
      <4> DEFINE x == <<n - 1, s[n - 1]>>
      <4>3. x \in Nat \X Poly /\ x[1] + 1 = n /\ x[2] = s[n - 1]
        BY <4>1, <4>2
      <4> HIDE DEF x
      <4>4. step[x] = add(term(n), s[n - 1])
        BY <1>6, <4>1, <4>3
      <4> QED BY <3>2, <4>2, <4>4 DEF x
    <3> QED BY <3>1, <3>2
  <2>2. s = [n \in 0..Steps |-> s[n]]
    OBVIOUS
  <2>3. Is(s)
    BY <2>1, <2>2, Zenon DEF c
  <2> QED BY <2>3
<1>9. Is(b)
  <2> HIDE DEF Is
  <2> QED BY <1>8
<1> HIDE DEF b
<1>10. b[0] = c /\ \A n \in 1..Steps : b[n] = add(term(n), b[n - 1])
  <2>1. \A n \in 0..Steps : b[n] = IF n = 0 THEN c ELSE add(term(n), b[n - 1])
    BY <1>9 DEF c
  <2>2. 0 \in 0..Steps /\ \A n \in 1..Steps : n \in 0..Steps /\ n # 0
    BY <1>1
  <2> QED BY <2>1, <2>2
<1> HIDE DEF Is
<1> DEFINE S == {n \in Nat : n <= Steps =>
                   /\ b[n] \in Poly
                   /\ \A i \in Index : b[n][i] = (c[i] + SumUpto(r, i, n)) % Q}
<1>11. \A i \in Index : c[i] \in Coeff /\ c[i] \in Nat /\ c[i] \in 0..(Q - 1)
  BY <1>1, CoeffFacts DEF Poly, Coeff
<1>12. 0 \in S
  <2>1. ASSUME NEW i \in Index PROVE b[0][i] = (c[i] + SumUpto(r, i, 0)) % Q
    <3>1. SumUpto(r, i, 0) = 0
      BY SumUptoStep
    <3>2. c[i] + 0 = c[i] /\ c[i] % Q = c[i]
      BY <1>11, RingFacts, ModSmall
    <3> QED BY <1>10, <3>1, <3>2
  <2> QED BY <1>1, <1>10, <2>1
<1>13. ASSUME NEW n \in Nat, n \in S PROVE n + 1 \in S
  <2> SUFFICES ASSUME n + 1 <= Steps
               PROVE  /\ b[n + 1] \in Poly
                      /\ \A i \in Index : b[n + 1][i] = (c[i] + SumUpto(r, i, n + 1)) % Q
    OBVIOUS
  <2> DEFINE m == n + 1
  <2>1. m \in 1..Steps /\ m - 1 = n /\ n <= Steps /\ n \in 0..(Steps - 1) /\ n \in 0..Steps
    BY <1>1
  <2>2. b[n] \in Poly /\ \A i \in Index : b[n][i] = (c[i] + SumUpto(r, i, n)) % Q
    BY <1>13, <2>1
  <2>3. \A i \in Index : SumUpto(r, i, m) = SumUpto(r, i, n) + at(m, i) /\ SumUpto(r, i, n) \in Nat
    BY <2>1, SumUptoStep DEF at, kg, kh
  <2> HIDE DEF m
  <2>4. b[m] = add(term(m), b[n])
    BY <1>10, <2>1
  <2>5. b[m] \in Poly /\ \A i \in Index : b[m][i] = ((at(m, i) % Q) + b[n][i]) % Q
    BY <1>4, <2>1, <2>2, <2>4
  <2>6. ASSUME NEW i \in Index PROVE b[m][i] = (c[i] + SumUpto(r, i, m)) % Q
    <3> DEFINE x == at(m, i)
               y == c[i] + SumUpto(r, i, n)
    <3>1. x \in Nat /\ y \in Nat /\ c[i] + SumUpto(r, i, m) = x + y
      BY <1>3, <1>11, <2>1, <2>3
    <3>2. b[m][i] = ((x % Q) + (y % Q)) % Q
      BY <2>2, <2>5
    <3> HIDE DEF x, y
    <3>3. ((x % Q) + (y % Q)) % Q = (x + y) % Q
      <4>1. Q \in Nat /\ Q > 0
        BY RingFacts
      <4> QED BY <3>1, <4>1, ModSum
    <3> QED BY <3>1, <3>2, <3>3
  <2> QED BY <2>5, <2>6 DEF m
<1> HIDE DEF S
<1>14. Nat \subseteq S
  BY <1>12, <1>13, SetInduction
<1>15. b[Steps] \in Poly /\ \A i \in Index : b[Steps][i] = (c[i] + SumUpto(r, i, Steps)) % Q
  BY <1>1, <1>14 DEF S
<1>16. b[Steps] = [i \in Index |-> (c[i] + SumUpto(r, i, Steps)) % Q]
  BY <1>15 DEF Poly
<1> QED BY <1>2, <1>16 DEF Result, c

-----------------------------------------------------------------------------
(* The fused path.  The tasks are neighbouring stretches of the schedule; the *)
(* sums of a task are those of the key switches it has done.                  *)

Between(ks, ds, r, i, from, to) == SumOf(Terms(ks[r].kg, ks[r].kh, ds, i), from, to)

Uploads(b, ks, ds) ==
    /\ \A r \in DOMAIN b : ks[r].kg \in Row /\ ks[r].kh \in Row
    /\ \A n \in 1..Steps : ds[n] \in Row

Sums(b) == [DOMAIN b -> [Index -> Nat]]
Task(b) == [next : Nat, last : Nat, by : Nat, acc : {<<>>} \cup Sums(b)]

Stretch(ts, c, b, ks, ds) ==
    /\ ts[c].last \in First(ts, c)..Steps
    /\ ts[c].next \in First(ts, c)..(ts[c].last + 1)
    /\ IF ts[c].next = First(ts, c) THEN ts[c].acc = <<>>
       ELSE /\ ts[c].acc \in Sums(b)
            /\ \A r \in DOMAIN b, i \in Index :
                 ts[c].acc[r][i] = Between(ks, ds, r, i, First(ts, c), ts[c].next)
Fused(ts, b, ks, ds) ==
    /\ ts \in Seq(Task(b)) /\ Len(ts) >= 1 /\ ts[Len(ts)].last = Steps
    /\ \A c \in 1..Len(ts) : Stretch(ts, c, b, ks, ds)

LEMMA BetweenFacts ==
    ASSUME NEW b, NEW ks, NEW ds, Uploads(b, ks, ds), NEW r \in DOMAIN b, NEW i \in Index,
           NEW from \in 1..(Steps + 1), NEW to \in from..(Steps + 1)
    PROVE  /\ Between(ks, ds, r, i, from, from) = 0
           /\ Between(ks, ds, r, i, from, to) \in Nat
           /\ Between(ks, ds, r, i, from, to) <= Steps * (Largest * ell)
           /\ to <= Steps => Between(ks, ds, r, i, from, to + 1)
                 = Between(ks, ds, r, i, from, to) + TermAt(Image(to, ks[r].kg, ks[r].kh), ds[to], i)
           /\ \A mid \in from..to :
                 Between(ks, ds, r, i, from, to) = Between(ks, ds, r, i, from, mid) + Between(ks, ds, r, i, mid, to)
<1> DEFINE f == Terms(ks[r].kg, ks[r].kh, ds, i)
           M == Largest * ell
<1>1. ASSUME NEW n \in 1..Steps
      PROVE  /\ f[n] = TermAt(Image(n, ks[r].kg, ks[r].kh), ds[n], i)
             /\ f[n] \in Nat /\ f[n] <= M
  BY TermsBounded DEF Uploads
<1> HIDE DEF f
<1>2. Steps \in Nat /\ from \in Nat /\ to \in Nat /\ from <= to /\ 1 <= from /\ M \in Nat
  BY HalfFacts, LargestFacts
<1> HIDE DEF M
<1>3. \A x, y : Between(ks, ds, r, i, x, y) = SumOf(f, x, y)
  BY DEF Between, f
<1>4. SumOf(f, from, from) = 0 /\ SumOf(f, from, to + 1) = SumOf(f, from, to) + f[to]
  BY <1>2, SumStep
<1>5. \A n \in from..(to - 1) : f[n] \in Nat /\ f[n] <= M
  BY <1>1, <1>2
<1>6. SumOf(f, from, to) \in Nat /\ SumOf(f, from, to) <= (to - from) * M
  BY <1>2, <1>5, SumBounded
<1>7. (to - from) * M <= Steps * M /\ (to - from) * M \in Nat /\ Steps * M \in Nat
  <2> DEFINE d == to - from
  <2>1. d \in Nat /\ d <= Steps /\ M <= M
    BY <1>2
  <2> HIDE DEF d
  <2>2. d * M <= Steps * M /\ d * M \in Nat /\ Steps * M \in Nat
    BY <1>2, <2>1, ProductMonotone, ProductsAreNat
  <2> QED BY <2>2 DEF d
<1>8. SumOf(f, from, to) <= Steps * M
  BY <1>6, <1>7
<1>9. to <= Steps => f[to] = TermAt(Image(to, ks[r].kg, ks[r].kh), ds[to], i)
  BY <1>1, <1>2
<1>10. IntTerms(f, from, to)
  BY <1>2, <1>5 DEF IntTerms
<1>11. \A mid \in from..to : SumOf(f, from, to) = SumOf(f, from, mid) + SumOf(f, mid, to)
  BY <1>10, SumSplit
<1> QED BY <1>3, <1>4, <1>6, <1>8, <1>9, <1>11 DEF M

(* When fused_accumulator_fits, no sum of any stretch wraps. *)
LEMMA NoWrap ==
    ASSUME width \in Widths, fused_accumulator_fits, NEW x \in Nat, x <= Steps * (Largest * ell)
    PROVE  x % (width + 1) = x
<1> DEFINE m == Largest
<1>1. m \in Nat /\ Steps \in Nat /\ ell \in Nat
  BY LargestFacts, HalfFacts, RingFacts
<1>2. m * Steps * ell <= width
  BY DEF fused_accumulator_fits, Largest
<1> HIDE DEF m
<1>3. m * Steps * ell = Steps * (m * ell) /\ Steps * (m * ell) \in Nat
  BY <1>1, SMT
<1>4. width \in Nat
  BY WidthFacts
<1>5. x <= Steps * (m * ell)
  BY DEF m
<1>6. x \in 0..((width + 1) - 1) /\ width + 1 \in Nat
  BY <1>2, <1>3, <1>4, <1>5
<1> QED BY <1>6, ModSmall

LEMMA FirstTyped ==
    ASSUME NEW ts, NEW b, NEW ks, NEW ds, Fused(ts, b, ks, ds), NEW c \in 1..Len(ts)
    PROVE  /\ ts[c] \in Task(b) /\ Stretch(ts, c, b, ks, ds)
           /\ First(ts, c) \in 1..Steps /\ ts[c].last \in 1..Steps /\ ts[c].next \in 1..(Steps + 1)
<1>1. ts \in Seq(Task(b)) /\ Stretch(ts, c, b, ks, ds) /\ Steps \in Nat /\ Len(ts) \in Nat
  BY HalfFacts DEF Fused
<1>2. \A d \in 1..Len(ts) : ts[d] \in Task(b)
  BY <1>1
<1>3. \A d \in 1..Len(ts) : ts[d].last \in Nat /\ ts[d].next \in Nat
  BY <1>2 DEF Task
<1>4. First(ts, c) \in Nat /\ First(ts, c) >= 1
  <2>1. CASE c = 1
    BY <2>1 DEF First
  <2>2. CASE c # 1
    <3>1. c - 1 \in 1..Len(ts)
      BY <1>1, <2>2
    <3> QED BY <1>3, <2>2, <3>1 DEF First
  <2> QED BY <2>1, <2>2
<1> DEFINE x == First(ts, c)
<1>5. ts[c].last \in x..Steps /\ ts[c].next \in x..(ts[c].last + 1) /\ x \in Nat /\ x >= 1
  BY <1>1, <1>4 DEF Stretch
<1> HIDE DEF x
<1>6. x \in 1..Steps /\ ts[c].last \in 1..Steps /\ ts[c].next \in 1..(Steps + 1)
  BY <1>1, <1>3, <1>5
<1> QED BY <1>1, <1>2, <1>6 DEF x

(* Whatever a thread kept, the buffers it takes are cleared. *)
LEMMA ScratchZero == \A buffers : \A i \in Index : new_scratch(buffers)[i] = 0
  BY DEF new_scratch, fill, zero

LEMMA AccumulateKeeps ==
    ASSUME width \in Widths, fused_accumulator_fits, Uploads(batch, keys, pre.digits),
           Fused(tasks, batch, keys, pre.digits), NEW c \in DOMAIN tasks,
           NEW t \in 1..Threads, Accumulate(c, t)
    PROVE  Fused(tasks', batch, keys, pre.digits)
<1> DEFINE b == batch
           ks == keys
           ds == pre.digits
           n == tasks[c].next
           a0 == tasks[c].acc
           x == First(tasks, c)
           taking(r) == [i \in Index |-> new_scratch(pool[t])[i] + new_scratch(taken(pool[t]))[i]]
           acc(r) == IF ~(a0 = <<>>) THEN a0[r] ELSE IF Pooled THEN taking(r) ELSE zero
           A == [r \in DOMAIN b |->
                   accumulate_collapse_term(acc(r), Image(n, ks[r].kg, ks[r].kh), ds[n])]
           N == Len(tasks)
           B(r, i, to) == Between(ks, ds, r, i, x, to)
<1>1. tasks \in Seq(Task(b)) /\ N \in Nat /\ N >= 1 /\ c \in 1..N /\ DOMAIN tasks = 1..N
  BY DEF Fused
<1>2. /\ tasks[c] \in Task(b) /\ Stretch(tasks, c, b, ks, ds)
      /\ x \in 1..Steps /\ tasks[c].last \in 1..Steps /\ n \in 1..(Steps + 1) /\ Steps \in Nat
  BY <1>1, FirstTyped, HalfFacts
<1>3. n <= tasks[c].last /\ tasks' = [tasks EXCEPT ![c] = [next |-> n + 1, last |-> @.last, by |-> t, acc |-> A]]
  <2>1. n <= tasks[c].last
    BY <1>2 DEF Accumulate, Summed
  <2>2. tasks' = [tasks EXCEPT ![c] = [next |-> n + 1, last |-> @.last, by |-> t, acc |-> A]]
    BY Zenon DEF Accumulate
  <2> QED BY <2>1, <2>2
<1>4. n \in x..Steps /\ n \in 1..Steps /\ n + 1 \in x..(tasks[c].last + 1) /\ n + 1 # x /\ n + 1 \in Nat
      /\ tasks[c].last \in x..Steps
  <2>1. tasks[c].last \in x..Steps /\ n \in x..(tasks[c].last + 1)
    BY <1>2 DEF Stretch
  <2> DEFINE l == tasks[c].last
  <2>2. l \in 1..Steps /\ l \in x..Steps /\ n \in x..(l + 1) /\ n <= l
    BY <1>2, <1>3, <2>1
  <2> HIDE DEF x, n, l
  <2>3. n \in x..Steps /\ n \in 1..Steps /\ n + 1 \in x..(l + 1) /\ n + 1 # x /\ n + 1 \in Nat
    BY <1>2, <2>2
  <2> QED BY <2>1, <2>3 DEF l
<1>5. ASSUME NEW r \in DOMAIN b, NEW i \in Index PROVE acc(r)[i] = B(r, i, n)
  <2>1. CASE n = x
    <3>1. a0 = <<>>
      BY <1>2, <2>1 DEF Stretch
    <3>2. acc(r)[i] = 0
      BY <3>1, ScratchZero DEF zero
    <3>3. B(r, i, x) = 0
      <4>1. x \in 1..(Steps + 1) /\ x \in x..(Steps + 1)
        BY <1>2
      <4> QED BY <4>1, BetweenFacts
    <3> QED BY <2>1, <3>2, <3>3
  <2>2. CASE n # x
    <3>1. a0 \in Sums(b) /\ a0[r][i] = B(r, i, n)
      BY <1>2, <2>2 DEF Stretch
    <3>2. a0 # <<>>
      BY <3>1 DEF Sums
    <3> QED BY <3>1, <3>2
  <2> QED BY <2>1, <2>2
<1>6. ASSUME NEW r \in DOMAIN b, NEW i \in Index
      PROVE  A[r][i] = B(r, i, n + 1) /\ B(r, i, n + 1) \in Nat
  <2> DEFINE body == Image(n, ks[r].kg, ks[r].kh)
             u == TermAt(body, ds[n], i)
  <2>1. A[r][i] = (acc(r)[i] + u) % (width + 1)
    BY DEF accumulate_collapse_term, TermAt, Products
  <2>2. /\ x \in 1..(Steps + 1) /\ n \in x..(Steps + 1) /\ n + 1 \in x..(Steps + 1) /\ n <= Steps
    BY <1>2, <1>4
  <2>3. B(r, i, n + 1) = B(r, i, n) + u
    BY <2>2, BetweenFacts
  <2>4. B(r, i, n + 1) \in Nat /\ B(r, i, n + 1) <= Steps * (Largest * ell)
    BY <2>2, BetweenFacts
  <2> HIDE DEF u, A, acc, B
  <2>5. A[r][i] = B(r, i, n + 1) % (width + 1)
    BY <1>5, <2>1, <2>3
  <2> QED BY <2>4, <2>5, NoWrap
<1>7. A \in Sums(b)
  <2>1. A = [r \in DOMAIN b |-> [i \in Index |-> A[r][i]]]
    BY DEF accumulate_collapse_term
  <2> HIDE DEF A
  <2> QED BY <1>6, <2>1 DEF Sums
<1> DEFINE ts == tasks'
<1> HIDE DEF A, acc, x, n, a0
<1>8. /\ ts \in Seq(Task(b)) /\ Len(ts) = N
      /\ \A d \in 1..N : d # c => ts[d] = tasks[d]
      /\ ts[c].next = n + 1 /\ ts[c].acc = A /\ ts[c].last = tasks[c].last
  <2> DEFINE new == [next |-> n + 1, last |-> tasks[c].last, by |-> t, acc |-> A]
  <2>1. new \in Task(b)
    <3>1. t \in Nat
      BY PackingConstants
    <3> QED BY <1>2, <1>4, <1>7, <3>1 DEF Task
  <2>2. ts = [tasks EXCEPT ![c] = new]
    BY <1>1, <1>3
  <2>3. new.next = n + 1 /\ new.acc = A /\ new.last = tasks[c].last
    OBVIOUS
  <2> HIDE DEF new, ts
  <2> QED BY <1>1, <2>1, <2>2, <2>3
<1> HIDE DEF ts
<1>9. \A d \in 1..N : ts[d].last = tasks[d].last
  BY <1>8
<1>10. \A d \in 1..N : First(ts, d) = First(tasks, d)
  <2> TAKE d \in 1..N
  <2>1. d = 1 \/ d - 1 \in 1..N
    BY <1>1
  <2> QED BY <1>9, <2>1 DEF First
<1>11. ASSUME NEW d \in 1..N PROVE Stretch(ts, d, b, ks, ds)
  <2>1. CASE d = c
    <3>1. First(ts, c) = x
      BY <1>1, <1>10 DEF x
    <3>2. \A r \in DOMAIN b, i \in Index : A[r][i] = Between(ks, ds, r, i, x, n + 1)
      BY <1>6
    <3> QED BY <1>4, <1>7, <1>8, <2>1, <3>1, <3>2 DEF Stretch
  <2>2. CASE d # c
    <3>1. Stretch(tasks, d, b, ks, ds)
      BY <1>1 DEF Fused
    <3>2. ts[d] = tasks[d] /\ First(ts, d) = First(tasks, d)
      BY <1>8, <1>10, <2>2
    <3> QED BY <3>1, <3>2 DEF Stretch
  <2> QED BY <2>1, <2>2
<1>12. ts[N].last = Steps
  BY <1>1, <1>9 DEF Fused
<1> QED BY <1>1, <1>8, <1>11, <1>12 DEF Fused, ts

(* Two neighbours of a sequence replaced by one element. *)
Join(s, c, e) == SubSeq(s, 1, c - 1) \o <<e>> \o SubSeq(s, c + 2, Len(s))
Joins(T, s, c, e) == s \in Seq(T) /\ c \in 1..(Len(s) - 1) /\ e \in T

LEMMA Joined ==
    ASSUME NEW T, NEW s, NEW c, NEW e, Joins(T, s, c, e)
    PROVE  /\ Join(s, c, e) \in Seq(T) /\ Len(Join(s, c, e)) = Len(s) - 1
           /\ \A d \in 1..(Len(s) - 1) :
                Join(s, c, e)[d] = IF d < c THEN s[d] ELSE IF d = c THEN e ELSE s[d + 1]
<1> DEFINE N == Len(s)
           u == SubSeq(s, 1, c - 1)
           v == <<e>>
           w == SubSeq(s, c + 2, N)
           uv == u \o v
           new == uv \o w
<1>0. s \in Seq(T) /\ c \in 1..(Len(s) - 1) /\ e \in T
  BY DEF Joins
<1>1. N \in Nat /\ c \in Nat /\ c >= 1 /\ c + 1 <= N
  BY <1>0
<1>2. u \in Seq(T) /\ Len(u) = c - 1 /\ \A d \in 1..(c - 1) : u[d] = s[d]
  <2>1. \A d \in 1..(c - 1) : s[d] \in T
    BY <1>0, <1>1
  <2> QED BY <1>0, <1>1, <2>1
<1>3. v \in Seq(T) /\ Len(v) = 1 /\ v[1] = e
  BY <1>0
<1>4. w \in Seq(T) /\ Len(w) = N - c - 1 /\ \A d \in 1..(N - c - 1) : w[d] = s[c + 1 + d]
  <2>1. CASE c + 2 <= N
    <3>1. \A d \in (c + 2)..N : s[d] \in T
      BY <1>0, <1>1
    <3> QED BY <1>0, <1>1, <2>1, <3>1
  <2>2. CASE c + 1 = N
    BY <1>0, <1>1, <2>2
  <2> QED BY <1>1, <2>1, <2>2
<1> HIDE DEF u, v, w, N
<1>5. uv \in Seq(T) /\ Len(uv) = c /\ \A d \in 1..c : uv[d] = IF d < c THEN s[d] ELSE e
  <2>1. /\ uv \in Seq(T) /\ Len(uv) = Len(u) + Len(v)
        /\ \A d \in 1..(Len(u) + Len(v)) : uv[d] = IF d <= Len(u) THEN u[d] ELSE v[d - Len(u)]
    BY <1>2, <1>3, ConcatProperties
  <2> HIDE DEF uv
  <2>2. Len(u) + Len(v) = c
    BY <1>1, <1>2, <1>3
  <2>3. ASSUME NEW d \in 1..c PROVE uv[d] = IF d < c THEN s[d] ELSE e
    <3>1. CASE d < c
      <4>1. d \in 1..(c - 1) /\ d <= Len(u)
        BY <1>1, <1>2, <3>1
      <4>2. uv[d] = u[d]
        BY <2>1, <2>2, <4>1
      <4> QED BY <1>2, <3>1, <4>1, <4>2
    <3>2. CASE ~(d < c)
      <4>1. ~(d <= Len(u)) /\ d - Len(u) = 1
        BY <1>1, <1>2, <3>2
      <4>2. uv[d] = v[1]
        BY <2>1, <2>2, <4>1
      <4> QED BY <1>3, <3>2, <4>2
    <3> QED BY <3>1, <3>2
  <2> QED BY <2>1, <2>2, <2>3
<1> HIDE DEF uv
<1>6. /\ new \in Seq(T) /\ Len(new) = N - 1
      /\ \A d \in 1..(N - 1) : new[d] = IF d <= c THEN uv[d] ELSE w[d - c]
  <2>1. /\ new \in Seq(T) /\ Len(new) = Len(uv) + Len(w)
        /\ \A d \in 1..(Len(uv) + Len(w)) : new[d] = IF d <= Len(uv) THEN uv[d] ELSE w[d - Len(uv)]
    BY <1>4, <1>5, ConcatProperties
  <2> HIDE DEF new
  <2>2. Len(uv) + Len(w) = N - 1 /\ Len(uv) = c
    BY <1>1, <1>4, <1>5
  <2> QED BY <2>1, <2>2
<1> HIDE DEF new
<1>7. ASSUME NEW d \in 1..(N - 1) PROVE new[d] = IF d < c THEN s[d] ELSE IF d = c THEN e ELSE s[d + 1]
  <2>1. CASE d <= c
    <3>1. new[d] = uv[d] /\ d \in 1..c
      BY <1>1, <1>6, <2>1
    <3> QED BY <1>1, <1>5, <2>1, <3>1
  <2>2. CASE d > c
    <3>1. new[d] = w[d - c] /\ d - c \in 1..(N - c - 1) /\ c + 1 + (d - c) = d + 1
      BY <1>1, <1>6, <2>2
    <3>2. w[d - c] = s[d + 1]
      BY <1>4, <3>1
    <3> QED BY <1>1, <2>2, <3>1, <3>2
  <2>3. d <= c \/ d > c
    BY <1>1
  <2> QED BY <2>1, <2>2, <2>3
<1> QED BY <1>6, <1>7 DEF Join, new, uv, u, v, w, N

LEMMA ReduceKeeps ==
    ASSUME width \in Widths, fused_accumulator_fits, Uploads(batch, keys, pre.digits),
           Fused(tasks, batch, keys, pre.digits), NEW c \in DOMAIN tasks,
           NEW t \in 1..Threads, Reduce(c, t)
    PROVE  Fused(tasks', batch, keys, pre.digits)
<1> DEFINE b == batch
           ks == keys
           ds == pre.digits
           N == Len(tasks)
           x == First(tasks, c)
           y == tasks[c].last + 1
           l == tasks[c + 1].last
           A == [r \in DOMAIN b |-> [i \in Index |->
                   (tasks[c].acc[r][i] + tasks[c + 1].acc[r][i]) % (width + 1)]]
           both == [tasks[c + 1] EXCEPT !.acc = A]
<1>1. /\ tasks \in Seq(Task(b)) /\ N \in Nat /\ DOMAIN tasks = 1..N
      /\ c \in 1..N /\ c + 1 \in 1..N /\ c \in 1..(N - 1) /\ Steps \in Nat
  <2>1. tasks \in Seq(Task(b)) /\ N \in Nat /\ DOMAIN tasks = 1..N
    BY DEF Fused
  <2>2. c + 1 \in DOMAIN tasks
    BY DEF Reduce
  <2> QED BY <2>1, <2>2, HalfFacts
<1>2. /\ tasks[c] \in Task(b) /\ Stretch(tasks, c, b, ks, ds) /\ x \in 1..Steps
      /\ tasks[c + 1] \in Task(b) /\ Stretch(tasks, c + 1, b, ks, ds) /\ First(tasks, c + 1) \in 1..Steps
  BY <1>1, FirstTyped
<1>3. First(tasks, c + 1) = y
  BY <1>1 DEF First
<1>4. /\ tasks[c].next > tasks[c].last /\ tasks[c + 1].next > tasks[c + 1].last
      /\ tasks' = SubSeq(tasks, 1, c - 1) \o <<both>> \o SubSeq(tasks, c + 2, Len(tasks))
  BY DEF Reduce, Summed
<1>5. /\ tasks[c].last \in x..Steps /\ tasks[c].next = y /\ y \in 1..Steps /\ x < y
      /\ l \in y..Steps /\ tasks[c + 1].next = l + 1 /\ l + 1 # y
  <2> DEFINE p == tasks[c].last
             n == tasks[c].next
             m == tasks[c + 1].next
             f == First(tasks, c + 1)
  <2>1. p \in x..Steps /\ n \in x..(p + 1) /\ l \in f..Steps /\ m \in f..(l + 1)
    BY <1>2 DEF Stretch
  <2>2. f = y /\ y = p + 1 /\ n > p /\ m > l /\ x \in 1..Steps /\ f \in 1..Steps
    BY <1>2, <1>3, <1>4
  <2> HIDE DEF p, n, m, f, x, y, l
  <2>3. p \in x..Steps /\ n = y /\ y \in 1..Steps /\ x < y /\ l \in y..Steps /\ m = l + 1 /\ l + 1 # y
    BY <1>1, <2>1, <2>2
  <2> QED BY <2>3 DEF p, n, m
<1>6. ASSUME NEW r \in DOMAIN b, NEW i \in Index
      PROVE  /\ tasks[c].acc[r][i] = Between(ks, ds, r, i, x, y)
             /\ tasks[c + 1].acc[r][i] = Between(ks, ds, r, i, y, l + 1)
  <2>1. tasks[c].next # x /\ tasks[c + 1].next # First(tasks, c + 1)
    BY <1>2, <1>3, <1>5
  <2> QED BY <1>2, <1>3, <1>5, <2>1 DEF Stretch
<1>7. ASSUME NEW r \in DOMAIN b, NEW i \in Index
      PROVE  A[r][i] = Between(ks, ds, r, i, x, l + 1) /\ A[r][i] \in Nat
  <2> DEFINE B(from, to) == Between(ks, ds, r, i, from, to)
  <2>1. /\ x \in 1..(Steps + 1) /\ l + 1 \in x..(Steps + 1) /\ y \in x..(l + 1)
    <3> HIDE DEF x, y, l
    <3> QED BY <1>1, <1>2, <1>5
  <2>2. B(x, l + 1) \in Nat /\ B(x, l + 1) <= Steps * (Largest * ell) /\ B(x, l + 1) = B(x, y) + B(y, l + 1)
    BY <2>1, BetweenFacts
  <2>3. A[r][i] = (B(x, y) + B(y, l + 1)) % (width + 1)
    BY <1>6
  <2> HIDE DEF A, B, x, y, l
  <2>4. A[r][i] = B(x, l + 1) % (width + 1)
    BY <2>2, <2>3
  <2>5. A[r][i] = B(x, l + 1)
    BY <2>2, <2>4, NoWrap
  <2> QED BY <2>2, <2>5 DEF B
<1>8. A \in Sums(b)
  <2>1. A = [r \in DOMAIN b |-> [i \in Index |-> A[r][i]]]
    OBVIOUS
  <2> HIDE DEF A
  <2> QED BY <1>7, <2>1 DEF Sums
<1> HIDE DEF A
<1>9. both \in Task(b) /\ both.last = l /\ both.next = l + 1 /\ both.acc = A
  <2> DEFINE old == tasks[c + 1]
             u == old.next
             v == old.by
             w == old.acc
  <2>1. old = [next |-> u, last |-> l, by |-> v, acc |-> w] /\ u = l + 1 /\ v \in Nat
    BY <1>2, <1>5 DEF Task
  <2>2. l + 1 \in Nat /\ l \in Nat
    BY <1>5
  <2>3. both = [old EXCEPT !.acc = A]
    OBVIOUS
  <2> HIDE DEF old, u, v, w, l, both
  <2>4. both = [next |-> l + 1, last |-> l, by |-> v, acc |-> A]
    BY <2>1, <2>3
  <2> QED BY <1>8, <2>1, <2>2, <2>4 DEF Task
<1> HIDE DEF both
<1> DEFINE ts == tasks'
<1>10. /\ ts \in Seq(Task(b)) /\ Len(ts) = N - 1
       /\ \A d \in 1..(N - 1) :
            ts[d] = IF d < c THEN tasks[d] ELSE IF d = c THEN both ELSE tasks[d + 1]
  <2> DEFINE T == Task(b)
  <2>1. Joins(T, tasks, c, both)
    BY <1>1, <1>9 DEF Joins
  <2> HIDE DEF T, ts
  <2>2. ts = Join(tasks, c, both)
    BY <1>4, Zenon DEF ts, Join
  <2>3. /\ Join(tasks, c, both) \in Seq(T) /\ Len(Join(tasks, c, both)) = Len(tasks) - 1
        /\ \A d \in 1..(Len(tasks) - 1) :
             Join(tasks, c, both)[d] = IF d < c THEN tasks[d] ELSE IF d = c THEN both ELSE tasks[d + 1]
    BY <2>1, Joined
  <2> QED BY <2>2, <2>3 DEF T
<1> HIDE DEF ts
<1>11. ASSUME NEW d \in 1..(N - 1)
       PROVE  First(ts, d) = IF d <= c THEN First(tasks, d) ELSE First(tasks, d + 1)
  <2>1. CASE d = 1
    BY <1>1, <2>1 DEF First
  <2>2. CASE d # 1 /\ d <= c
    <3>1. d - 1 \in 1..(N - 1) /\ d - 1 < c
      BY <1>1, <2>2
    <3>2. ts[d - 1] = tasks[d - 1]
      BY <1>10, <3>1
    <3> QED BY <2>2, <3>2 DEF First
  <2>3. CASE d # 1 /\ d = c + 1
    <3>1. d - 1 \in 1..(N - 1) /\ d - 1 = c /\ ~(c < c)
      BY <1>1, <2>3
    <3>2. ts[c] = both
      BY <1>10, <3>1
    <3>3. (d + 1) - 1 = c + 1 /\ d + 1 # 1 /\ ~(d <= c)
      BY <1>1, <2>3
    <3> QED BY <1>9, <2>3, <3>1, <3>2, <3>3 DEF First
  <2>4. CASE d # 1 /\ d > c + 1
    <3>1. d - 1 \in 1..(N - 1) /\ ~(d - 1 < c) /\ d - 1 # c /\ (d - 1) + 1 = d
      BY <1>1, <2>4
    <3>2. ts[d - 1] = tasks[d]
      BY <1>10, <3>1
    <3>3. (d + 1) - 1 = d /\ d + 1 # 1 /\ ~(d <= c)
      BY <1>1, <2>4
    <3> QED BY <2>4, <3>2, <3>3 DEF First
  <2>5. d <= c \/ d = c + 1 \/ d > c + 1
    BY <1>1
  <2> QED BY <2>1, <2>2, <2>3, <2>4, <2>5
<1>12. ASSUME NEW d \in 1..(N - 1) PROVE Stretch(ts, d, b, ks, ds)
  <2>1. CASE d < c
    <3>1. d \in 1..N /\ d <= c
      BY <1>1, <2>1
    <3>2. Stretch(tasks, d, b, ks, ds)
      BY <3>1 DEF Fused
    <3>3. ts[d] = tasks[d] /\ First(ts, d) = First(tasks, d)
      BY <1>10, <1>11, <2>1, <3>1
    <3> QED BY <3>2, <3>3 DEF Stretch
  <2>2. CASE d = c
    <3>1. ts[d] = both /\ First(ts, d) = x /\ ~(c < c)
      BY <1>1, <1>10, <1>11, <2>2
    <3>2. \A r \in DOMAIN b, i \in Index : A[r][i] = Between(ks, ds, r, i, x, l + 1)
      BY <1>7
    <3> HIDE DEF x, l, y
    <3>3. l \in x..Steps /\ l + 1 \in x..(l + 1) /\ l + 1 # x
      BY <1>1, <1>2, <1>5
    <3> QED BY <1>8, <1>9, <3>1, <3>2, <3>3 DEF Stretch
  <2>3. CASE d > c
    <3>1. d + 1 \in 1..N /\ ~(d <= c) /\ ~(d < c) /\ d # c
      BY <1>1, <2>3
    <3>2. Stretch(tasks, d + 1, b, ks, ds)
      BY <3>1 DEF Fused
    <3>3. ts[d] = tasks[d + 1] /\ First(ts, d) = First(tasks, d + 1)
      BY <1>10, <1>11, <3>1
    <3> QED BY <3>2, <3>3 DEF Stretch
  <2>4. d < c \/ d = c \/ d > c
    BY <1>1
  <2> QED BY <2>1, <2>2, <2>3, <2>4
<1>13. ts[N - 1].last = Steps
  <2>1. tasks[N].last = Steps
    BY DEF Fused
  <2>2. CASE c = N - 1
    <3>1. N - 1 \in 1..(N - 1) /\ ~(N - 1 < c) /\ c + 1 = N
      BY <1>1, <2>2
    <3>2. ts[N - 1] = both
      BY <1>10, <2>2, <3>1
    <3> QED BY <1>9, <2>1, <3>1, <3>2
  <2>3. CASE c # N - 1
    <3>1. N - 1 \in 1..(N - 1) /\ ~(N - 1 < c) /\ (N - 1) + 1 = N
      BY <1>1, <2>3
    <3>2. ts[N - 1] = tasks[N]
      BY <1>10, <2>3, <3>1
    <3> QED BY <2>1, <3>2
  <2> QED BY <2>2, <2>3
<1>14. N - 1 >= 1
  BY <1>1
<1> QED BY <1>10, <1>12, <1>13, <1>14 DEF Fused, ts

(* The one sum that is left is that of the whole schedule. *)
LEMMA FinishFusedIs ==
    ASSUME width \in Widths, Uploads(batch, keys, pre.digits), \A r \in DOMAIN batch : batch[r].b \in Poly,
           Fused(tasks, batch, keys, pre.digits),
           NEW t \in 1..Threads, FinishFused(t), NEW r \in DOMAIN batch
    PROVE  out'[r] = Result(r)
<1> DEFINE a == tasks[1].acc[r]
           c == ntt(batch[r].b)
<1>1. Len(tasks) = 1 /\ tasks[1].next > tasks[1].last /\ 1 \in 1..Len(tasks) /\ Steps \in Nat
  BY HalfFacts DEF FinishFused, Summed
<1>2. out'[r] = add(c, [i \in Index |-> a[i] % Q])
  BY DEF FinishFused
<1>3. Stretch(tasks, 1, batch, keys, pre.digits) /\ tasks[1].last = Steps /\ First(tasks, 1) = 1
  BY <1>1 DEF Fused, First
<1>4. tasks[1].next = Steps + 1 /\ tasks[1].next # 1
  BY <1>1, <1>3, HalfFacts DEF Stretch
<1>5. ASSUME NEW i \in Index PROVE a[i] = SumUpto(r, i, Steps) /\ a[i] \in Nat
  <2>1. a[i] = Between(keys, pre.digits, r, i, 1, Steps + 1) /\ a[i] \in Nat
    BY <1>3, <1>4 DEF Stretch, Sums
  <2> QED BY <2>1 DEF SumUpto, Between
<1>6. c \in Poly
  BY NttPoly
<1> HIDE DEF a, c
<1>7. ASSUME NEW i \in Index PROVE c[i] \in Nat /\ a[i] % Q \in Nat
  <2>1. c[i] \in Nat
    BY <1>6, CoeffFacts DEF Poly
  <2>2. a[i] % Q \in Coeff
    BY <1>5, ModCoeff
  <2> QED BY <2>1, <2>2, CoeffFacts
<1> DEFINE v == [i \in Index |-> a[i] % Q]
<1>8. \A i \in Index : v[i] = a[i] % Q
  OBVIOUS
<1> HIDE DEF v
<1>9. add(c, v) \in Poly /\ \A i \in Index : add(c, v)[i] = (c[i] + v[i]) % Q
  BY <1>7, <1>8, AddTyped
<1>10. ASSUME NEW i \in Index PROVE add(c, v)[i] = (c[i] + SumUpto(r, i, Steps)) % Q
  <2> DEFINE s == c[i]
             u == a[i]
  <2>1. s \in Nat /\ u \in Nat /\ u % Q \in Nat /\ Q \in Nat /\ Q > 0
    BY <1>5, <1>7, RingFacts
  <2> HIDE DEF s, u
  <2>2. ((u % Q) + s) % Q = (u + s) % Q
    BY <2>1, ModAdd
  <2>3. (u % Q) + s = s + (u % Q) /\ u + s = s + u
    BY <2>1
  <2>4. (s + (u % Q)) % Q = (s + u) % Q
    BY <2>2, <2>3
  <2> QED BY <1>5, <1>8, <1>9, <2>4 DEF s, u
<1>11. add(c, v) = [i \in Index |-> (c[i] + SumUpto(r, i, Steps)) % Q]
  BY <1>9, <1>10 DEF Poly
<1> QED BY <1>2, <1>11 DEF Result, c, v

-----------------------------------------------------------------------------
(* The chunks of the schedule are neighbouring stretches that cover it. *)

LEMMA PairMax == ASSUME NEW x \in Int, NEW y \in Int
                 PROVE  Max({x, y}) \in {x, y} /\ Max({x, y}) >= x /\ Max({x, y}) >= y
<1>1. \E m \in {x, y} : \A n \in {x, y} : m >= n
  <2>1. CASE x >= y
    BY <2>1
  <2>2. CASE ~(x >= y)
    BY <2>2
  <2> QED BY <2>1, <2>2
<1> QED BY <1>1 DEF Max

LEMMA PairMin == ASSUME NEW x \in Int, NEW y \in Int
                 PROVE  Min({x, y}) \in {x, y} /\ Min({x, y}) <= x /\ Min({x, y}) <= y
<1>1. \E m \in {x, y} : \A n \in {x, y} : m <= n
  <2>1. CASE x <= y
    BY <2>1
  <2>2. CASE ~(x <= y)
    BY <2>2
  <2> QED BY <2>1, <2>2
<1> QED BY <1>1 DEF Min

LEMMA ChunkFacts ==
    \E N \in Nat :
      /\ N >= 1 /\ Chunks = 1..N /\ ChunkFirst(1) = 1 /\ ChunkLast(N) = Steps
      /\ \A c \in 1..N : /\ ChunkFirst(c) \in 1..Steps /\ ChunkLast(c) \in ChunkFirst(c)..Steps
                         /\ c # 1 => ChunkFirst(c) = ChunkLast(c - 1) + 1
<1> DEFINE cs == collapse_steps_per_task
           a == Steps + cs - 1
           N == a \div cs
           r == a % cs
<1>1. Steps \in Nat /\ Steps >= 1
  BY HalfFacts
<1>2. cs \in Nat /\ cs >= 1
  <2> DEFINE w == Threads * 4
             x == (Steps + w - 1) \div w
  <2>1. w \in Nat /\ w > 0
    BY PackingConstants
  <2> HIDE DEF w
  <2>2. Steps + w - 1 \in Int
    BY <1>1, <2>1
  <2>3. x \in Int
    BY <2>1, <2>2, IntDivided
  <2>4. cs = Max({1, x})
    BY DEF collapse_steps_per_task, w
  <2> HIDE DEF x, cs
  <2>5. Max({1, x}) \in {1, x} /\ Max({1, x}) >= 1
    BY <2>3, PairMax
  <2> QED BY <2>3, <2>4, <2>5
<1>3. Chunks = 1..N
  BY DEF Chunks
<1>4. ASSUME NEW c PROVE ChunkFirst(c) = (c - 1) * cs + 1 /\ ChunkLast(c) = Min({c * cs, Steps})
  BY DEF ChunkFirst, ChunkLast
<1> HIDE DEF cs
<1>5. a \in Int /\ a = Steps + cs - 1
  BY <1>1, <1>2
<1> HIDE DEF a
<1>6. N \in Int /\ r \in 0..(cs - 1) /\ a = N * cs + r
  <2>1. cs > 0
    BY <1>2
  <2>2. a \div cs \in Int /\ a % cs \in 0..(cs - 1) /\ a = (a \div cs) * cs + (a % cs)
    BY <1>2, <1>5, <2>1, IntDivided
  <2> QED BY <2>2 DEF N, r
<1> HIDE DEF N, r
<1>7. N * cs \in Int /\ N * cs >= Steps /\ N * cs <= Steps + cs - 1
  <2>1. N * cs \in Int
    BY <1>2, <1>6, ProductsAreInt
  <2> QED BY <1>1, <1>2, <1>5, <1>6, <2>1
<1>8. N >= 1 /\ N \in Nat
  <2>1. ASSUME ~(N >= 1) PROVE FALSE
    <3>1. N <= 0
      BY <1>6, <2>1
    <3>2. N * cs <= 0
      BY <1>2, <1>6, <3>1, SMT
    <3> QED BY <1>1, <1>7, <3>2
  <2> QED BY <1>6, <2>1
<1>9. ASSUME NEW c \in 1..N
      PROVE  /\ (c - 1) * cs \in Nat /\ (c - 1) * cs <= Steps - 1
             /\ c * cs = (c - 1) * cs + cs /\ c * cs \in Nat
  <2>1. c - 1 \in Nat /\ c - 1 <= N - 1 /\ N - 1 \in Nat /\ cs <= cs
    BY <1>2, <1>8
  <2>2. (c - 1) * cs \in Nat /\ (c - 1) * cs <= (N - 1) * cs /\ (N - 1) * cs \in Nat
    BY <1>2, <2>1, ProductMonotone, ProductsAreNat
  <2>3. (N - 1) * cs = N * cs - cs /\ c * cs = (c - 1) * cs + cs
    BY <1>2, <1>8, SMT
  <2>4. (N - 1) * cs <= Steps - 1
    BY <1>1, <1>2, <1>7, <2>2, <2>3
  <2> QED BY <1>1, <1>2, <2>2, <2>3, <2>4
<1>10. ASSUME NEW c \in 1..N
       PROVE  ChunkFirst(c) \in 1..Steps /\ ChunkLast(c) \in ChunkFirst(c)..Steps
  <2> DEFINE f == (c - 1) * cs
             m == c * cs
  <2>1. f \in Nat /\ f <= Steps - 1 /\ m = f + cs /\ m \in Nat /\ m \in Int
    BY <1>9
  <2>2. ChunkFirst(c) = f + 1 /\ ChunkLast(c) = Min({m, Steps})
    BY <1>4
  <2> HIDE DEF f, m
  <2>3. m \in Int /\ Steps \in Int
    BY <1>1, <2>1
  <2>4. Min({m, Steps}) \in {m, Steps} /\ Min({m, Steps}) <= m /\ Min({m, Steps}) <= Steps
    BY <2>3, PairMin
  <2> QED BY <1>1, <1>2, <2>1, <2>2, <2>4
<1>11. ASSUME NEW c \in 1..N, c # 1 PROVE ChunkFirst(c) = ChunkLast(c - 1) + 1
  <2> DEFINE m == (c - 1) * cs
  <2>1. m \in Nat /\ m <= Steps - 1
    BY <1>9
  <2>2. ChunkFirst(c) = m + 1 /\ ChunkLast(c - 1) = Min({m, Steps})
    BY <1>4
  <2> HIDE DEF m
  <2>3. Min({m, Steps}) \in {m, Steps} /\ Min({m, Steps}) <= m
    BY <1>1, <2>1, PairMin
  <2> QED BY <1>1, <2>1, <2>2, <2>3
<1>12. ChunkLast(N) = Steps
  <2> DEFINE m == N * cs
  <2>1. m \in Int /\ m >= Steps
    BY <1>7
  <2>2. ChunkLast(N) = Min({m, Steps})
    BY <1>4
  <2> HIDE DEF m
  <2>3. m \in Int /\ Steps \in Int
    BY <1>1, <2>1
  <2>4. Min({m, Steps}) \in {m, Steps} /\ Min({m, Steps}) <= m /\ Min({m, Steps}) <= Steps
    BY <2>3, PairMin
  <2> QED BY <1>1, <2>1, <2>2, <2>4
<1>13. ChunkFirst(1) = 1
  <2>1. ChunkFirst(1) = (1 - 1) * cs + 1
    BY <1>4, Zenon
  <2>2. (1 - 1) * cs + 1 = 1
    BY <1>2, SMT
  <2> QED BY <2>1, <2>2
<1> QED BY <1>3, <1>8, <1>10, <1>11, <1>12, <1>13

LEMMA StartFused ==
    ASSUME NEW b, NEW ks, NEW ds, NEW ts,
           ts = [c \in Chunks |-> [next |-> ChunkFirst(c), last |-> ChunkLast(c), by |-> 0, acc |-> <<>>]]
    PROVE  Fused(ts, b, ks, ds)
<1>1. PICK N \in Nat :
        /\ N >= 1 /\ Chunks = 1..N /\ ChunkFirst(1) = 1 /\ ChunkLast(N) = Steps
        /\ \A c \in 1..N : /\ ChunkFirst(c) \in 1..Steps /\ ChunkLast(c) \in ChunkFirst(c)..Steps
                           /\ c # 1 => ChunkFirst(c) = ChunkLast(c - 1) + 1
  BY ChunkFacts
<1>2. Steps \in Nat
  BY HalfFacts
<1>3. ASSUME NEW c \in 1..N
      PROVE  /\ ts[c] = [next |-> ChunkFirst(c), last |-> ChunkLast(c), by |-> 0, acc |-> <<>>]
             /\ ts[c] \in Task(b)
             /\ ts[c].next = ChunkFirst(c) /\ ts[c].last = ChunkLast(c) /\ ts[c].acc = <<>>
  <2>1. ts[c] = [next |-> ChunkFirst(c), last |-> ChunkLast(c), by |-> 0, acc |-> <<>>]
    BY <1>1
  <2>2. ChunkFirst(c) \in Nat /\ ChunkLast(c) \in Nat
    BY <1>1, <1>2
  <2> QED BY <2>1, <2>2 DEF Task
<1>4. ts \in Seq(Task(b)) /\ Len(ts) = N
  <2>1. ts \in [1..N -> Task(b)]
    BY <1>1, <1>3
  <2> QED BY <2>1
<1>5. ASSUME NEW c \in 1..N PROVE First(ts, c) = ChunkFirst(c)
  <2>1. CASE c = 1
    BY <1>1, <2>1 DEF First
  <2>2. CASE c # 1
    <3>1. c - 1 \in 1..N
      BY <2>2
    <3> QED BY <1>1, <1>3, <2>2, <3>1 DEF First
  <2> QED BY <2>1, <2>2
<1>6. ASSUME NEW c \in 1..N PROVE Stretch(ts, c, b, ks, ds)
  <2>1. /\ ChunkFirst(c) \in 1..Steps /\ ChunkLast(c) \in ChunkFirst(c)..Steps
        /\ ChunkFirst(c) \in ChunkFirst(c)..(ChunkLast(c) + 1)
    BY <1>1, <1>2
  <2> QED BY <1>3, <1>5, <2>1 DEF Stretch
<1>7. Len(ts) >= 1 /\ ts[Len(ts)].last = Steps
  BY <1>1, <1>3, <1>4
<1> QED BY <1>4, <1>6, <1>7 DEF Fused

-----------------------------------------------------------------------------
(* The inductive invariant *)

Stages == {"idle", "public", "collapse", "bind", "fused", "stepwise", "done", "affine", "bound"}

InputsOK ==
    /\ crs \in [Index -> Poly] /\ width \in Widths /\ stage \in Stages
    /\ \A r \in DOMAIN batch : Request(batch[r])

(* Every slot switched away has left its digits. *)
SlotsOK ==
    /\ slots \in [Sides -> Seq(Poly)] /\ digits \in [Sides -> Seq(Row)]
    /\ stage = "public" => \A side \in Sides : digits[side] = <<>>
    /\ stage = "collapse" => \A side \in Sides :
         Len(slots[side]) >= 1 /\ Len(slots[side]) + Len(digits[side]) = Half

DigitsOK == stage \notin {"idle", "public", "collapse"} => \A n \in 1..Steps : pre.digits[n] \in Row

KeysOK == stage \in {"fused", "stepwise"} => \A r \in DOMAIN batch : keys[r].kg \in Row /\ keys[r].kh \in Row

FusedOK == stage = "fused" => fused_accumulator_fits /\ Fused(tasks, batch, keys, pre.digits)

PackInv == InputsOK /\ SlotsOK /\ DigitsOK /\ KeysOK /\ FusedOK /\ PathsAgree

LEMMA InitBatch ==
    ASSUME NEW rows \in [Index -> Poly], NEW given \in Batches
    PROVE  \A r \in DOMAIN EncryptBatch(rows, given) : Request(EncryptBatch(rows, given)[r])
<1> DEFINE b == EncryptBatch(rows, given)
<1>1. \E N \in Nat : DOMAIN b = 1..N /\ Len(b) = N /\ \A r \in 1..N : Request(b[r])
  BY BatchTyped
<1> HIDE DEF b
<1>2. \A r \in DOMAIN b : Request(b[r])
  BY <1>1
<1> QED BY <1>2 DEF b

LEMMA InitEstablishes == Init => PackInv
<1> SUFFICES ASSUME Init PROVE PackInv
  OBVIOUS
<1>1. crs \in [Index -> Poly] /\ width \in Widths /\ stage = "public"
  BY PackingConstants DEF Init, Poly
<1>2. PICK given \in Batches : batch = EncryptBatch(crs, given)
  BY DEF Init
<1>3. InputsOK
  BY <1>1, <1>2, InitBatch DEF InputsOK, Stages
<1>4. SlotsOK
  BY <1>1 DEF Init, SlotsOK
<1> QED BY <1>1, <1>3, <1>4 DEF PackInv, DigitsOK, KeysOK, FusedOK, PathsAgree

(* What a step leaves alone. *)
LEMMA StepwiseUnchanged ==
    ASSUME UNCHANGED <<batch, width, pre, keys>>, NEW r PROVE stepwise(r)' = stepwise(r)
  BY DEF stepwise, multiply_permuted_body_by_digits

LEMMA BuildKeeps == ASSUME PackInv, PublicBuild PROVE PackInv'
<1>1. slots' = build_a_agg(crs) /\ stage = "public" /\ stage' = "collapse"
      /\ UNCHANGED <<crs, batch, width, digits, pre, keys, tasks, pool, out, cascade>>
  BY DEF PublicBuild
<1>2. InputsOK'
  BY <1>1 DEF PackInv, InputsOK, Stages
<1>3. build_a_agg(crs) \in [Sides -> [1..Half -> Poly]]
  BY SlotsTyped DEF PackInv, InputsOK
<1>4. slots' \in [Sides -> Seq(Poly)] /\ \A side \in Sides : Len(slots'[side]) = Half
  <2> DEFINE s == build_a_agg(crs)
  <2>1. s \in [Sides -> [1..Half -> Poly]] /\ Half \in Nat
    BY <1>3, HalfFacts
  <2> HIDE DEF s
  <2>2. ASSUME NEW side \in Sides PROVE s[side] \in Seq(Poly) /\ Len(s[side]) = Half
    <3>1. s[side] \in [1..Half -> Poly]
      BY <2>1
    <3> QED BY <2>1, <3>1
  <2>3. s \in [Sides -> Seq(Poly)]
    BY <2>1, <2>2
  <2> QED BY <1>1, <2>2, <2>3 DEF s
<1>5. SlotsOK'
  BY <1>1, <1>4, HalfFacts DEF PackInv, SlotsOK
<1> QED BY <1>1, <1>2, <1>5 DEF PackInv, DigitsOK, KeysOK, FusedOK, PathsAgree

LEMMA CollapseHalfKeeps ==
    ASSUME PackInv, NEW side \in Sides, collapse_half(side) PROVE PackInv'
<1> DEFINE n == Len(slots[side])
           last == slots[side][n]
           next == ks_digits_ntt_from_c1(last)
           sum == add(slots[side][n - 1], multiply(kg_top(side, n - 2), next))
           s == slots[side]
           d == digits[side]
<1>1. /\ slots' = [slots EXCEPT ![side] = Append(SubSeq(@, 1, n - 2), sum)]
      /\ digits' = [digits EXCEPT ![side] = Append(@, next)]
      /\ stage = "collapse" /\ n > 1
      /\ UNCHANGED <<crs, batch, width, stage, pre, keys, tasks, pool, out, cascade>>
  BY DEF collapse_half
<1>2. /\ slots \in [Sides -> Seq(Poly)] /\ digits \in [Sides -> Seq(Row)]
      /\ s \in Seq(Poly) /\ d \in Seq(Row) /\ Half \in Nat
      /\ \A x \in Sides : Len(slots[x]) >= 1 /\ Len(slots[x]) + Len(digits[x]) = Half
  BY <1>1, HalfFacts DEF PackInv, SlotsOK
<1>3. n \in Nat /\ n \in 1..n /\ n - 1 \in 1..n /\ n <= Half /\ n + Len(d) = Half
  BY <1>1, <1>2
<1>4. next \in Row /\ sum \in Poly
  <2>1. last \in Poly /\ slots[side][n - 1] \in Poly
    BY <1>2, <1>3
  <2>2. next \in Row
    BY <2>1, SwitchDigitsTyped
  <2>3. n - 2 \in 0..(Half - 1)
    BY <1>1, <1>2, <1>3
  <2>4. kg_top(side, n - 2) \in Row
    BY <2>3, TopsTyped
  <2> HIDE DEF next
  <2>5. multiply(kg_top(side, n - 2), next) \in Poly
    BY <2>2, <2>4, MultiplyTyped
  <2> QED BY <2>1, <2>2, <2>5, PointwiseTyped
<1> HIDE DEF next, sum
<1> DEFINE s1 == Append(SubSeq(s, 1, n - 2), sum)
           d1 == Append(d, next)
<1>5. s1 \in Seq(Poly) /\ Len(s1) = n - 1
  <2>1. SubSeq(s, 1, n - 2) \in Seq(Poly) /\ Len(SubSeq(s, 1, n - 2)) = n - 2
    <3>0. s \in Seq(Poly) /\ Len(s) = n /\ n \in Nat /\ n > 1
      BY <1>1, <1>2, <1>3
    <3> HIDE DEF s, n
    <3>1. \A j \in 1..(n - 2) : s[j] \in Poly
      BY <3>0
    <3> QED BY <3>0, <3>1
  <2> QED BY <1>3, <1>4, <2>1
<1>6. d1 \in Seq(Row) /\ Len(d1) = Len(d) + 1
  BY <1>2, <1>4
<1>7. slots' = [slots EXCEPT ![side] = s1] /\ digits' = [digits EXCEPT ![side] = d1]
  BY <1>1
<1> HIDE DEF s1, d1
<1>8. SlotsOK'
  <2>1. slots' \in [Sides -> Seq(Poly)] /\ digits' \in [Sides -> Seq(Row)]
    BY <1>2, <1>5, <1>6, <1>7
  <2>2. ASSUME NEW x \in Sides PROVE Len(slots'[x]) >= 1 /\ Len(slots'[x]) + Len(digits'[x]) = Half
    <3>1. CASE x = side
      <4>1. slots'[x] = s1 /\ digits'[x] = d1
        BY <1>2, <1>7, <3>1
      <4>2. Len(d) \in Nat
        BY <1>2
      <4> DEFINE l == Len(d)
      <4>3. n > 1 /\ n \in Nat /\ l \in Nat /\ n + l = Half /\ Len(s1) = n - 1 /\ Len(d1) = l + 1
        BY <1>1, <1>3, <1>5, <1>6, <4>2
      <4> HIDE DEF n, l
      <4> QED BY <4>1, <4>3
    <3>2. CASE x # side
      <4>1. slots'[x] = slots[x] /\ digits'[x] = digits[x]
        BY <1>2, <1>7, <3>2
      <4> QED BY <1>2, <4>1
    <3> QED BY <3>1, <3>2
  <2> QED BY <1>1, <2>1, <2>2 DEF SlotsOK
<1>9. InputsOK'
  BY <1>1 DEF PackInv, InputsOK
<1> QED BY <1>1, <1>8, <1>9 DEF PackInv, DigitsOK, KeysOK, FusedOK, PathsAgree

LEMMA JoinKeeps == ASSUME PackInv, JoinHalves PROVE PackInv'
<1> DEFINE final == ks_digits_ntt_from_c1(slots["right"][1])
           L == digits["left"]
           R == digits["right"]
           all == L \o R \o <<final>>
<1>1. /\ stage = "collapse" /\ stage' = "bind" /\ \A side \in Sides : Len(slots[side]) = 1
      /\ slots' = [side \in Sides |-> <<>>] /\ digits' = [side \in Sides |-> <<>>]
      /\ pre'.digits = all
      /\ UNCHANGED <<crs, batch, width, keys, tasks, pool, out, cascade>>
  BY DEF JoinHalves
<1>2. /\ "left" \in Sides /\ "right" \in Sides /\ slots["right"] \in Seq(Poly)
      /\ L \in Seq(Row) /\ R \in Seq(Row) /\ Half \in Nat /\ Half >= 1 /\ Steps = 2 * Half - 1
      /\ Len(L) = Half - 1 /\ Len(R) = Half - 1
  <2>1. "left" \in Sides /\ "right" \in Sides
    BY DEF Sides
  <2>2. slots \in [Sides -> Seq(Poly)] /\ digits \in [Sides -> Seq(Row)]
        /\ \A side \in Sides : Len(slots[side]) + Len(digits[side]) = Half
    BY <1>1 DEF PackInv, SlotsOK
  <2>3. L \in Seq(Row) /\ R \in Seq(Row) /\ slots["right"] \in Seq(Poly)
    BY <2>1, <2>2
  <2>4. 1 + Len(L) = Half /\ 1 + Len(R) = Half
    BY <1>1, <2>1, <2>2
  <2>5. Len(L) \in Nat /\ Len(R) \in Nat
    BY <2>3
  <2> HIDE DEF L, R
  <2>6. Len(L) = Half - 1 /\ Len(R) = Half - 1
    BY <2>4, <2>5, HalfFacts
  <2> QED BY <2>1, <2>3, <2>6, HalfFacts
<1>3. final \in Row
  <2>1. slots["right"][1] \in Poly
    BY <1>1, <1>2
  <2> QED BY <2>1, SwitchDigitsTyped
<1> HIDE DEF final, L, R
<1> DEFINE LR == L \o R
<1>4. LR \in Seq(Row) /\ Len(LR) = 2 * Half - 2
  BY <1>2
<1>5. all \in Seq(Row) /\ Len(all) = Steps
  <2>1. all = LR \o <<final>>
    OBVIOUS
  <2> HIDE DEF LR, all
  <2> QED BY <1>2, <1>3, <1>4, <2>1
<1> HIDE DEF all
<1>6. \A n \in 1..Steps : pre'.digits[n] \in Row
  BY <1>1, <1>5
<1>7. InputsOK' /\ DigitsOK'
  BY <1>1, <1>6 DEF PackInv, InputsOK, Stages, DigitsOK
<1>8. SlotsOK'
  BY <1>1 DEF SlotsOK
<1> QED BY <1>1, <1>7, <1>8 DEF PackInv, KeysOK, FusedOK, PathsAgree

LEMMA StartKeeps == ASSUME PackInv, StartPack PROVE PackInv'
<1>1. /\ stage = "bind" /\ stage' \in {"fused", "stepwise"}
      /\ keys' = [r \in DOMAIN batch |-> [kg |-> batch[r].kg, kh |-> batch[r].kh]]
      /\ stage' = "fused" => /\ fused_accumulator_fits
           /\ tasks' = [c \in Chunks |-> [next |-> ChunkFirst(c), last |-> ChunkLast(c), by |-> 0, acc |-> <<>>]]
      /\ UNCHANGED <<crs, batch, width, slots, digits, pre, pool, out, cascade>>
  BY DEF StartPack
<1>2. ASSUME NEW r \in DOMAIN batch' PROVE keys'[r].kg \in Row /\ keys'[r].kh \in Row
  <2>1. r \in DOMAIN batch /\ Request(batch[r])
    BY <1>1 DEF PackInv, InputsOK
  <2> QED BY <1>1, <2>1 DEF Request
<1>3. FusedOK'
  <2> SUFFICES ASSUME stage' = "fused"
               PROVE  fused_accumulator_fits' /\ Fused(tasks', batch', keys', pre'.digits)
    BY DEF FusedOK
  <2>1. fused_accumulator_fits'
    BY <1>1 DEF fused_accumulator_fits
  <2>2. Fused(tasks', batch', keys', pre'.digits)
    BY <1>1, StartFused
  <2> QED BY <2>1, <2>2
<1>4. InputsOK' /\ DigitsOK' /\ SlotsOK'
  BY <1>1 DEF PackInv, InputsOK, Stages, DigitsOK, SlotsOK
<1>5. KeysOK'
  BY <1>2 DEF KeysOK
<1> QED BY <1>1, <1>3, <1>4, <1>5 DEF PackInv, PathsAgree

(* While the tasks run. *)
LEMMA FusedFacts ==
    ASSUME PackInv, stage = "fused"
    PROVE  /\ width \in Widths /\ fused_accumulator_fits
           /\ Uploads(batch, keys, pre.digits) /\ Fused(tasks, batch, keys, pre.digits)
           /\ \A r \in DOMAIN batch : batch[r].b \in Poly
  BY DEF PackInv, InputsOK, DigitsOK, KeysOK, FusedOK, Uploads, Request

LEMMA AccumulatePreserves ==
    ASSUME PackInv, NEW c \in DOMAIN tasks, NEW t \in 1..Threads, Accumulate(c, t) PROVE PackInv'
<1>1. /\ stage = "fused"
      /\ UNCHANGED <<crs, batch, width, stage, slots, digits, pre, keys, out, cascade>>
  BY DEF Accumulate
<1>2. Fused(tasks', batch, keys, pre.digits)
  BY <1>1, FusedFacts, AccumulateKeeps
<1>3. FusedOK'
  BY <1>1, <1>2, FusedFacts DEF FusedOK, fused_accumulator_fits
<1>4. InputsOK' /\ DigitsOK' /\ SlotsOK' /\ KeysOK'
  BY <1>1 DEF PackInv, InputsOK, DigitsOK, SlotsOK, KeysOK
<1> QED BY <1>1, <1>3, <1>4 DEF PackInv, PathsAgree

LEMMA ReducePreserves ==
    ASSUME PackInv, NEW c \in DOMAIN tasks, NEW t \in 1..Threads, Reduce(c, t) PROVE PackInv'
<1>1. /\ stage = "fused"
      /\ UNCHANGED <<crs, batch, width, stage, slots, digits, pre, keys, out, cascade>>
  BY DEF Reduce
<1>2. Fused(tasks', batch, keys, pre.digits)
  BY <1>1, FusedFacts, ReduceKeeps
<1>3. FusedOK'
  BY <1>1, <1>2, FusedFacts DEF FusedOK, fused_accumulator_fits
<1>4. InputsOK' /\ DigitsOK' /\ SlotsOK' /\ KeysOK'
  BY <1>1 DEF PackInv, InputsOK, DigitsOK, SlotsOK, KeysOK
<1> QED BY <1>1, <1>3, <1>4 DEF PackInv, PathsAgree

LEMMA FinishFusedPreserves ==
    ASSUME PackInv, NEW t \in 1..Threads, FinishFused(t) PROVE PackInv'
<1>1. /\ stage = "fused" /\ stage' = "done"
      /\ UNCHANGED <<crs, batch, width, slots, digits, pre, keys, cascade>>
  BY DEF FinishFused
<1>2. ASSUME NEW r \in DOMAIN batch PROVE out'[r] = stepwise(r)
  <2>1. out'[r] = Result(r)
    BY <1>1, FusedFacts, FinishFusedIs
  <2>2. Uploaded(r) /\ width \in Widths
    BY <1>1, FusedFacts DEF Uploaded, Uploads
  <2> QED BY <2>1, <2>2, StepwiseIs
<1>3. PathsAgree'
  BY <1>1, <1>2, StepwiseUnchanged DEF PathsAgree
<1>4. InputsOK' /\ DigitsOK' /\ SlotsOK'
  BY <1>1 DEF PackInv, InputsOK, DigitsOK, SlotsOK, Stages
<1> QED BY <1>1, <1>3, <1>4 DEF PackInv, KeysOK, FusedOK

LEMMA FinishStepwisePreserves == ASSUME PackInv, FinishStepwise PROVE PackInv'
<1>1. /\ stage = "stepwise" /\ stage' = "done" /\ out' = [r \in DOMAIN batch |-> stepwise(r)]
      /\ UNCHANGED <<crs, batch, width, slots, digits, pre, keys, tasks, pool, cascade>>
  BY DEF FinishStepwise
<1>2. \A r \in DOMAIN batch : out'[r] = stepwise(r)
  BY <1>1
<1>3. PathsAgree'
  BY <1>1, <1>2, StepwiseUnchanged DEF PathsAgree
<1>4. InputsOK' /\ DigitsOK' /\ SlotsOK'
  BY <1>1 DEF PackInv, InputsOK, DigitsOK, SlotsOK, Stages
<1> QED BY <1>1, <1>3, <1>4 DEF PackInv, KeysOK, FusedOK

LEMMA CascadePreserves ==
    ASSUME PackInv,
           \/ \E r \in DOMAIN batch : BindKeys(r)
           \/ \E side \in Sides : collapse_one(side)
           \/ collapse_final
    PROVE  PackInv'
<1>1. /\ stage \in {"done", "affine"} /\ stage' \in {"affine", "bound"}
      /\ UNCHANGED <<crs, batch, width, slots, digits, pre, keys, tasks, pool, out>>
  BY DEF BindKeys, collapse_one, collapse_final
<1> QED BY <1>1 DEF PackInv, InputsOK, DigitsOK, SlotsOK, KeysOK, FusedOK, PathsAgree, Stages

LEMMA AgainPreserves == ASSUME PackInv, Again PROVE PackInv'
<1>1. /\ stage \in {"done", "bound"} /\ stage' = "bind"
      /\ UNCHANGED <<crs, width, slots, digits, pre, tasks, pool>>
  BY DEF Again
<1>2. PICK given \in Batches : batch' = EncryptBatch(crs, given)
  BY DEF Again
<1>3. InputsOK'
  BY <1>1, <1>2, InitBatch DEF PackInv, InputsOK, Stages
<1>4. DigitsOK' /\ SlotsOK'
  BY <1>1 DEF PackInv, DigitsOK, SlotsOK
<1> QED BY <1>1, <1>3, <1>4 DEF PackInv, KeysOK, FusedOK, PathsAgree

LEMMA StutterPreserves == ASSUME PackInv, UNCHANGED vars PROVE PackInv'
<1>1. UNCHANGED <<crs, batch, width, stage, slots, digits, pre, keys, tasks, pool, out, cascade>>
  BY DEF vars
<1>2. PathsAgree'
  BY <1>1, StepwiseUnchanged DEF PackInv, PathsAgree
<1>3. FusedOK'
  BY <1>1 DEF PackInv, FusedOK, fused_accumulator_fits
<1> QED BY <1>1, <1>2, <1>3 DEF PackInv, InputsOK, DigitsOK, SlotsOK, KeysOK

(* preprocess, prepare_keys, collapse_uploaded_bodies: whatever is scheduled,  *)
(* rows of digits stay gadget digits, and a chunk's accumulators hold the sums *)
(* of its own terms, within their bound.                                       *)
THEOREM PackInvariant == Spec => []PackInv
<1>1. Init => PackInv
  BY InitEstablishes
<1>2. PackInv /\ [Next]_vars => PackInv'
  <2> SUFFICES ASSUME PackInv, [Next]_vars PROVE PackInv'
    OBVIOUS
  <2>1. CASE PublicBuild
    BY <2>1, BuildKeeps
  <2>2. CASE \E side \in Sides : collapse_half(side)
    BY <2>2, CollapseHalfKeeps
  <2>3. CASE JoinHalves
    BY <2>3, JoinKeeps
  <2>4. CASE StartPack
    BY <2>4, StartKeeps
  <2>5. CASE \E t \in 1..Threads : FinishFused(t)
    BY <2>5, FinishFusedPreserves
  <2>6. CASE FinishStepwise
    BY <2>6, FinishStepwisePreserves
  <2>7. CASE Again
    BY <2>7, AgainPreserves
  <2>8. CASE \E t \in 1..Threads : \E c \in DOMAIN tasks : Accumulate(c, t)
    BY <2>8, AccumulatePreserves
  <2>9. CASE \E t \in 1..Threads : \E c \in DOMAIN tasks : Reduce(c, t)
    BY <2>9, ReducePreserves
  <2>10. CASE \/ \E r \in DOMAIN batch : BindKeys(r)
              \/ \E side \in Sides : collapse_one(side)
              \/ collapse_final
    BY <2>10, CascadePreserves
  <2>11. CASE UNCHANGED vars
    BY <2>11, StutterPreserves
  <2> QED BY <2>1, <2>2, <2>3, <2>4, <2>5, <2>6, <2>7, <2>8, <2>9, <2>10, <2>11 DEF Next
<1> QED BY <1>1, <1>2, PTL DEF Spec

(* PackingScratch::new, collapse_terms: however many threads run, join and    *)
(* drop the chunks, and whatever earlier requests left in their buffers, each *)
(* sum is the exact sum of its own request's terms.                           *)
THEOREM SumsStayOwn == Spec => []SumsAreOwn
<1>1. PackInv => SumsAreOwn
  <2> SUFFICES ASSUME PackInv, stage = "fused", NEW c \in DOMAIN tasks, tasks[c].acc # <<>>,
                      NEW r \in DOMAIN batch, NEW i \in Index
               PROVE  tasks[c].acc[r][i]
                        = SumOf([n \in 1..Steps |-> Added(r, n, i)], First(tasks, c), tasks[c].next)
    BY DEF SumsAreOwn
  <2>1. Fused(tasks, batch, keys, pre.digits)
    BY FusedFacts
  <2>2. c \in 1..Len(tasks) /\ Stretch(tasks, c, batch, keys, pre.digits)
    BY <2>1 DEF Fused
  <2>3. tasks[c].acc[r][i] = Between(keys, pre.digits, r, i, First(tasks, c), tasks[c].next)
    BY <2>2 DEF Stretch
  <2>4. Terms(keys[r].kg, keys[r].kh, pre.digits, i) = [n \in 1..Steps |-> Added(r, n, i)]
    BY DEF Terms, TermAt, Products, Added
  <2> QED BY <2>3, <2>4 DEF Between
<1> QED BY <1>1, PackInvariant, PTL

(* collapse_uploaded_bodies: however the chunks of the schedule are run and   *)
(* reduced, on however many threads, the c2 of each request is the one that   *)
(* collapse_uploaded_body_b_stepwise computes.                                *)
THEOREM FusedIsStepwise == Spec => []PathsAgree
<1>1. PackInv => PathsAgree
  BY DEF PackInv
<1> QED BY <1>1, PackInvariant, PTL
=============================================================================
