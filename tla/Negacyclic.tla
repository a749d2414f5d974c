----------------------------- MODULE Negacyclic -----------------------------
(***************************************************************************)
(* Polynomials over Z_Q modulo X^D + 1 by their coefficients, and the ring *)
(* FFT of reinspiring/src/compile.rs, which both the odd and the native    *)
(* packing compile with.  tau_raw belongs to spiral-rs.                    *)
(***************************************************************************)
EXTENDS Integers, Sequences, FiniteSetsExt, Summation

CONSTANTS D, Q   \* degree, a power of two, and ciphertext modulus

Coeff == 0..(Q - 1)
Index == 0..(D - 1)
Half == D \div 2
Steps == D - 1       \* key switches of a collapse
KgSteps == 1..(Steps - 1)

neg(x) == IF x = 0 THEN 0 ELSE Q - x
SumMod(f(_), from, to) == SumOf([i \in from..(to - 1) |-> f(i)], from, to) % Q

zero == [i \in Index |-> 0]
add(u, v) == [i \in Index |-> (u[i] + v[i]) % Q]
negate(u) == [i \in Index |-> neg(u[i])]
unit(k) == [i \in Index |-> IF i = k THEN 1 ELSE 0]

-----------------------------------------------------------------------------
(* Automorphisms X -> X^t, t odd *)

G == 5
h == 2 * D - 1
tau_g_pow(j) == LET p[i \in 0..j] == IF i = 0 THEN 1 ELSE (p[i - 1] * G) % (2 * D) IN p[j]

(* The coefficient that X^k, k in 0..2*D-1, contributes to is k % D. *)
tau_raw(p, t) == [i \in Index |->
    LET k == CHOOSE k \in Index : (k * t) % D = i
    IN  IF (k * t) % (2 * D) < D THEN p[k] ELSE neg(p[k])]
tau_coeffs(p, g) == tau_raw(p, g)

schoolbook_negacyclic(a, b) == [i \in Index |->
    SumMod(LAMBDA j : IF j <= i THEN (a[j] * b[i - j]) % Q ELSE neg((a[j] * b[D + i - j]) % Q), 0, D)]

-----------------------------------------------------------------------------
(* Compilation of one gadget limb.  The n-th key switch of a collapse has     *)
(* exponent collapse_kg_exponents[n]: the images of a half downwards, the     *)
(* left half first.                                                           *)

collapse_kg_exponents == [n \in KgSteps |->
    IF n < Half THEN tau_g_pow(Half - 1 - n) ELSE (tau_g_pow(Steps - 1 - n) * h) % (2 * D)]

(* Multiplication by X^e, e below 2*D. *)
rotate_by_x_power(p, e) == [i \in Index |->
    LET shift == e % D
        source == (i - shift) % D
        wraps == source + shift >= D
    IN  IF wraps # (e >= D) THEN neg(p[source]) ELSE p[source]]

LogD == CHOOSE k \in 1..D : 2^k = D
bit_reverse(i) == LET r[k \in 0..LogD] == IF k = 0 THEN 0 ELSE 2 * r[k - 1] + ((i \div 2^(k - 1)) % 2)
                  IN  r[LogD]

(* tau_g(X^j) = X^j * (X^(2*j))^((g - 1) / 2): the digits ts[n] of step n go  *)
(* to entry (g - 1) / 2.                                                      *)
FftInput(ts) ==
    LET goes_to(n, i) == (collapse_kg_exponents[n] - 1) \div 2 = i
        p_hat == [i \in Index |-> [j \in Index |->
            SumMod(LAMBDA n : IF goes_to(n, i) THEN ts[n][j] ELSE 0, 1, Steps)]]
    IN  [i \in Index |-> p_hat[bit_reverse(i)]]

(* Mutation: the twiddle of a layer advances by X instead of X^2. *)
Twiddle_single(k, len) == ((D \div len) * k) % (2 * D)
Twiddle(k, len) == (2 * (D \div len) * k) % (2 * D)

(* One layer of butterflies, between entries len \div 2 apart. *)
ring_fft_layer(a, len) == [i \in Index |->
    LET half == len \div 2
        k == i % half
        upper == i % len < half
        u == IF upper THEN a[i] ELSE a[i - half]
        v == rotate_by_x_power(IF upper THEN a[i + half] ELSE a[i], Twiddle(k, len))
    IN  IF upper THEN add(u, v) ELSE add(u, negate(v))]

(* Column j is X^j times the value at X^(2*j). *)
FftColumns(a) == [r \in Index |-> [j \in Index |-> rotate_by_x_power(a[j], j)[r]]]

(* The reference, compile_naive: column c of Neg(t)*P_tau is t * tau(X^c). *)
compile_naive(ts) == [r \in Index |-> [c \in Index |->
    SumMod(LAMBDA n : schoolbook_negacyclic(ts[n], tau_coeffs(unit(c), collapse_kg_exponents[n]))[r],
           1, Steps)]]
=============================================================================
