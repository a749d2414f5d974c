------------------------------- MODULE LiftNtt -------------------------------
(***************************************************************************)
(* reinspiring/src/lift_ntt.rs: negacyclic products modulo the native Q,   *)
(* for which no NTT exists.  Operands are centred, transformed modulo      *)
(* auxiliary primes, multiplied slot by slot, and the signed integer is    *)
(* rebuilt by the Chinese remainder theorem before it is reduced modulo Q. *)
(* Two primes are used when a public bound says the integer fits, three    *)
(* otherwise.  All operands share D and Q, as one LiftContext's do.  The   *)
(* transforms belong to spiral-rs.                                         *)
(***************************************************************************)
EXTENDS Negacyclic, Functions

CONSTANTS
    LiftPrimes,   \* three primes, each 1 modulo 2*D, increasing
    LiftTasks     \* records [how, a, b, bound]: operands and the path that multiplies them

VARIABLES
    lift,         \* the task
    left, right,  \* the prepared operands, <<>> before and when refused
    lifted        \* the product, <<>> before and when refused

liftvars == <<lift, left, right, lifted>>

PrimeIndex == 1..3
Modulus(n) == FoldFunction(LAMBDA p, x : p * x, 1, [j \in 1..n |-> LiftPrimes[j]])
Modulus2 == Modulus(2)
Modulus3 == Modulus(3)
ModulusOf(n) == IF n = 2 THEN Modulus2 ELSE Modulus3

centered(x) == IF x > Q \div 2 THEN x - Q ELSE x
Abs(x) == IF x < 0 THEN -x ELSE x
max_abs(poly) == Max({Abs(centered(poly[i])) : i \in Index})
validate(poly) == \A i \in Index : poly[i] \in Coeff

invert_uint_mod(x, m) == CHOOSE y \in 1..(m - 1) : (x * y) % m = 1
inverses == <<invert_uint_mod(LiftPrimes[1] % LiftPrimes[2], LiftPrimes[2]),
              invert_uint_mod(Modulus2 % LiftPrimes[3], LiftPrimes[3])>>

-----------------------------------------------------------------------------
(* spiral-rs: slot s holds the value at an odd power of a 2*D-th root of      *)
(* unity, odd powers in bit-reversed order.                                   *)

PowMod(x, n, m) == LET p[i \in 0..n] == IF i = 0 THEN 1 ELSE (p[i - 1] * x) % m IN p[n]
RootPowers == [j \in PrimeIndex |->
    LET m == LiftPrimes[j]
        psi == CHOOSE x \in 2..(m - 1) : PowMod(x, D, m) = m - 1
    IN  [e \in 0..(2 * D - 1) |-> PowMod(psi, e, m)]]
DegreeInverse == [j \in PrimeIndex |-> invert_uint_mod(D, LiftPrimes[j])]
SlotPowers == [j \in PrimeIndex |-> [s \in Index |-> [i \in Index |->
    RootPowers[j][(i * (2 * bit_reverse(s) + 1)) % (2 * D)]]]]
InversePowers == [j \in PrimeIndex |-> [i \in Index |-> [s \in Index |->
    (DegreeInverse[j] * invert_uint_mod(SlotPowers[j][s][i], LiftPrimes[j])) % LiftPrimes[j]]]]

to_ntt(poly, j) == [s \in Index |->
    MapThenSumSet(LAMBDA i : poly[i] * SlotPowers[j][s][i], Index) % LiftPrimes[j]]
from_ntt(slots, j) == [i \in Index |->
    MapThenSumSet(LAMBDA s : slots[s] * InversePowers[j][i][s], Index) % LiftPrimes[j]]
MultiplySlots(u, v, j) == [s \in Index |-> (u[s] * v[s]) % LiftPrimes[j]]

-----------------------------------------------------------------------------
(* Reconstruction from the residues of two or three primes *)

GarnerStep(x, r, n, below) == LET p == LiftPrimes[n]
                                 delta == ((r[n] + p) - (x % p)) % p
                             IN  x + below * ((delta * inverses[n - 1]) % p)
Garner(r) == LET x == GarnerStep(r[1], r, 2, LiftPrimes[1])
             IN  IF Len(r) = 2 THEN x ELSE GarnerStep(x, r, 3, Modulus2)

SignedModQ(x, product) == (IF x > product \div 2 THEN x - product ELSE x) % Q
reconstruct(r) == SignedModQ(Garner(r), ModulusOf(Len(r)))

(* The difference of two canonical residues is corrected once, as p0 < p1. *)
reconstruct_two(r0, r1) ==
    LET wide == (r1 + LiftPrimes[2]) - r0
        delta == IF wide >= LiftPrimes[2] THEN wide - LiftPrimes[2] ELSE wide
    IN  SignedModQ(r0 + LiftPrimes[1] * ((delta * inverses[1]) % LiftPrimes[2]), Modulus2)

(* LiftContext::new accepts a degree and modulus when this holds. *)
new_lift == Modulus3 > D * Q * Q
ASSUME LiftAssumption == new_lift /\ LiftPrimes[1] < LiftPrimes[2]

-----------------------------------------------------------------------------
(* Operands: for each limb, its transform modulo each prime kept.             *)

Transform(poly, j) == to_ntt([i \in Index |-> centered(poly[i]) % LiftPrimes[j]], j)
Transforms(poly, count) == [j \in 1..count |-> Transform(poly, j)]

(* Mutation: room for the magnitude, none for the sign. *)
Need_unsigned(maxima, other) == D * maxima * other
(* Twice the largest magnitude of a coefficient of the sum. *)
Need(maxima, other) == 2 * D * maxima * other
FitsTwo(need) == need < Modulus2

SumMax(a) == FoldFunction(LAMBDA p, x : max_abs(p) + x, 0, a)

prepare_public(a) ==
    IF a = <<>> \/ \E l \in DOMAIN a : ~validate(a[l]) THEN <<>>
    ELSE [transforms |-> [l \in DOMAIN a |->
             Transforms(a[l], IF FitsTwo(Need(max_abs(a[l]), Q \div 2)) THEN 2 ELSE 3)],
          sum_fits_two |-> FitsTwo(Need(SumMax(a), Q \div 2))]

prepare_public_dot(a, right_bound) ==
    LET need == Need(SumMax(a), right_bound)
        count == IF FitsTwo(need) THEN 2 ELSE 3
    IN  IF a = <<>> \/ right_bound > Q \div 2 \/ (\E l \in DOMAIN a : ~validate(a[l])) \/ need >= Modulus3
        THEN <<>>
        ELSE [transforms |-> [l \in DOMAIN a |-> Transforms(a[l], count)], right_bound |-> right_bound]

prepare_decode_masks(masks, support) ==
    LET dot == prepare_public_dot(masks, support)
    IN  IF dot = <<>> \/ Len(dot.transforms[1]) # 2 THEN <<>>
        ELSE [transforms |-> dot.transforms, sum_fits_two |-> TRUE]

prepare_right_primes(b, count) ==
    IF b = <<>> \/ \E l \in DOMAIN b : ~validate(b[l]) THEN <<>>
    ELSE [transforms |-> [l \in DOMAIN b |-> Transforms(b[l], count)]]
prepare_right(b) == prepare_right_primes(b, 3)
prepare_bounded_right(b, left_bound) ==
    IF left_bound > Q \div 2 THEN <<>>
    ELSE prepare_right_primes(b, IF FitsTwo(Need(left_bound, Q \div 2)) THEN 2 ELSE 3)

(* Complementing the bits of an index complements those of its reversal, so   *)
(* the slots of tau_-1 are those of the secret backwards.                     *)
prepare_decode_secret(secret, conjugate) ==
    LET own == Transforms(secret, 2)
        other == [j \in 1..2 |-> [s \in Index |-> own[j][(D - 1) - s]]]
    IN  [transforms |-> IF conjugate THEN <<own, other>> ELSE <<own>>]

-----------------------------------------------------------------------------
(* Products *)

AddPolys(polys) == [i \in Index |-> FoldFunction(LAMBDA p, x : (p[i] + x) % Q, 0, polys)]
Residues(u, v) == [j \in DOMAIN u |-> from_ntt(MultiplySlots(u[j], v[j], j), j)]
ReconstructPoly(res) == [i \in Index |-> reconstruct([j \in DOMAIN res |-> res[j][i]])]
AccumulateSlots(us, vs, j) == [s \in Index |->
    FoldFunction(LAMBDA prod, x : (prod[s] + x) % LiftPrimes[j], 0,
                 [l \in DOMAIN us |-> MultiplySlots(us[l][j], vs[l][j], j)])]

multiply(a, b) == ReconstructPoly(Residues(Transforms(a, 3), Transforms(b, 3)))
sum(a, b) == IF a = <<>> \/ Len(a) # Len(b) THEN <<>>
             ELSE AddPolys([l \in DOMAIN a |-> multiply(a[l], b[l])])

sum_cached_two(a, b) ==
    LET res == [j \in 1..2 |-> from_ntt(AccumulateSlots(a.transforms, b.transforms, j), j)]
    IN  [i \in Index |-> reconstruct_two(res[1][i], res[2][i])]

sum_cached(a, b) ==
    LET n == Len(a.transforms)
    IN  IF n # Len(b.transforms) \/ \E l \in 1..n : Len(a.transforms[l]) > Len(b.transforms[l]) THEN <<>>
        ELSE IF a.sum_fits_two THEN sum_cached_two(a, b)
        ELSE AddPolys([l \in 1..n |-> ReconstructPoly(Residues(a.transforms[l], b.transforms[l]))])

sum_prepared(a, b) ==
    IF Len(a.transforms) # Len(b) \/ \E l \in DOMAIN b : ~validate(b[l]) THEN <<>>
    ELSE AddPolys([l \in DOMAIN b |->
            ReconstructPoly(Residues(a.transforms[l], Transforms(b[l], Len(a.transforms[l]))))])

public_dot(a, b) ==
    LET count == Len(a.transforms[1])
        rights == [l \in DOMAIN b |-> Transforms(b[l], count)]
        res == [j \in 1..count |-> from_ntt(AccumulateSlots(a.transforms, rights, j), j)]
    IN  IF Len(a.transforms) # Len(b) \/ \E l \in DOMAIN b : ~validate(b[l]) \/ max_abs(b[l]) > a.right_bound
        THEN <<>>
        ELSE IF count = 2 THEN [i \in Index |-> reconstruct_two(res[1][i], res[2][i])]
        ELSE ReconstructPoly(res)

-----------------------------------------------------------------------------
(* One context, its operands prepared in either order *)

LiftInit == lift \in LiftTasks /\ left = <<>> /\ right = <<>> /\ lifted = <<>>

PrepareLeft ==
    /\ lift # <<>> /\ left = <<>> /\ lift.how # "sum"
    /\ left' = CASE lift.how = "dot" -> prepare_public_dot(lift.a, lift.bound)
                 [] lift.how = "decode" -> prepare_decode_masks(lift.a, lift.bound)
                 [] OTHER -> prepare_public(lift.a)
    /\ left' # <<>>
    /\ UNCHANGED <<lift, right, lifted>>

PrepareRight ==
    /\ lift # <<>> /\ right = <<>> /\ lift.how \in {"cached", "bounded", "decode"}
    /\ right' = CASE lift.how = "cached" -> prepare_right(lift.b)
                  [] lift.how = "bounded" -> prepare_bounded_right(lift.b, lift.bound)
                  [] OTHER -> prepare_decode_secret(lift.b[1], Len(lift.a) = 2)
    /\ right' # <<>>
    /\ UNCHANGED <<lift, left, lifted>>

Product ==
    /\ lift # <<>> /\ lifted = <<>>
    /\ \/ lift.how = "sum" /\ lifted' = sum(lift.a, lift.b)
       \/ lift.how = "prepared" /\ left # <<>> /\ lifted' = sum_prepared(left, lift.b)
       \/ lift.how = "dot" /\ left # <<>> /\ lifted' = public_dot(left, lift.b)
       \/ left # <<>> /\ right # <<>> /\ lifted' = sum_cached(left, right)
    /\ lifted' # <<>>
    /\ UNCHANGED <<lift, left, right>>

LiftNext == PrepareLeft \/ PrepareRight \/ Product

(* A product that is returned is the sum of the negacyclic products modulo Q, *)
(* whichever path computed it and however many primes it kept                 *)
(* (lift_ntt.rs:218, 316, 479, 583).                                          *)
LiftExact == lifted # <<>> =>
    lifted = AddPolys([l \in DOMAIN lift.a |-> schoolbook_negacyclic(lift.a[l],
        IF lift.how = "decode" /\ l = 2 THEN tau_coeffs(lift.b[1], h) ELSE lift.b[l])])
=============================================================================
