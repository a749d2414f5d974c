------------------------------ MODULE RlweRing ------------------------------
(***************************************************************************)
(* inspiring/src/{params,automorph,key_switching}.rs: arithmetic of the    *)
(* ring Z_Q[X]/(X^D + 1) as packing uses it.                               *)
(*                                                                         *)
(* A polynomial is the function of its coefficients; in NTT form it is the *)
(* function of its values at the odd powers of Psi, so that the ring       *)
(* product is pointwise.  ntt and from_ntt belong to spiral-rs, whose      *)
(* order of the NTT slots is a matter of its own: nothing below uses the   *)
(* order but ntt and from_ntt.                                             *)
(***************************************************************************)
EXTENDS Negacyclic

CONSTANTS
    P,               \* plaintext modulus
    bits_per, ell,   \* the gadget
    Psi,             \* a primitive root of unity of order 2*D
    Probes           \* pairs of polynomials, one per attempt of ntt_automorph_table

Columns == 0..(ell - 1)
z == 2^bits_per
delta == Q \div P

(* What RlweParams::new accepts. *)
valid_params ==
    /\ D >= 2 /\ \E k \in 1..D : D = 2^k
    /\ Q >= 3 /\ Q % 2 = 1
    /\ P >= 2 /\ P <= Q
    /\ bits_per >= 1 /\ ell >= 1
    /\ z^ell >= Q
    /\ \E x \in Coeff : (D * x) % Q = 1

mod_inverse(a) == CHOOSE x \in Coeff : (a * x) % Q = 1
d_inv == mod_inverse(D)

PsiPower ==
    LET p[e \in 0..(2 * D - 1)] == IF e = 0 THEN 1 ELSE (p[e - 1] * Psi) % Q
    IN  [e \in 0..(2 * D - 1) |-> p[e]]

ASSUME RingConstants ==
    /\ {D, Q, P, bits_per, ell} \subseteq Nat /\ Psi \in Coeff
    /\ valid_params
    /\ PsiPower[D] = Q - 1
    /\ \A n \in DOMAIN Probes : Probes[n] \in Seq([Index -> Coeff]) /\ Len(Probes[n]) = 2

mul(u, v) == [i \in Index |-> (u[i] * v[i]) % Q]

ntt(p) == [i \in Index |->
    SumMod(LAMBDA k : (p[k] * PsiPower[((2 * i + 1) * k) % (2 * D)]) % Q, 0, D)]
from_ntt(v) == [k \in Index |->
    (d_inv * SumMod(LAMBDA i : (v[i] * PsiPower[(-((2 * i + 1) * k)) % (2 * D)]) % Q, 0, D)) % Q]

(* [1 x ell] times [ell x 1], in NTT form. *)
multiply(row, digits) == [i \in Index |->
    SumMod(LAMBDA k : (row[k][i] * digits[k][i]) % Q, 0, ell)]

-----------------------------------------------------------------------------
(* Permutations of the NTT slots *)

Collides(pair) == \E i, j \in Index :
    i # j /\ ntt(pair[1])[i] = ntt(pair[1])[j] /\ ntt(pair[2])[i] = ntt(pair[2])[j]

match_probe_slots(pair, t) ==
    LET a == ntt(pair[1])
        b == ntt(pair[2])
        auto_a == ntt(tau_raw(pair[1], t))
        auto_b == ntt(tau_raw(pair[2], t))
    IN  [i \in Index |-> CHOOSE src \in Index : a[src] = auto_a[i] /\ b[src] = auto_b[i]]

ntt_automorph_table(t) ==
    LET attempt == CHOOSE n \in DOMAIN Probes :
            /\ ~Collides(Probes[n])
            /\ \A m \in 1..(n - 1) : Collides(Probes[m])
    IN  match_probe_slots(Probes[attempt], t)

compose_tables(first, second) == [i \in Index |-> first[second[i]]]

(* tau_g_power_tables: left[i] is the table of tau_g^i, right[i] that of      *)
(* tau_g^i after tau_h.                                                       *)
g_table == ntt_automorph_table(G % (2 * D))
h_table == ntt_automorph_table(h)
LeftTables ==
    LET t[i \in 0..(D \div 2 - 1)] == IF i = 0 THEN [k \in Index |-> k] ELSE compose_tables(t[i - 1], g_table)
    IN  [i \in 0..(D \div 2 - 1) |-> t[i]]
RightTables == [i \in 0..(D \div 2 - 1) |-> compose_tables(LeftTables[i], h_table)]

(* match_probe_slots finds the source of every slot, or gives up. *)
ASSUME TablesFound == {g_table, h_table} \subseteq [Index -> Index]

apply_tau_ntt(v, table) == [i \in Index |-> v[table[i]]]
apply_tau_row(row, table) == [k \in Columns |-> apply_tau_ntt(row[k], table)]

-----------------------------------------------------------------------------
(* Key switching *)

(* Mutation: the top digit is cut to bits_per bits. *)
digits_of_masked(x) ==
    LET carry(y) == IF y % z >= z \div 2 THEN 1 ELSE 0
        rest[k \in Columns] == IF k = 0 THEN x ELSE (rest[k - 1] \div z) + carry(rest[k - 1])
    IN  [k \in Columns |-> IF k = ell - 1 THEN rest[k] % z
                           ELSE ((rest[k] % z) - (z * carry(rest[k]))) % Q]

(* Balanced digits of one coefficient: a low part of z/2 or more counts as    *)
(* negative and carries one.  The top digit keeps the whole quotient left.    *)
digits_of(x) ==
    LET carry(y) == IF y % z >= z \div 2 THEN 1 ELSE 0
        rest[k \in Columns] == IF k = 0 THEN x ELSE (rest[k - 1] \div z) + carry(rest[k - 1])
    IN  [k \in Columns |-> IF k = ell - 1 THEN rest[k] % Q
                           ELSE ((rest[k] % z) - (z * carry(rest[k]))) % Q]

signed_gadget_invert(p) ==
    LET digits == [i \in Index |-> digits_of(p[i])]
    IN  [k \in Columns |-> [i \in Index |-> digits[i][k]]]

ks_digits_ntt_from_c1(c1) ==
    LET raw == signed_gadget_invert(from_ntt(c1)) IN [k \in Columns |-> ntt(raw[k])]

(* Keys are [top, body] pairs of rows. *)
ks_switch(key, c1, c2) ==
    LET digits == ks_digits_ntt_from_c1(c1)
    IN  <<multiply(key.top, digits), add(multiply(key.body, digits), c2)>>

automorphic_image(key, table) ==
    [top |-> apply_tau_row(key.top, table), body |-> apply_tau_row(key.body, table)]
=============================================================================
