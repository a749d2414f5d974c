------------------------------ MODULE Rounding ------------------------------
(***************************************************************************)
(* Rounding of single coefficients: rescaling in                           *)
(* ipir-sp/src/modulus_switch.rs, the query precision of                   *)
(* ipir-sp/src/client.rs, and ipir-native-client/src/wire.rs.              *)
(***************************************************************************)
EXTENDS Integers

(* The division of Rust rounds towards zero. *)
Quotient(a, b) == IF a >= 0 THEN a \div b ELSE -((-a) \div b)

rescale(value, q_in, q_out) ==
    LET residue == value % q_in
        centered == IF residue >= q_in \div 2 THEN residue - q_in ELSE residue
        sign == IF centered >= 0 THEN 1 ELSE -1
    IN  Quotient(centered * q_out + sign * (q_in \div 2), q_in) % q_out

(* The bits of modulus - 1, for a modulus above one. *)
modulus_bits(modulus) == CHOOSE k \in 1..modulus : (modulus - 1) \div 2^(k - 1) = 1

query_coeff_down(coeff, q, bits) ==
    IF bits >= modulus_bits(q) THEN coeff
    ELSE ((coeff * 2^bits + (q \div 2)) \div q) % 2^bits

query_coeff_up(coeff, q, bits) ==
    IF bits >= modulus_bits(q) THEN coeff
    ELSE LET lifted == (coeff * q + 2^(bits - 1)) \div 2^bits
         IN  IF lifted >= q THEN lifted - q ELSE lifted

-----------------------------------------------------------------------------
(* The native client's rounding, q a power of two.  A dithered value rounds   *)
(* up when a uniform draw is below what it drops.                             *)

Shift(q, bits) == modulus_bits(q) - bits

down(x, q, bits) ==
    LET shift == Shift(q, bits)
    IN  IF shift = 0 THEN x ELSE ((x + 2^(shift - 1)) \div 2^shift) % 2^bits

(* Mutation: the comparison is not strict. *)
down_dithered_biased(x, q, bits, draw) ==
    LET low == 2^Shift(q, bits)
    IN  ((x \div low) + (IF draw % low <= x % low THEN 1 ELSE 0)) % 2^bits

down_dithered(x, q, bits, draw) ==
    LET low == 2^Shift(q, bits)
    IN  ((x \div low) + (IF draw % low < x % low THEN 1 ELSE 0)) % 2^bits

up(x, q, bits) == x * 2^Shift(q, bits)
=============================================================================
