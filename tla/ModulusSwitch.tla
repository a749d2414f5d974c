--------------------------- MODULE ModulusSwitch ----------------------------
(***************************************************************************)
(* ipir-sp/src/modulus_switch.rs and the query codec of                    *)
(* ipir-sp/src/client.rs: coefficients rounded to a smaller modulus,       *)
(* packed, and lifted back.                                                *)
(***************************************************************************)
EXTENDS Bits, Rounding

Apply(op(_), words) == [i \in DOMAIN words |-> op(words[i])]

-----------------------------------------------------------------------------
(* Queries *)

to_switched_bytes(first_dim, q, bits) ==
    u64s_to_contiguous_bytes(Apply(LAMBDA c : query_coeff_down(c, q, bits), first_dim), bits)

from_switched_bytes(data, coeff_count, q, bits) ==
    IF Len(data) # packed_len(coeff_count, bits) THEN Refused
    ELSE Apply(LAMBDA c : query_coeff_up(c, q, bits),
               truncate(contiguous_bytes_to_u64s(data, bits), coeff_count))

to_packed_bytes(first_dim, q) == u64s_to_contiguous_bytes(first_dim, modulus_bits(q))

from_packed_bytes(data, coeff_count, q) ==
    LET coeffs == contiguous_bytes_to_u64s(data, modulus_bits(q))
    IN  IF Len(data) # packed_len(coeff_count, modulus_bits(q)) \/ Len(coeffs) # coeff_count
        THEN Refused ELSE coeffs

-----------------------------------------------------------------------------
(* Responses: only c2, or, in YPIR's layout, c1 at q_prime_2 and then c2 at   *)
(* q_prime_1 in one bit string.                                               *)

switch_coeffs_single_crt(coeffs, q_in, q_out) ==
    u64s_to_contiguous_bytes(Apply(LAMBDA c : rescale(c, q_in, q_out), coeffs), modulus_bits(q_out))

recover_coeffs_single_crt(data, coeff_count, q_in, q_out) ==
    LET bits == modulus_bits(q_in)
    IN  IF Len(data) # packed_len(coeff_count, bits) THEN Refused
        ELSE [i \in 1..coeff_count |-> rescale(read_bits(data, (i - 1) * bits, bits), q_in, q_out)]

switched_rlwe_response_len(degree, q_prime_1, q_prime_2) ==
    CeilDiv(degree * (modulus_bits(q_prime_2) + modulus_bits(q_prime_1)), 8)

switch_rlwe_rows(row_0, row_1, q_in, q_prime_1, q_prime_2) ==
    LET empty == [b \in 1..switched_rlwe_response_len(Len(row_0), q_prime_1, q_prime_2) |-> 0]
        first == FoldLeftDomain(LAMBDA out, i :
                     write_bits(out, rescale(row_0[i], q_in, q_prime_2),
                                (i - 1) * modulus_bits(q_prime_2), modulus_bits(q_prime_2)), empty, row_0)
    IN  FoldLeftDomain(LAMBDA out, i :
            write_bits(out, rescale(row_1[i], q_in, q_prime_1),
                       Len(row_0) * modulus_bits(q_prime_2) + (i - 1) * modulus_bits(q_prime_1),
                       modulus_bits(q_prime_1)), first, row_1)

recover_rlwe_rows(data, degree, q_prime_1, q_prime_2, q_out) ==
    IF Len(data) # switched_rlwe_response_len(degree, q_prime_1, q_prime_2) THEN Refused
    ELSE LET bits_0 == modulus_bits(q_prime_2)
             bits_1 == modulus_bits(q_prime_1)
         IN  <<[i \in 1..degree |-> rescale(read_bits(data, (i - 1) * bits_0, bits_0), q_prime_2, q_out)],
               [i \in 1..degree |-> rescale(read_bits(data, degree * bits_0 + (i - 1) * bits_1, bits_1),
                                            q_prime_1, q_out)]>>

response_body_len(degree, q_prime_1) == packed_len(degree, modulus_bits(q_prime_1))
serialize_rlwe_response_body(c2, q_in, q_prime_1) ==
    u64s_to_contiguous_bytes(Apply(LAMBDA c : rescale(c, q_in, q_prime_1), c2), modulus_bits(q_prime_1))
recover_response_body(data, degree, q_prime_1, q_out) ==
    Apply(LAMBDA c : rescale(c, q_prime_1, q_out),
          truncate(contiguous_bytes_to_u64s(data, modulus_bits(q_prime_1)), degree))
=============================================================================
