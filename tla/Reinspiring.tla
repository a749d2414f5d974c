---------------------------- MODULE Reinspiring -----------------------------
(***************************************************************************)
(* reinspiring/src/{compile,matrix,preprocess,pack}.rs for an odd modulus: *)
(* the K_g part of a block's digits is compiled, once, into a matrix H';   *)
(* packing a request is then c2 = H'*y + t''*y' + b, y and y' being the    *)
(* coefficients of its key bodies.                                         *)
(*                                                                         *)
(* compile_fast evaluates the generating polynomial of the digits at the   *)
(* powers of X^2 with a ring FFT whose twiddles are rotations; one action  *)
(* is one layer of butterflies of every gadget limb.                       *)
(***************************************************************************)
EXTENDS Prepared

VARIABLES
    fft,       \* the ring FFT under way: the arrays a of the limbs, the length len
    compiled,  \* ReinspiringPreprocessed: h_prime and t_double_prime
    partial    \* H'*y of each request

revars == <<fft, compiled, partial>>

(* Coefficient form of one recorded step, and of a key body. *)
digit_limbs_coeff(n) == [k \in Columns |-> from_ntt(pre.digits[n][k])]
body_limbs_coeff(body) == [k \in Columns |-> from_ntt(body[k])]

-----------------------------------------------------------------------------
(* Compile *)

StartCompile ==
    /\ stage = "bind" /\ compiled = <<>> /\ fft = <<>>
    /\ fft' = [a |-> [k \in Columns |-> FftInput([n \in KgSteps |-> digit_limbs_coeff(n)[k]])], len |-> 2]
    /\ UNCHANGED <<vars, compiled, partial>>

RingFft ==
    /\ fft # <<>> /\ fft.len <= D
    /\ fft' = [a |-> [k \in Columns |-> ring_fft_layer(fft.a[k], fft.len)], len |-> 2 * fft.len]
    /\ UNCHANGED <<vars, compiled, partial>>

(* hstack puts the limbs side by side. *)
FinishCompile ==
    /\ fft # <<>> /\ fft.len > D
    /\ compiled' = [h_prime |-> [k \in Columns |-> FftColumns(fft.a[k])],
                    t_double_prime |-> digit_limbs_coeff(Steps)]
    /\ fft' = <<>>
    /\ UNCHANGED <<vars, partial>>

-----------------------------------------------------------------------------
(* Packing with the matrix *)

matvec(matrix, y) == [r \in Index |->
    SumMod(LAMBDA k : SumMod(LAMBDA j : (matrix[k][r][j] * y[k][j]) % Q, 0, D), 0, ell)]

MultiplyMatrix ==
    /\ stage = "bind" /\ compiled # <<>> /\ partial = <<>>
    /\ partial' = [r \in DOMAIN batch |-> matvec(compiled.h_prime, body_limbs_coeff(batch[r].kg))]
    /\ UNCHANGED <<vars, fft, compiled>>

leftover(y) == [i \in Index |->
    SumMod(LAMBDA k : schoolbook_negacyclic(compiled.t_double_prime[k], y[k])[i], 0, ell)]

reinspiring_pack ==
    /\ stage = "bind" /\ partial # <<>>
    /\ out' = [r \in DOMAIN batch |->
           ntt(add(add(partial[r], leftover(body_limbs_coeff(batch[r].kh))), batch[r].b))]
    /\ keys' = [r \in DOMAIN batch |-> [kg |-> batch[r].kg, kh |-> batch[r].kh]]
    /\ stage' = "done" /\ partial' = <<>>
    /\ UNCHANGED <<crs, batch, width, slots, digits, pre, tasks, pool, cascade, fft, compiled>>

ReNext == StartCompile \/ RingFft \/ FinishCompile \/ MultiplyMatrix \/ reinspiring_pack

-----------------------------------------------------------------------------
(* The ring FFT gives the matrix of the naive compilation: the sum over the   *)
(* recorded switches of Neg(t) times the signed permutation of its            *)
(* automorphism (compile.rs, "computes the same matrix as                     *)
(* compile_naive_fused").                                                     *)
CompileExact == compiled # <<>> /\ stage = "bind" /\ batch = <<>> =>
    \A k \in Columns : compiled.h_prime[k] = compile_naive([n \in KgSteps |-> digit_limbs_coeff(n)[k]])

(* Whatever produced a ciphertext, the fused sums of parallel tasks, the      *)
(* stepwise fallback or ReinspiRING's matrix, it is bit for bit the one of    *)
(* the recorded cascade run one key switch at a time, and, where the complete *)
(* keys were bound to the block, the one pack gives: pack_backend.rs calls    *)
(* the backends byte-equal.  So does a server that maps its blocks from a     *)
(* file, which keeps them exactly and is refused once spoiled, and which      *)
(* refuses scalars and keys that are no residues instead of packing them.     *)
BackendsAgree ==
    /\ PathsAgree
    /\ stage = "done" /\ fused_accumulator_fits =>
        LET m == new_mapped(write(<<pre, pre>>), 2)
        IN  \A r \in DOMAIN batch :
              LET b == batch[r].b
                  one == [c1 |-> pre.a_final, c2 |-> out[r]]
              IN  /\ pack_mapped(m, <<b, b>>, keys[r]) = <<one, one>>
                  /\ pack_mapped(m, <<b, [b EXCEPT ![D - 1] = @ + Q]>>, keys[r]) = <<>>
                  /\ pack_mapped(m, <<b, b>>, [keys[r] EXCEPT !.kg[ell - 1][0] = @ + Q]) = <<>>
                  /\ pack_mapped(m, <<b, b>>, [keys[r] EXCEPT !.kh[0][D - 1] = @ + Q]) = <<>>
    /\ stage = "bind" => FileKeepsBlocks
    /\ stage = "bound" => [c1 |-> pre.a_final, c2 |-> out[cascade.for]] = pack(cascade.for)
=============================================================================
