-------------------------------- MODULE Bits --------------------------------
(***************************************************************************)
(* ipir-native-client/src/{bits,wire}.rs: integers packed at a fixed width *)
(* into bytes, least significant bit first.                                *)
(***************************************************************************)
EXTENDS Integers, Sequences, SequencesExt, Bitwise

Byte == 0..255
Smaller(x, y) == IF x <= y THEN x ELSE y
CeilDiv(x, y) == (x + y - 1) \div y

(* One turn of each loop handles the bits of one byte. *)
RECURSIVE write_bits(_, _, _, _)
write_bits(data, val, bit_offs, num_bits) ==
    IF num_bits = 0 \/ bit_offs \div 8 >= Len(data) THEN data
    ELSE LET bit_index == bit_offs % 8
             bits_to_write == Smaller(8 - bit_index, num_bits)
             bits == (val % 2^bits_to_write) * 2^bit_index
         IN  write_bits([data EXCEPT ![(bit_offs \div 8) + 1] = @ | bits],
                        val \div 2^bits_to_write, bit_offs + bits_to_write, num_bits - bits_to_write)

RECURSIVE read_bits(_, _, _)
read_bits(data, bit_offs, num_bits) ==
    IF num_bits = 0 \/ bit_offs \div 8 >= Len(data) THEN 0
    ELSE LET bit_pos == bit_offs % 8
             can_take == Smaller(8 - bit_pos, num_bits)
             value == (data[(bit_offs \div 8) + 1] \div 2^bit_pos) % 2^can_take
         IN  value + (2^can_take * read_bits(data, bit_offs + can_take, num_bits - can_take))

packed_len(n, bits) == CeilDiv(n * bits, 8)

u64s_to_contiguous_bytes(words, bits) ==
    FoldLeftDomain(LAMBDA out, i : write_bits(out, words[i], (i - 1) * bits, bits),
                   [b \in 1..packed_len(Len(words), bits) |-> 0], words)

contiguous_bytes_to_u64s(data, bits) ==
    [i \in 1..((Len(data) * 8) \div bits) |-> read_bits(data, (i - 1) * bits, bits)]

truncate(words, n) == SubSeq(words, 1, Smaller(n, Len(words)))

-----------------------------------------------------------------------------
(* wire.rs.  What cannot be decoded is Refused; every message has words. *)

Refused == <<>>

encode(words, bits) == u64s_to_contiguous_bytes(words, bits)

(* Mutation: surplus words are not dropped before the padding is checked. *)
decode_surplus(bytes, n, bits) ==
    LET words == contiguous_bytes_to_u64s(bytes, bits)
    IN  IF Len(bytes) # packed_len(n, bits) \/ encode(words, bits) # bytes THEN Refused ELSE words

(* Mutation: the padding is not checked. *)
decode_lenient(bytes, n, bits) ==
    IF Len(bytes) # packed_len(n, bits) THEN Refused
    ELSE truncate(contiguous_bytes_to_u64s(bytes, bits), n)

decode(bytes, n, bits) ==
    LET words == truncate(contiguous_bytes_to_u64s(bytes, bits), n)
    IN  IF Len(bytes) # packed_len(n, bits) \/ encode(words, bits) # bytes THEN Refused ELSE words
=============================================================================
