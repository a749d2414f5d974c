------------------------------ MODULE Prepared ------------------------------
(***************************************************************************)
(* inspiring/src/prepared.rs and prepared/mapped.rs: the preprocessed      *)
(* blocks and the public key images as a file of words, its reader, and    *)
(* packing from the mapped file.  All shapes come from the parameters, so  *)
(* every part of a file has its place; the magic counts as one word.       *)
(***************************************************************************)
EXTENDS Packing

Images == Half - 1       \* images of K_g in each half

PolyWords(p) == [i \in 1..D |-> p[i - 1]]
RowWords(row) == FlattenSeq([k \in 1..ell |-> PolyWords(row[k - 1])])

(* One CRT modulus. *)
header(count) == <<"INSP-PREP-v1", D, Q, P, ell, bits_per, 1, count, Q>>
BlockWords == D * (1 + (Steps * ell))
encoded_len(count) == Len(header(count)) + (count * BlockWords) + (D * Steps * ell) + ((D - 2) * (D + 1))

TableWords(side, j) ==
    <<IF side = "left" THEN tau_g_pow(j) ELSE (tau_g_pow(j) * h) % (2 * D)>> \o PolyWords(Tables(side)[j])
Both(f(_, _)) == FlattenSeq([j \in 1..Images |-> f("left", j - 1)]) \o FlattenSeq([j \in 1..Images |-> f("right", j - 1)])

write(blocks) ==
    header(Len(blocks)) \o
    FlattenSeq([b \in DOMAIN blocks |->
        PolyWords(blocks[b].a_final) \o FlattenSeq([n \in 1..Steps |-> RowWords(blocks[b].digits[n])])]) \o
    Both(LAMBDA side, j : RowWords(kg_top(side, j))) \o RowWords(kh_top) \o Both(TableWords)

-----------------------------------------------------------------------------
PolyAt(file, at) == [i \in Index |-> file[at + i + 1]]
RowAt(file, at) == [k \in Columns |-> PolyAt(file, at + (k * D))]

PolysEnd(count) == Len(header(count)) + (count * BlockWords) + (D * Steps * ell)
TableAt(count, n) == PolysEnd(count) + (n * (D + 1))

validate_permutation(table) == {table[i] : i \in Index} = Index

Accepts(file, count) ==
    /\ Len(file) = encoded_len(count)
    /\ SubSeq(file, 1, Len(header(count))) = header(count)
    /\ \A n \in (Len(header(count)) + 1)..PolysEnd(count) : file[n] < Q
    /\ \A n \in 0..(2 * Images - 1) :
        /\ file[TableAt(count, n) + 1] < 2 * D /\ file[TableAt(count, n) + 1] % 2 = 1
        /\ validate_permutation(PolyAt(file, TableAt(count, n) + 1))

BlockAt(file, count, b) ==
    LET at == Len(header(count)) + ((b - 1) * BlockWords)
    IN  [a_final |-> PolyAt(file, at), digits |-> [n \in 1..Steps |-> RowAt(file, at + D + ((n - 1) * D * ell))]]
TopAt(file, count, n) == RowAt(file, Len(header(count)) + (count * BlockWords) + (n * D * ell))
TablesAt(file, count, from) == [j \in 1..Images |-> PolyAt(file, TableAt(count, from + j - 1) + 1)]

(* Both readers return <<>> where they fail.  read copies everything. *)
read(file, count) ==
    IF ~Accepts(file, count) THEN <<>>
    ELSE [pre |-> [b \in 1..count |-> BlockAt(file, count, b)],
          top |-> [n \in 0..(Steps - 1) |-> TopAt(file, count, n)],
          left |-> TablesAt(file, count, 0), right |-> TablesAt(file, count, Images)]

(* MappedPrepared::new keeps places in the file and has only the fused path. *)
new_mapped(file, count) ==
    IF ~fused_accumulator_fits \/ ~Accepts(file, count) THEN <<>>
    ELSE [map |-> file, count |-> count,
          left |-> TablesAt(file, count, 0), right |-> TablesAt(file, count, Images)]

(* The tables of each half backwards, then K_h. *)
pack_mapped_block(m, b, scalars, key) ==
    LET block == BlockAt(m.map, m.count, b)
        table == Reverse(m.left) \o Reverse(m.right)
        image(n) == IF n = Steps THEN key.kh ELSE apply_tau_row(key.kg, table[n])
        term(n, i) == SumOf([k \in Columns |-> image(n)[k][i] * block.digits[n][k][i]], 0, ell)
    IN  [c1 |-> block.a_final,
         c2 |-> add(ntt(scalars), [i \in Index |-> SumMod(LAMBDA n : term(n, i), 1, Steps + 1)])]

(* MappedPrepared::pack: every block with its scalars, or <<>> where a scalar *)
(* or a value of a key body is no residue.                                    *)
Canonical(poly) == \A i \in Index : poly[i] < Q
pack_mapped(m, intermediate, key) ==
    IF /\ Len(intermediate) = m.count /\ \A b \in 1..m.count : Canonical(intermediate[b])
       /\ \A k \in Columns : Canonical(key.kg[k]) /\ Canonical(key.kh[k])
    THEN [b \in 1..m.count |-> pack_mapped_block(m, b, intermediate[b], key)] ELSE <<>>

-----------------------------------------------------------------------------
(* Files that are not this block's: of another length, with another header, a *)
(* residue that is not canonical, or a table that is no permutation.          *)
Spoiled(file) ==
    LET first == Len(header(1)) + 1
        table == TableAt(1, 0) + 1
    IN  {SubSeq(file, 1, Len(file) - 1), file \o <<0>>,
         [file EXCEPT ![3] = @ + 2], [file EXCEPT ![8] = @ + 1],
         [file EXCEPT ![first] = Q], [file EXCEPT ![PolysEnd(1)] = Q],
         [file EXCEPT ![table + 1] = file[table + 2]], [file EXCEPT ![table] = @ + 1]}

(* What was built comes back from a file of two blocks, with the images of    *)
(* the fixed masks and the tables; a spoiled file gives nothing.              *)
FileKeepsBlocks ==
    LET images(side) == [j \in 1..Images |-> kg_top(side, j - 1)]
        tops == images("left") \o images("right") \o <<kh_top>>
    IN  /\ read(write(<<pre, pre>>), 2) =
             [pre |-> <<pre, pre>>, top |-> [n \in 0..(Steps - 1) |-> tops[n + 1]],
              left |-> [j \in 1..Images |-> LeftTables[j - 1]], right |-> [j \in 1..Images |-> RightTables[j - 1]]]
        /\ \A file \in Spoiled(write(<<pre>>)) : read(file, 1) = <<>> /\ new_mapped(file, 1) = <<>>
=============================================================================
