---------------------------- MODULE NativeMatrix ----------------------------
(***************************************************************************)
(* reinspiring/src/native_matrix.rs and the kernels it calls: a compiled   *)
(* matrix kept as signed words, packed at one of two widths when the host  *)
(* can read them, else narrow, else wide, and multiplied tile by tile.     *)
(***************************************************************************)
EXTENDS NativeKernel

CONSTANTS
    PackBits,     \* <<lesser, greater>> packed widths (27, 28)
    NarrowBits,   \* narrow words (32)
    LimbBits,     \* limbs of a query for an odd modulus (16)
    PackByte,     \* bits of a byte of packed storage (8)
    ReadBytes,    \* bytes of an unaligned read of packed storage (8), and its padding
    GroupCols,    \* packed columns that fill whole bytes (8)
    MaxCols,      \* columns a matrix may have (32768)
    MatrixTasks   \* records [blocks, q, simd, packs, y]: compiled blocks, query, host

VARIABLES
    matrix,   \* the task
    store,    \* NativeMatrix: [bits, data], <<>> before from_blocks
    mout      \* the product by row, -1 where no tile has written it

matrixvars == <<matrix, store, mout>>

centered_mod(x, q) == IF x > q \div 2 THEN x - q ELSE x
PowerOfTwo(q) == \E k \in 0..LowWordBits : q = 2^k
RowCount(m) == Len(m.blocks[1])
JoinedRow(m, r) == FlattenSeq([n \in DOMAIN m.blocks |-> m.blocks[n][r]])
ColCount(m) == Len(JoinedRow(m, 1))
Centred(m) == {centered_mod(x, m.q) : x \in UNION {UNION {{m.blocks[n][r][c] : c \in DOMAIN m.blocks[n][r]} :
                                                   r \in DOMAIN m.blocks[n]} : n \in DOMAIN m.blocks}}

(* Mutation: the width holds the magnitude, with no bit for the sign. *)
FitsSigned_magnitude(values, bits) == \A x \in values : x >= -(2^bits) /\ x < 2^bits
FitsSigned(values, bits) == \A x \in values : x >= -(2^(bits - 1)) /\ x < 2^(bits - 1)

(* Accepted blocks have the same rows and modulus and canonical entries. *)
BlocksValid(m) ==
    /\ m.blocks # <<>> /\ m.q >= 2 /\ RowCount(m) > 0
    /\ \A n \in DOMAIN m.blocks : Len(m.blocks[n]) = RowCount(m)
    /\ \A n \in DOMAIN m.blocks : \A r \in DOMAIN m.blocks[n] : \A c \in DOMAIN m.blocks[n][r] :
        m.blocks[n][r][c] < m.q
    /\ ColCount(m) <= MaxCols

-----------------------------------------------------------------------------
(* Packed bytes: column col starts at bit col * bits, least significant first, *)
(* in rows of stride bytes, and the last row is followed by padding.           *)

Stride(cols, bits) == (cols \div GroupCols) * bits
PackedRow(values, bits) ==
    LET bit(n) == LET value == values[(n \div bits) + 1] % 2^bits
                  IN  (value \div 2^(n % bits)) % 2
    IN  [b \in 1..Stride(Len(values), bits) |->
            SumOver(LAMBDA i : bit((b - 1) * PackByte + i) * 2^i, 0, PackByte - 1)]
ReadWord(data, offset) == SumOver(LAMBDA b : data[offset + b + 1] * 2^(PackByte * b), 0, ReadBytes - 1)

(* One unaligned read, shifted down and sign-extended. *)
read_packed(data, index, bits) ==
    Signed(ReadWord(data, (index * bits) \div PackByte) \div 2^((index * bits) % PackByte), bits)

from_blocks(m) ==
    LET values == Centred(m)
        rows(f(_)) == FlattenSeq([r \in 1..RowCount(m) |-> f([c \in 1..ColCount(m) |-> centered_mod(JoinedRow(m, r)[c], m.q)])])
        packs == /\ PowerOfTwo(m.q) /\ RowCount(m) % 4 = 0 /\ m.packs
                 /\ FitsSigned(values, PackBits[2]) /\ ColCount(m) % GroupCols = 0
        bits == IF FitsSigned(values, PackBits[1]) THEN PackBits[1] ELSE PackBits[2]
    IN  IF packs
        THEN [kind |-> "packed", bits |-> bits,
              data |-> rows(LAMBDA v : PackedRow(v, bits)) \o [b \in 1..ReadBytes |-> 0]]
        ELSE [kind |-> IF FitsSigned(values, NarrowBits) THEN "narrow" ELSE "wide", bits |-> 0,
              data |-> rows(LAMBDA v : v)]

WordAt(n) == IF store.kind = "packed" THEN read_packed(store.data, n, store.bits) ELSE store.data[n + 1]

(* to_compiled reads every word back. *)
to_compiled == [n \in 0..(RowCount(matrix) * ColCount(matrix) - 1) |-> WordAt(n) % matrix.q]

-----------------------------------------------------------------------------
StoredRow(r) == [c \in 1..ColCount(matrix) |-> WordAt((r - 1) * ColCount(matrix) + c - 1)]

(* packed_rows_512: each lane of a group takes its own bytes of the group's   *)
(* load; read_packed serves the columns after the last whole vector.          *)
dot_packed_row(r) ==
    LET stride == Stride(ColCount(matrix), store.bits)
        lane(c) == LET group == (r - 1) * stride + ((c - 1) \div GroupCols) * store.bits
                       i == (c - 1) % GroupCols
                   IN  Signed(ReadWord(store.data, group + (i * store.bits) \div PackByte)
                                  \div 2^((i * store.bits) % PackByte), store.bits)
    IN  WordSum(LAMBDA c : WrapMul(lane(c), matrix.y[c]), 1, ColCount(matrix))

(* For an odd modulus the low word is not enough: narrow words take the query *)
(* by limbs, whose signed sums fit; wide words are summed exactly.            *)
multiply_odd(r) ==
    LET limb(j) == [c \in DOMAIN matrix.y |-> (matrix.y[c] \div 2^(j * LimbBits)) % 2^LimbBits]
    IN  IF store.kind = "wide"
        THEN SumOver(LAMBDA c : StoredRow(r)[c] * matrix.y[c], 1, Len(matrix.y)) % matrix.q
        ELSE SumOver(LAMBDA j : Signed(vector_dot(StoredRow(r), limb(j), matrix.simd), LowWordBits)
                                    * 2^(j * LimbBits), 0, 3) % matrix.q

RowProduct(r) ==
    IF ~PowerOfTwo(matrix.q) THEN multiply_odd(r)
    ELSE CASE store.kind = "packed" -> dot_packed_row(r) % matrix.q
           [] store.kind = "narrow" -> vector_dot(StoredRow(r), matrix.y, matrix.simd) % matrix.q
           [] OTHER -> vector_dot(StoredRow(r), matrix.y, "scalar") % matrix.q

TileRows == IF store.kind = "packed" /\ RowCount(matrix) % 8 = 0 THEN 8 ELSE 4
TilesOf == {Down(r - 1, TileRows) : r \in 1..RowCount(matrix)}

(* The sizes the packed layout relies on (groups fill whole bytes, one read    *)
(* covers a word at any shift), the limit on the columns that keeps a sum of  *)
(* limb products in a word, and tasks as from_blocks receives them: compiled  *)
(* matrices, whose rows have one length, and machine words.                   *)
ASSUME MatrixConstants ==
    /\ {PackBits[1], PackBits[2], NarrowBits, LimbBits, PackByte, ReadBytes} \subseteq Nat \ {0}
    /\ GroupCols = PackByte /\ MaxCols \in Nat
    /\ \A k \in 1..2 : PackBits[k] + PackByte - 1 <= PackByte * ReadBytes
    /\ MaxCols * (2^(NarrowBits - 1) * (2^LimbBits - 1)) < 2^(LowWordBits - 1)
    /\ \A m \in MatrixTasks :
        /\ m.q \in 0..2^(4 * LimbBits) /\ m.y \in Seq(Nat)
        /\ m.blocks \in Seq(Seq(Seq(Nat)))
        /\ \A n \in DOMAIN m.blocks : \A r \in DOMAIN m.blocks[n] : Len(m.blocks[n][r]) = Len(m.blocks[n][1])

MatrixInit == matrix \in MatrixTasks /\ store = <<>> /\ mout = <<>>

FromBlocks ==
    /\ matrix # <<>> /\ store = <<>> /\ BlocksValid(matrix)
    /\ store' = from_blocks(matrix)
    /\ mout' = [r \in 1..RowCount(matrix) |-> -1]
    /\ UNCHANGED matrix

(* Tiles of rows are multiplied in parallel, in any order. *)
MultiplyTile ==
    /\ store # <<>>
    /\ Len(matrix.y) = ColCount(matrix) /\ \A c \in DOMAIN matrix.y : matrix.y[c] < matrix.q
    /\ \E tile \in TilesOf :
        /\ mout[tile + 1] = -1
        /\ mout' = [r \in DOMAIN mout |-> IF Down(r - 1, TileRows) = tile THEN RowProduct(r) ELSE mout[r]]
    /\ UNCHANGED <<matrix, store>>

MatrixNext == FromBlocks \/ MultiplyTile
MatrixSpec == MatrixInit /\ [][MatrixNext]_matrixvars

(* Whatever width the entries were stored at, they read back unchanged and    *)
(* every row of the product is exact modulo q, for odd moduli too             *)
(* (native_matrix.rs:60, 289, 345).                                           *)
MatrixExact == store # <<>> =>
    /\ to_compiled = [n \in DOMAIN to_compiled |->
                        JoinedRow(matrix, (n \div ColCount(matrix)) + 1)[(n % ColCount(matrix)) + 1]]
    /\ \A r \in DOMAIN mout : mout[r] # -1 =>
        mout[r] = SumOver(LAMBDA c : (JoinedRow(matrix, r)[c] * matrix.y[c]) % matrix.q, 1, Len(matrix.y)) % matrix.q
=============================================================================
