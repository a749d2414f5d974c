---------------------------- MODULE NativeKernel ----------------------------
(***************************************************************************)
(* reinspiring/src/native_kernel.rs: dot products of database columns with *)
(* query words modulo a power of two.  The byte kernels split the words    *)
(* into signed digits, accumulate byte products in narrow lanes over       *)
(* chunks of rows, and shift the sums back together; the word kernels      *)
(* multiply in vectors and leave a tail to scalar code.  Widths are scaled *)
(* by constants: bytes, lanes, words, rows of a chunk, columns of a band.  *)
(***************************************************************************)
EXTENDS Integers, Sequences, FiniteSetsExt, SequencesExt, Summation

CONSTANTS
    DigitBits,   \* a byte and a query digit (8)
    LaneBits,    \* a byte kernel's accumulator (32)
    LowWordBits, \* a machine word (64), even
    ChunkRows,   \* rows between two flushes of the lanes (65536)
    BandCols,    \* columns of a tile (16)
    ByteGroup,   \* rows of one vector of u16_dot_vnni (64)
    KernelTasks  \* records [kind, simd, qbits, words, db]

VARIABLES
    kernel,      \* the task
    query,       \* PreparedU16Query, <<>> before new
    tiles,       \* the database as the kernel reads it
    row,         \* rows accumulated
    kout         \* one sum per column

kernelvars == <<kernel, query, tiles, row, kout>>

Radix == 2^DigitBits
LowWord(x) == x % 2^LowWordBits
Signed(x, bits) == ((x + 2^(bits - 1)) % 2^bits) - 2^(bits - 1)
SumOver(f(_), from, to) == SumOf([i \in from..to |-> f(i)], from, to + 1)
WordSum(f(_), from, to) == LowWord(SumOver(f, from, to))
GroupRows == 4
Down(n, step) == (n \div step) * step
LowByte(x) == x % Radix
HighByte(x) == x \div Radix
WordOf(kind) == IF kind \in {"u8", "u8_tiled"} THEN Radix ELSE Radix * Radix

-----------------------------------------------------------------------------
(* Query preparation *)

(* Digits of each word, least first; the carry out of the last is dropped. *)
byte_digits(words, limbs) ==
    LET rest(x) == LET r[j \in 1..limbs] == IF j = 1 THEN x ELSE (r[j - 1] + (Radix \div 2)) \div Radix IN r
        digits == [j \in 1..limbs |-> [i \in DOMAIN words |-> Signed(rest(words[i])[j], DigitBits)]]
        nonzero == {j \in 1..(limbs - 1) : \E i \in DOMAIN words : digits[j][i] # 0}
        skip == IF nonzero = {} THEN limbs - 1 ELSE Min(nonzero) - 1
    IN  [digits |-> SubSeq(digits, skip + 1, limbs), skip |-> skip]

new_query(words, qbits, vnni) ==
    IF vnni THEN byte_digits(words, (qbits + DigitBits - 1) \div DigitBits)
    ELSE [digits |-> <<>>, skip |-> 0]

-----------------------------------------------------------------------------
(* Tiles: four rows of every column of a band, and for wide entries first the *)
(* low bytes, then the high bytes, in pairs that make one word.  The database *)
(* is column-major; index 0 is the first entry.                               *)

Entry(db, rows, col, r) == db[(col * rows) + r + 1]

interleave_u8_columns(db, rows) == [n \in 1..Len(db) |->
    LET group == Down((n - 1) \div BandCols, GroupRows)
        lane == (n - 1) - group * BandCols
    IN  Entry(db, rows, lane \div GroupRows, group + (lane % GroupRows))]

interleave_columns(db, rows) == [n \in 1..Len(db) |->
    LET group == Down((n - 1) \div BandCols, GroupRows)
        lane == (n - 1) - group * BandCols
        plane == lane \div (2 * BandCols)
        pair == lane % (2 * BandCols)
        first == group + 2 * (pair % 2)
        byte(x) == IF plane = 0 THEN LowByte(x) ELSE HighByte(x)
    IN  byte(Entry(db, rows, pair \div 2, first)) + Radix * byte(Entry(db, rows, pair \div 2, first + 1))]

(* The bytes a kernel reads back for row r of a column, low plane and high. *)
TileByte(tile, plane, col, r) ==
    LET lane == col * GroupRows + (r % GroupRows)
        word == tile[Down(r, GroupRows) * BandCols + plane * 2 * BandCols + (lane \div 2) + 1]
    IN  IF lane % 2 = 0 THEN LowByte(word) ELSE HighByte(word)

LowAt(col, r) == CASE kernel.kind = "u8_tiled" ->
                        tiles[Down(r, GroupRows) * BandCols + col * GroupRows + (r % GroupRows) + 1]
                   [] kernel.kind = "u16_tiled" -> TileByte(tiles, 0, col, r)
                   [] OTHER -> LowByte(Entry(tiles, Len(kernel.words), col, r))
HighAt(col, r) == CASE kernel.kind = "u8_tiled" -> 0
                    [] kernel.kind = "u16_tiled" -> TileByte(tiles, 1, col, r)
                    [] OTHER -> HighByte(Entry(tiles, Len(kernel.words), col, r))

-----------------------------------------------------------------------------
(* Byte kernels: u16_dot_vnni, interleaved_vnni and interleaved_u8_vnni.      *)

(* Mutation: the lanes are flushed once, at the end. *)
ChunkEnd_whole(start, end) == end
ChunkEnd(start, end) == Min({start + ChunkRows, end})

DigitShift(j) == DigitBits * ((query.skip + j) - 1)

(* A lane wraps.  A whole column shares one sum in u16_dot_vnni, which adds   *)
(* all its lanes in one lane.                                                 *)
LaneSum(plane, col, j, from, to) ==
    LET byte(r) == IF plane = 0 THEN LowAt(col, r) ELSE HighAt(col, r)
    IN  Signed(SumOver(LAMBDA r : byte(r) * query.digits[j][r + 1], from, to), LaneBits)

Shifted(x, shift) == LowWord(LowWord(x) * 2^shift)

(* The high plane of the last digit weighs a multiple of q; the tiled kernel  *)
(* leaves it out.                                                             *)
ChunkSum(col, from, to) == WordSum(LAMBDA j :
    Shifted(LaneSum(0, col, j, from, to), DigitShift(j)) +
    (IF kernel.kind = "u8_tiled" \/ (kernel.kind = "u16_tiled" /\ j = Len(query.digits)) THEN 0
     ELSE Shifted(LaneSum(1, col, j, from, to), DigitShift(j) + DigitBits)), 1, Len(query.digits))

-----------------------------------------------------------------------------
(* Word kernels.  AVX2 has no 64-bit multiply: it takes the low halves'       *)
(* product and the two cross products, shifted.                               *)

mul64(x, y) ==
    LET s == 2^(LowWordBits \div 2)
        cross == LowWord(((x \div s) * (y % s)) + ((x % s) * (y \div s)))
    IN  LowWord(((x % s) * (y % s)) + LowWord((cross % s) * s))
WrapMul(x, y) == LowWord(LowWord(x) * LowWord(y))

VectorStep(simd) == CASE simd \in {"avx512", "vnni"} -> 8 [] simd = "avx2" -> 4 [] OTHER -> 1

(* u8_dot, u16_dot, i32_dot and their 512-bit forms: whole vectors, then the  *)
(* tail.                                                                      *)
vector_dot(a, b, simd) ==
    LET end == Down(Len(b), VectorStep(simd))
        times(x, y) == IF simd = "avx2" THEN mul64(LowWord(x), y) ELSE WrapMul(x, y)
    IN  LowWord(WordSum(LAMBDA i : times(a[i], b[i]), 1, end) +
             WordSum(LAMBDA i : WrapMul(a[i], b[i]), end + 1, Len(b)))

-----------------------------------------------------------------------------
Columns(k) == 0..((Len(k.db) \div Len(k.words)) - 1)
Tiled(k) == k.kind \in {"u8_tiled", "u16_tiled"}
(* dot_u8 has no byte kernel; a query has one digit vector at least. *)
ByteKernel == query.digits # <<>> /\ kernel.kind # "u8"
Mask(x) == x % 2^kernel.qbits

(* What new and the asserts of the entry points require (at least one row, a  *)
(* database of whole columns, tiles of BandCols of them), and the limit on    *)
(* the rows between two flushes: a lane holds their products of bytes and     *)
(* digits (65536 * 255 * 128 < 2^31).                                         *)
ASSUME KernelConstants ==
    /\ {DigitBits, LaneBits, LowWordBits, ChunkRows, BandCols, ByteGroup} \subseteq Nat \ {0}
    /\ LowWordBits % 2 = 0
    /\ ChunkRows * ((Radix - 1) * (Radix \div 2)) < 2^(LaneBits - 1)
    /\ \A k \in KernelTasks :
        /\ k.kind \in {"u8", "u16", "u8_tiled", "u16_tiled"}
        /\ k.qbits \in 1..LowWordBits
        /\ k.words \in Seq(Nat) /\ k.words # <<>>
        /\ k.db \in Seq(0..(WordOf(k.kind) - 1))
        /\ Len(k.db) % Len(k.words) = 0
        /\ Tiled(k) => Len(k.db) = BandCols * Len(k.words)

KernelInit ==
    /\ kernel \in KernelTasks /\ query = <<>> /\ tiles = <<>> /\ row = 0 /\ kout = <<>>

(* new, which refuses words that are not below q, and the offline layout of  *)
(* the database, which the tiled entry points need in groups of four rows.   *)
Prepare ==
    /\ kernel # <<>> /\ query = <<>>
    /\ \A i \in DOMAIN kernel.words : kernel.words[i] < 2^kernel.qbits
    /\ Tiled(kernel) => Len(kernel.words) % GroupRows = 0
    /\ query' = new_query(kernel.words, kernel.qbits, kernel.simd = "vnni")
    /\ tiles' = CASE kernel.kind = "u8_tiled" -> interleave_u8_columns(kernel.db, Len(kernel.words))
                  [] kernel.kind = "u16_tiled" -> interleave_columns(kernel.db, Len(kernel.words))
                  [] OTHER -> kernel.db
    /\ kout' = [col \in Columns(kernel) |-> 0]
    /\ UNCHANGED <<kernel, row>>

(* One chunk of a byte kernel; u16_dot_vnni takes whole vectors only. *)
Chunk ==
    LET rows == Len(kernel.words)
        end == IF Tiled(kernel) THEN rows ELSE Down(rows, ByteGroup)
        stop == ChunkEnd(row, end)
    IN  /\ query # <<>> /\ ByteKernel /\ row < end
        /\ kout' = [col \in DOMAIN kout |-> LowWord(kout[col] + ChunkSum(col, row, stop - 1))]
        /\ row' = stop
        /\ UNCHANGED <<kernel, query, tiles>>

(* The tail, or all rows where there is no byte kernel; then the mask. *)
Finish ==
    LET rows == Len(kernel.words)
        value(col, r) == LowAt(col, r) + Radix * HighAt(col, r)
        rest(col) == [i \in 1..(rows - row) |-> value(col, row + i - 1)]
        words == SubSeq(kernel.words, row + 1, rows)
    IN  /\ query # <<>> /\ row <= rows /\ kout # <<>>
        /\ ByteKernel => row = (IF Tiled(kernel) THEN rows ELSE Down(rows, ByteGroup))
        /\ kout' = [col \in DOMAIN kout |-> Mask(kout[col] +
                       vector_dot(rest(col), words, IF Tiled(kernel) \/ ByteKernel THEN "scalar" ELSE kernel.simd))]
        /\ row' = rows + 1
        /\ UNCHANGED <<kernel, query, tiles>>

KernelNext == Prepare \/ Chunk \/ Finish
KernelSpec == KernelInit /\ [][KernelNext]_kernelvars

(* Every kernel, whatever the layout, the vector unit, the digits skipped and *)
(* the tail, returns the dot product modulo q: no lane overflows between two  *)
(* flushes (native_kernel.rs:497, 533).                                       *)
DotExact == (kernel # <<>> /\ row > Len(kernel.words)) =>
    \A col \in DOMAIN kout :
        kout[col] = SumOver(LAMBDA r : Mask(Mask(Entry(kernel.db, Len(kernel.words), col, r)) * kernel.words[r + 1]),
                            0, Len(kernel.words) - 1) % 2^kernel.qbits
=============================================================================
