--------------------------- MODULE FirstDimKernel ---------------------------
(***************************************************************************)
(* simplepir-kernel: the CPU kernels, out[col] = sum query[row]*db[col][row]*)
(* mod q, computed by parallel tasks over bands of columns with delayed    *)
(* reduction.                                                              *)
(*                                                                         *)
(* u32 and u64 have Limb and Limb^2 values.  Additions to the u64          *)
(* accumulators wrap, as in a release build.  One step of a task handles   *)
(* one row; the vector kernel's lanes are u64 sums too and are added up at *)
(* the end of a window, so they are kept as one accumulator.               *)
(***************************************************************************)
EXTENDS Integers, FiniteSets

CONSTANTS
    Limb,        \* 2^32
    VectorRows,  \* rows per vector step of the AVX512 kernel
    Threads,     \* rayon::current_num_threads()
    BandItems,   \* MIN_BAND_BYTES in database elements
    Leftover,    \* what the caller left in the output slice
    Calls        \* the calls made: kernel, its window, and its arguments

Word == Limb * Limb
Kernels == {"chunked", "avx512", "power_of_two"}

(* The callers' side of the contract: element_max is a true bound. *)
ASSUME KernelConstants ==
    /\ Limb \in Nat \ {0, 1}
    /\ VectorRows \in Nat \ {0, 1} /\ Threads \in Nat \ {0} /\ BandItems \in Nat \ {0}
    /\ Leftover \in Nat
    /\ \A c \in Calls :
         /\ c.kernel \in Kernels
         /\ c.rows \in Nat \ {0} /\ c.cols \in Nat \ {0}
         /\ c.chunk_rows \in Nat
         /\ c.q \in 2..(Word - 1)
         /\ c.type_max \in 1..(Word - 1)
         /\ c.element_max \in 0..c.type_max
         /\ c.query \in [0..(c.rows - 1) -> 0..(Word - 1)]
         /\ c.db \in [0..(c.cols - 1) -> [0..(c.rows - 1) -> 0..c.element_max]]

VARIABLES
    at,     \* "idle", "running", "returned", or "failed" (an Err or an assertion)
    call,   \* the call being evaluated
    method, \* how it is evaluated: "split", "vector", "scalar" or "wrapping"
    chunk,  \* effective chunk_rows
    band,   \* band_cols
    task,   \* per band: its window, column, row and accumulators
    out     \* the output slice

vars == <<at, call, method, chunk, band, task, out>>

AtMost(x, y) == IF x <= y THEN x ELSE y
AtLeast(x, y) == IF x >= y THEN x ELSE y
CeilDiv(x, y) == (x + y - 1) \div y

needs_wide_products(c) == (Limb - 1) * c.type_max > Word - 1

(* usize::MAX, for a database of zeros, is only ever the larger argument of a *)
(* minimum with the number of rows.                                           *)
max_safe_chunk_rows_for(element_max, rows) ==
    IF element_max = 0 THEN AtLeast(rows, VectorRows)
    ELSE IF (Limb - 1) * element_max > Word - 1 THEN 1
    ELSE (Word - 1) \div ((Limb - 1) * element_max)

band_cols(c) ==
    LET by_size == CeilDiv(BandItems, c.rows)
        by_threads == CeilDiv(c.cols, Threads)
    IN  AtMost(AtMost(by_size, by_threads), c.cols)

Bands == 0..(CeilDiv(call.cols, band) - 1)
First(b) == b * band
End(b) == AtMost((b + 1) * band, call.cols)

Fresh(start, col) == [start |-> start, col |-> col, row |-> start, lo |-> 0, hi |-> 0]

Init ==
    /\ at = "idle"
    /\ call \in Calls
    /\ method = "split" /\ chunk = 1 /\ band = call.cols
    /\ task = [b \in Bands |-> Fresh(0, First(b))]
    /\ out = [col \in 0..(call.cols - 1) |-> Leftover]

-----------------------------------------------------------------------------
(* The entry of multiply_query: choose the method and the window, clear the  *)
(* slice that windows are added to, and hand the bands to the tasks.         *)
Run(how, window, columns) ==
    /\ at' = "running"
    /\ method' = how /\ chunk' = window /\ band' = columns
    /\ task' = [b \in 0..(CeilDiv(call.cols, columns) - 1) |-> Fresh(0, b * columns)]
    /\ out' = IF how \in {"split", "vector"} THEN [col \in DOMAIN out |-> 0] ELSE out
    /\ UNCHANGED call

Fail ==
    /\ at' = "failed"
    /\ UNCHANGED <<call, method, chunk, band, task, out>>

(* Mutation: a window of zero rows is used as it is. *)
ChunkedWindowZero(c) ==
    AtMost(AtMost(c.chunk_rows, max_safe_chunk_rows_for(c.element_max, c.rows)), c.rows)

ChunkedWindow(c) ==
    AtLeast(AtMost(AtMost(c.chunk_rows, max_safe_chunk_rows_for(c.element_max, c.rows)),
                   c.rows), 1)

EnterChunked ==
    /\ at = "idle" /\ call.kernel = "chunked"
    /\ IF needs_wide_products(call)
       THEN Run("scalar", call.rows, call.cols)
       ELSE Run("split", ChunkedWindow(call), band_cols(call))

(* Mutation: the window is not clamped to what the element bound allows. *)
VectorWindowUnclamped(c) ==
    LET window == AtLeast(AtMost(c.chunk_rows, c.rows), VectorRows)
    IN  window - (window % VectorRows)

VectorWindow(c) ==
    LET window == AtLeast(AtMost(AtMost(c.chunk_rows,
                      max_safe_chunk_rows_for(c.element_max, c.rows)), c.rows), VectorRows)
    IN  window - (window % VectorRows)

EnterVector ==
    /\ at = "idle" /\ call.kernel = "avx512"
    /\ IF max_safe_chunk_rows_for(call.element_max, call.rows) >= VectorRows
       THEN Run("vector", VectorWindow(call), band_cols(call))
       ELSE Fail

(* Limb is a power of two, so these are the divisors of Word. *)
IsPowerOfTwo(q) == Word % q = 0

EnterPowerOfTwo ==
    /\ at = "idle" /\ call.kernel = "power_of_two"
    /\ IF IsPowerOfTwo(call.q) /\ \A row \in DOMAIN call.query : call.query[row] < call.q
       THEN Run("wrapping", call.rows, 1)
       ELSE Fail

-----------------------------------------------------------------------------
RowEnd(b) == AtMost(task[b].start + chunk, call.rows)
Active(b) == at = "running" /\ task[b].start < call.rows /\ task[b].col < End(b)

(* What one row adds to the two accumulators, before the word wraps. *)
LoTerm(b) ==
    LET x == call.query[task[b].row]
        v == call.db[task[b].col][task[b].row]
    IN  IF method \in {"split", "vector"} THEN (x % Limb) * v ELSE x * v
HiTerm(b) ==
    IF method \in {"split", "vector"}
    THEN (call.query[task[b].row] \div Limb) * call.db[task[b].col][task[b].row]
    ELSE 0

Accumulate(b) ==
    /\ Active(b) /\ task[b].row < RowEnd(b)
    /\ task' = [task EXCEPT ![b] =
          [start |-> task[b].start, col |-> task[b].col, row |-> task[b].row + 1,
           lo |-> (task[b].lo + LoTerm(b)) % (IF method = "scalar" THEN call.q ELSE Word),
           hi |-> (task[b].hi + HiTerm(b)) % Word]]
    /\ UNCHANGED <<at, call, method, chunk, band, out>>

add_mod(x, y, q) == IF x + y >= q THEN x + y - q ELSE x + y

(* Mutation: a window's sum replaces what earlier windows left. *)
ReducedLast(b, old) == (task[b].lo + task[b].hi * Limb) % call.q

(* The window's contribution to the output: one Barrett reduction, or the mask. *)
Reduced(b, old) ==
    IF method \in {"split", "vector"}
    THEN add_mod(old, (task[b].lo + task[b].hi * Limb) % call.q, call.q)
    ELSE task[b].lo % call.q

Reduce(b) ==
    /\ Active(b) /\ task[b].row = RowEnd(b)
    /\ out' = [out EXCEPT ![task[b].col] = Reduced(b, @)]
    /\ task' = [task EXCEPT ![b] = Fresh(task[b].start, task[b].col + 1)]
    /\ UNCHANGED <<at, call, method, chunk, band>>

WindowDone(b) == task[b].start < call.rows /\ task[b].col = End(b)

(* The portable kernel's row windows are the outer, sequential loop: the next *)
(* one starts when every band has finished this one.                          *)
NextWindow ==
    /\ at = "running" /\ method # "vector"
    /\ \A b \in Bands : WindowDone(b)
    /\ task' = [b \in Bands |-> Fresh(RowEnd(b), First(b))]
    /\ UNCHANGED <<at, call, method, chunk, band, out>>

(* The vector kernel's bands run their window loops independently. *)
NextBandWindow(b) ==
    /\ at = "running" /\ method = "vector"
    /\ WindowDone(b)
    /\ task' = [task EXCEPT ![b] = Fresh(RowEnd(b), First(b))]
    /\ UNCHANGED <<at, call, method, chunk, band, out>>

Return ==
    /\ at = "running"
    /\ \A b \in Bands : task[b].start >= call.rows
    /\ at' = "returned"
    /\ UNCHANGED <<call, method, chunk, band, task, out>>

Finished ==
    /\ at \in {"returned", "failed"}
    /\ UNCHANGED vars

Next ==
    \/ EnterChunked \/ EnterVector \/ EnterPowerOfTwo
    \/ \E b \in Bands : Accumulate(b) \/ Reduce(b) \/ NextBandWindow(b)
    \/ NextWindow
    \/ Return
    \/ Finished

Spec == Init /\ [][Next]_vars

(* rayon runs every task to its end. *)
FairSpec == Spec /\ WF_vars(Next)

-----------------------------------------------------------------------------
TypeOK ==
    /\ at \in {"idle", "running", "returned", "failed"}
    /\ call.kernel \in Kernels
    /\ method \in {"split", "vector", "scalar", "wrapping"}
    /\ chunk \in Nat /\ band \in Nat \ {0}
    /\ task \in [Bands -> [start : Nat, col : Nat, row : Nat, lo : Nat, hi : Nat]]
    /\ out \in [0..(call.cols - 1) -> Nat]
    /\ \A b \in Bands : /\ task[b].start <= task[b].row
                        /\ at = "running" => task[b].col \in First(b)..End(b)

(* No addition of the delayed-reduction kernels ever wraps a u64 accumulator, *)
(* whatever window the caller asked for, for every element bound.             *)
NoOverflow == \A b \in Bands :
    Active(b) /\ method \in {"split", "vector"} /\ task[b].row < RowEnd(b) =>
        /\ task[b].lo + LoTerm(b) < Word
        /\ task[b].hi + HiTerm(b) < Word

(* The product every kernel promises, and the one ScalarKernel computes. *)
Product(c, col) ==
    LET sum[row \in 0..c.rows] ==
          IF row = 0 THEN 0
          ELSE (sum[row - 1] + c.query[row - 1] * c.db[col][row - 1]) % c.q
    IN  sum[c.rows]

(* A call that returns has written the exact product to every column, in      *)
(* whatever order the tasks of the bands ran and however many windows a       *)
(* column took; AVX512 tails and power-of-two moduli included.                *)
ProductExact == at = "returned" =>
    \A col \in 0..(call.cols - 1) : out[col] = Product(call, col)

(* Every call ends, a requested window of zero rows included. *)
Terminates == <>(at \in {"returned", "failed"})
=============================================================================
