------------------------ MODULE FirstDimKernel_proofs ------------------------
(* The delayed-reduction windows never overflow, and every kernel returns the *)
(* exact product, for every limb size, vector width, thread count, window     *)
(* request, shape, element bound, query and database.                         *)
EXTENDS FirstDimKernel, Arithmetic

Task == [start : Nat, col : Nat, row : Nat, lo : Nat, hi : Nat]
Delayed == method \in {"split", "vector"}
MaxTerm(c) == (Limb - 1) * c.element_max

Shapes ==
    /\ at \in {"idle", "running", "returned", "failed"}
    /\ call \in Calls
    /\ chunk \in Nat /\ band \in Nat
    /\ task \in [Bands -> Task]

(* The window is one the accumulators can hold. *)
WindowFits == at = "running" /\ Delayed => chunk * MaxTerm(call) <= Word - 1

(* Each accumulator holds at most one maximal term per row of the window read. *)
SumsBounded == at = "running" /\ Delayed => \A b \in Bands :
    /\ task[b].start <= task[b].row
    /\ task[b].row <= task[b].start + chunk
    /\ task[b].lo <= (task[b].row - task[b].start) * MaxTerm(call)
    /\ task[b].hi <= (task[b].row - task[b].start) * MaxTerm(call)

IInv == Shapes /\ WindowFits /\ SumsBounded

-----------------------------------------------------------------------------
LEMMA LimbIsNat == Limb \in Nat /\ Limb > 1 /\ Word \in Nat /\ Word > 0
<1>1. Limb \in Nat /\ Limb > 1
  BY KernelConstants
<1>2. Limb * Limb \in Nat /\ Limb * Limb > 0
  BY <1>1, SMT
<1> QED BY <1>1, <1>2 DEF Word

LEMMA HighLimb ==
    ASSUME NEW x \in 0..(Word - 1)
    PROVE  x \div Limb \in Nat /\ x \div Limb <= Limb - 1
<1>1. x \div Limb \in Nat /\ (x \div Limb) * Limb <= x
  BY LimbIsNat, DivTimes
<1>2. x < Limb * Limb /\ x \in Nat
  BY LimbIsNat DEF Word
<1>3. ~ (x \div Limb >= Limb)
  BY <1>1, <1>2, LimbIsNat, ProductMonotone
<1> QED BY <1>1, <1>3, LimbIsNat

LEMMA CallFacts ==
    ASSUME NEW c \in Calls
    PROVE  /\ c.rows \in Nat /\ c.rows > 0 /\ c.cols \in Nat /\ c.cols > 0
           /\ c.chunk_rows \in Nat /\ c.element_max \in Nat /\ c.type_max \in Nat
           /\ c.element_max <= c.type_max
           /\ c.q \in Nat /\ c.q > 0
           /\ MaxTerm(c) \in Nat
<1>1. c.element_max \in Nat /\ c.type_max \in Nat /\ c.element_max <= c.type_max
  BY KernelConstants, LimbIsNat
<1>2. (Limb - 1) \in Nat
  BY LimbIsNat
<1>3. (Limb - 1) * c.element_max \in Nat
  BY <1>1, <1>2, SMT
<1> QED BY <1>1, <1>3, KernelConstants, LimbIsNat DEF MaxTerm

(* The limb products of one row, at a place inside the call's matrix. *)
LEMMA TermBounds ==
    ASSUME NEW c \in Calls, NEW col \in 0..(c.cols - 1), NEW row \in 0..(c.rows - 1)
    PROVE  /\ (c.query[row] % Limb) * c.db[col][row] \in Nat
           /\ (c.query[row] \div Limb) * c.db[col][row] \in Nat
           /\ (c.query[row] % Limb) * c.db[col][row] <= MaxTerm(c)
           /\ (c.query[row] \div Limb) * c.db[col][row] <= MaxTerm(c)
<1>1. c.query[row] \in 0..(Word - 1)
  BY KernelConstants
<1>2. c.db[col] \in [0..(c.rows - 1) -> 0..c.element_max]
  BY KernelConstants
<1>3. c.db[col][row] \in Nat /\ c.db[col][row] <= c.element_max
  BY <1>2, CallFacts
<1>4. c.query[row] % Limb \in Nat /\ c.query[row] % Limb <= Limb - 1
  BY <1>1, LimbIsNat, DivTimes
<1>5. c.query[row] \div Limb \in Nat /\ c.query[row] \div Limb <= Limb - 1
  BY <1>1, HighLimb
<1>6. Limb - 1 \in Nat /\ c.element_max \in Nat
  BY LimbIsNat, CallFacts
<1>7. (c.query[row] % Limb) * c.db[col][row] <= (Limb - 1) * c.element_max
  BY <1>3, <1>4, <1>6, ProductMonotone
<1>8. (c.query[row] \div Limb) * c.db[col][row] <= (Limb - 1) * c.element_max
  BY <1>3, <1>5, <1>6, ProductMonotone
<1>9. \A m, n \in Nat : m * n \in Nat
  BY SMT
<1> QED BY <1>3, <1>4, <1>5, <1>7, <1>8, <1>9 DEF MaxTerm

(* The clamp of the window: a multiple of the largest term that fits a word,  *)
(* when one term does.                                                        *)
LEMMA SafeRows ==
    ASSUME NEW c \in Calls, MaxTerm(c) <= Word - 1
    PROVE  LET safe == max_safe_chunk_rows_for(c.element_max, c.rows)
           IN  safe \in Nat /\ safe * MaxTerm(c) <= Word - 1
<1> DEFINE safe == max_safe_chunk_rows_for(c.element_max, c.rows)
<1>0. /\ c.element_max \in Nat /\ c.rows \in Nat /\ VectorRows \in Nat
      /\ MaxTerm(c) \in Nat /\ Word - 1 \in Nat
  BY CallFacts, KernelConstants, LimbIsNat
<1>1. CASE c.element_max = 0
  <2>1. MaxTerm(c) = 0
    BY <1>1, LimbIsNat, SMT DEF MaxTerm
  <2>2. safe \in Nat
    BY <1>0, <1>1 DEF max_safe_chunk_rows_for, AtLeast
  <2>3. safe * 0 = 0
    BY <2>2, SMT
  <2> QED BY <1>0, <2>1, <2>2, <2>3
<1>2. CASE c.element_max # 0
  <2>1. MaxTerm(c) > 0
    <3>1. Limb - 1 > 0 /\ Limb - 1 \in Nat
      BY LimbIsNat
    <3>2. c.element_max > 0
      BY <1>0, <1>2
    <3>3. \A m, n \in Nat : m > 0 /\ n > 0 => m * n > 0
      BY SMT
    <3> QED BY <1>0, <3>1, <3>2, <3>3 DEF MaxTerm
  <2>2. safe = (Word - 1) \div MaxTerm(c)
    BY <1>0, <1>2 DEF max_safe_chunk_rows_for, MaxTerm
  <2> HIDE DEF safe
  <2>3. safe \in Nat /\ safe * MaxTerm(c) <= Word - 1
    BY <1>0, <2>1, <2>2, DivTimes
  <2> QED BY <2>3 DEF safe
<1> QED BY <1>1, <1>2

LEMMA SmallerWindow ==
    ASSUME NEW c \in Calls, NEW safe \in Nat, NEW n \in Nat, n <= safe,
           safe * MaxTerm(c) <= Word - 1
    PROVE  n * MaxTerm(c) <= Word - 1
<1>1. MaxTerm(c) \in Nat
  BY CallFacts
<1>2. n * MaxTerm(c) <= safe * MaxTerm(c)
  BY <1>1, ProductMonotone
<1>3. n * MaxTerm(c) \in Nat /\ safe * MaxTerm(c) \in Nat
  BY <1>1, SMT
<1> QED BY <1>2, <1>3, LimbIsNat

(* ChunkedSplitKernel: a type without wide products has a window of at least  *)
(* one row, and max(1) does not exceed it.                                    *)
LEMMA ChunkedFits ==
    ASSUME NEW c \in Calls, ~ needs_wide_products(c)
    PROVE  ChunkedWindow(c) \in Nat /\ ChunkedWindow(c) * MaxTerm(c) <= Word - 1
<1> DEFINE safe == max_safe_chunk_rows_for(c.element_max, c.rows)
<1>0. /\ c.element_max \in Nat /\ c.type_max \in Nat /\ c.element_max <= c.type_max
      /\ c.rows \in Nat /\ c.chunk_rows \in Nat /\ MaxTerm(c) \in Nat
      /\ Limb - 1 \in Nat /\ Word \in Nat
  BY CallFacts, LimbIsNat
<1>1. MaxTerm(c) <= Word - 1
  <2>1. (Limb - 1) * c.element_max <= (Limb - 1) * c.type_max
    BY <1>0, ProductMonotone
  <2>2. (Limb - 1) * c.type_max \in Nat
    BY <1>0, SMT
  <2>3. (Limb - 1) * c.type_max <= Word - 1
    BY <1>0, <2>2 DEF needs_wide_products
  <2> QED BY <1>0, <2>1, <2>2, <2>3 DEF MaxTerm
<1>2. safe \in Nat /\ safe * MaxTerm(c) <= Word - 1
  BY <1>1, SafeRows
<1> HIDE DEF safe
<1> DEFINE inner == AtMost(AtMost(c.chunk_rows, safe), c.rows)
<1>3. ChunkedWindow(c) = AtLeast(inner, 1)
  BY DEF ChunkedWindow, safe
<1>4. inner \in Nat /\ inner <= safe
  BY <1>0, <1>2 DEF AtMost
<1>5. inner * MaxTerm(c) <= Word - 1
  BY <1>2, <1>4, SmallerWindow
<1>6. 1 * MaxTerm(c) <= Word - 1
  BY <1>0, <1>1
<1>7. AtLeast(inner, 1) \in Nat /\ (AtLeast(inner, 1) = inner \/ AtLeast(inner, 1) = 1)
  BY <1>4 DEF AtLeast
<1> QED BY <1>3, <1>5, <1>6, <1>7

(* U16Avx512Kernel: the assertion safe_rows >= 8 is what makes max(8) safe. *)
LEMMA VectorFits ==
    ASSUME NEW c \in Calls, max_safe_chunk_rows_for(c.element_max, c.rows) >= VectorRows
    PROVE  VectorWindow(c) \in Nat /\ VectorWindow(c) * MaxTerm(c) <= Word - 1
<1> DEFINE safe == max_safe_chunk_rows_for(c.element_max, c.rows)
<1>0. /\ c.element_max \in Nat /\ c.rows \in Nat /\ c.chunk_rows \in Nat
      /\ MaxTerm(c) \in Nat /\ Word \in Nat /\ Limb \in Nat /\ Limb > 1
      /\ VectorRows \in Nat /\ VectorRows > 1
  BY CallFacts, LimbIsNat, KernelConstants
<1>1. MaxTerm(c) <= Word - 1
  <2>1. CASE c.element_max = 0
    BY <2>1, <1>0, LimbIsNat, SMT DEF MaxTerm
  <2>2. CASE c.element_max # 0 /\ MaxTerm(c) > Word - 1
    <3>1. safe = 1
      BY <2>2 DEF max_safe_chunk_rows_for, MaxTerm
    <3> QED BY <3>1, <1>0
  <2> QED BY <2>1, <2>2, <1>0
<1>2. safe \in Nat /\ safe * MaxTerm(c) <= Word - 1 /\ safe >= VectorRows
  BY <1>1, SafeRows
<1> HIDE DEF safe
<1> DEFINE window == AtLeast(AtMost(AtMost(c.chunk_rows, safe), c.rows), VectorRows)
<1>3. VectorWindow(c) = window - (window % VectorRows)
  BY DEF VectorWindow, safe
<1>4. window \in Nat /\ window <= safe
  BY <1>0, <1>2 DEF AtLeast, AtMost
<1> HIDE DEF window
<1>5. window % VectorRows \in Nat /\ window % VectorRows <= window
  BY <1>0, <1>4, DivTimes
<1>6. VectorWindow(c) \in Nat /\ VectorWindow(c) <= safe
  BY <1>2, <1>3, <1>4, <1>5
<1> QED BY <1>2, <1>6, SmallerWindow

(* A task about to read a row of a window: where it is, and what the row adds. *)
LEMMA NextTermFits ==
    ASSUME IInv, NEW b \in Bands, Active(b), Delayed, task[b].row < RowEnd(b)
    PROVE  /\ LoTerm(b) \in Nat /\ HiTerm(b) \in Nat
           /\ LoTerm(b) <= MaxTerm(call) /\ HiTerm(b) <= MaxTerm(call)
           /\ task[b].row + 1 <= task[b].start + chunk
           /\ task[b].lo + LoTerm(b) <= (task[b].row + 1 - task[b].start) * MaxTerm(call)
           /\ task[b].hi + HiTerm(b) <= (task[b].row + 1 - task[b].start) * MaxTerm(call)
           /\ (task[b].row + 1 - task[b].start) * MaxTerm(call) <= Word - 1
<1>1. call \in Calls /\ task[b] \in Task /\ chunk \in Nat /\ band \in Nat
  BY DEF IInv, Shapes
<1>2. /\ task[b].start \in Nat /\ task[b].row \in Nat /\ task[b].col \in Nat
      /\ task[b].lo \in Nat /\ task[b].hi \in Nat
  BY <1>1 DEF Task
<1>3. call.rows \in Nat /\ call.cols \in Nat /\ MaxTerm(call) \in Nat
  BY <1>1, CallFacts
<1>4. task[b].row < call.rows /\ task[b].row + 1 <= task[b].start + chunk
  BY <1>1, <1>2, <1>3 DEF RowEnd, AtMost
<1>5. task[b].col < call.cols
  <2>1. (b + 1) * band \in Nat
    <3>1. b \in Int /\ b >= 0
      BY DEF Bands
    <3>2. b + 1 \in Nat
      BY <3>1
    <3>3. \A m, n \in Nat : m * n \in Nat
      BY SMT
    <3> QED BY <1>1, <3>2, <3>3
  <2> HIDE DEF Bands
  <2>2. task[b].col < End(b)
    BY DEF Active
  <2> DEFINE edge == (b + 1) * band
  <2>3. edge \in Nat
    BY <2>1
  <2>4. End(b) = AtMost(edge, call.cols)
    BY DEF End
  <2> HIDE DEF edge
  <2>5. End(b) <= call.cols /\ End(b) \in Nat
    BY <1>3, <2>3, <2>4 DEF AtMost
  <2> QED BY <1>2, <1>3, <2>2, <2>5
<1>6. LoTerm(b) = (call.query[task[b].row] % Limb) * call.db[task[b].col][task[b].row]
  BY DEF LoTerm, Delayed
<1>7. HiTerm(b) = (call.query[task[b].row] \div Limb) * call.db[task[b].col][task[b].row]
  BY DEF HiTerm, Delayed
<1>8. task[b].col \in 0..(call.cols - 1) /\ task[b].row \in 0..(call.rows - 1)
  BY <1>2, <1>3, <1>4, <1>5
<1>9. /\ LoTerm(b) \in Nat /\ HiTerm(b) \in Nat
      /\ LoTerm(b) <= MaxTerm(call) /\ HiTerm(b) <= MaxTerm(call)
  BY <1>1, <1>6, <1>7, <1>8, TermBounds
<1>10. at = "running"
  BY DEF Active
<1>11. /\ task[b].start <= task[b].row
       /\ task[b].lo <= (task[b].row - task[b].start) * MaxTerm(call)
       /\ task[b].hi <= (task[b].row - task[b].start) * MaxTerm(call)
  BY <1>10 DEF IInv, SumsBounded
<1>12. \A n, m \in Nat : (n + 1) * m = n * m + m /\ n * m \in Nat
  BY SMT
<1> DEFINE n == task[b].row - task[b].start
           m == MaxTerm(call)
<1>13. n \in Nat /\ m \in Nat /\ n + 1 = task[b].row + 1 - task[b].start
  BY <1>2, <1>3, <1>11
<1>14. task[b].lo <= n * m /\ task[b].hi <= n * m
  BY <1>11
<1>15. chunk * m <= Word - 1 /\ n + 1 <= chunk
  BY <1>1, <1>2, <1>4, <1>10 DEF IInv, WindowFits
<1>15a. LoTerm(b) <= m /\ HiTerm(b) <= m
  BY <1>9
<1>15b. task[b].row + 1 - task[b].start = n + 1
  BY <1>2
<1>15c. m = MaxTerm(call)
  OBVIOUS
<1> HIDE DEF n, m
<1>16. (n + 1) * m = n * m + m /\ n * m \in Nat
  BY <1>12, <1>13
<1>17. task[b].lo + LoTerm(b) <= (n + 1) * m /\ task[b].hi + HiTerm(b) <= (n + 1) * m
  BY <1>2, <1>9, <1>13, <1>14, <1>15a, <1>16
<1>18. (n + 1) * m <= Word - 1
  BY <1>1, <1>13, <1>15, <1>15c, SmallerWindow
<1> QED BY <1>4, <1>9, <1>15b, <1>15c, <1>17, <1>18

LEMMA InvImpliesNoOverflow == IInv => NoOverflow
<1> SUFFICES ASSUME IInv, NEW b \in Bands, Active(b), Delayed, task[b].row < RowEnd(b)
             PROVE  task[b].lo + LoTerm(b) < Word /\ task[b].hi + HiTerm(b) < Word
  BY DEF NoOverflow, Delayed
<1>1. /\ LoTerm(b) \in Nat /\ HiTerm(b) \in Nat
      /\ task[b].lo + LoTerm(b) <= (task[b].row + 1 - task[b].start) * MaxTerm(call)
      /\ task[b].hi + HiTerm(b) <= (task[b].row + 1 - task[b].start) * MaxTerm(call)
      /\ (task[b].row + 1 - task[b].start) * MaxTerm(call) <= Word - 1
  BY NextTermFits
<1>2. task[b].lo \in Nat /\ task[b].hi \in Nat /\ task[b].row \in Nat /\ task[b].start \in Nat
  BY DEF IInv, Shapes, Task
<1>3. MaxTerm(call) \in Nat
  BY CallFacts DEF IInv, Shapes
<1>4. (task[b].row + 1 - task[b].start) * MaxTerm(call) \in Int
  BY <1>2, <1>3, SMT
<1> QED BY <1>1, <1>2, <1>4, LimbIsNat

-----------------------------------------------------------------------------
LEMMA BandColsNat == ASSUME NEW c \in Calls PROVE band_cols(c) \in Nat
<1>1. \A x, y \in Nat : y > 0 => CeilDiv(x, y) \in Nat
  <2> SUFFICES ASSUME NEW x \in Nat, NEW y \in Nat, y > 0 PROVE CeilDiv(x, y) \in Nat
    OBVIOUS
  <2>1. x + y - 1 \in Nat
    OBVIOUS
  <2> QED BY <2>1, DivTimes DEF CeilDiv
<1>2. /\ BandItems \in Nat /\ Threads \in Nat /\ Threads > 0
      /\ c.rows \in Nat /\ c.rows > 0 /\ c.cols \in Nat
  BY CallFacts, KernelConstants
<1>3. CeilDiv(BandItems, c.rows) \in Nat /\ CeilDiv(c.cols, Threads) \in Nat
  BY <1>1, <1>2
<1> QED BY <1>2, <1>3 DEF band_cols, AtMost

LEMMA BandStartNat == ASSUME NEW hi, NEW b \in 0..hi, NEW n \in Nat PROVE b * n \in Nat
<1>1. b \in Nat
  OBVIOUS
<1> QED BY <1>1, SMT

LEMMA FreshIsTask == ASSUME NEW start \in Nat, NEW col \in Nat PROVE Fresh(start, col) \in Task
  BY DEF Fresh, Task

(* A task that has just started a window satisfies its part of the bound. *)
LEMMA FreshBounded ==
    ASSUME NEW start \in Nat, NEW col, NEW n \in Nat, NEW c \in Calls
    PROVE  LET t == Fresh(start, col)
           IN  /\ t.start <= t.row /\ t.row <= t.start + n
               /\ t.lo <= (t.row - t.start) * MaxTerm(c)
               /\ t.hi <= (t.row - t.start) * MaxTerm(c)
<1>1. MaxTerm(c) \in Nat
  BY CallFacts
<1>2. (start - start) * MaxTerm(c) = 0
  BY <1>1, SMT
<1> QED BY <1>2 DEF Fresh

LEMMA RunPreserves ==
    ASSUME IInv, NEW how, NEW window \in Nat, NEW columns \in Nat, Run(how, window, columns),
           how \in {"split", "vector"} => window * MaxTerm(call) <= Word - 1
    PROVE  IInv'
<1>1. call' = call /\ call \in Calls /\ chunk' = window /\ band' = columns
      /\ at' = "running" /\ method' = how
  BY DEF Run, IInv, Shapes
<1>2. Bands' = 0..(CeilDiv(call.cols, columns) - 1)
  BY <1>1 DEF Bands
<1>3. task' = [b \in Bands' |-> Fresh(0, b * columns)]
  BY <1>2 DEF Run
<1>4. \A b \in Bands' : task'[b] = Fresh(0, b * columns) /\ b * columns \in Nat
  <2> SUFFICES ASSUME NEW b \in Bands' PROVE b * columns \in Nat
    BY <1>3
  <2> QED BY <1>2, BandStartNat
<1>5. task' \in [Bands' -> Task]
  BY <1>3, <1>4, FreshIsTask
<1>6. Shapes'
  BY <1>1, <1>5 DEF Shapes
<1>7. WindowFits'
  BY <1>1 DEF WindowFits, Delayed, MaxTerm
<1>8. SumsBounded'
  BY <1>1, <1>4, FreshBounded DEF SumsBounded, MaxTerm
<1> QED BY <1>6, <1>7, <1>8 DEF IInv

LEMMA FailPreserves == ASSUME IInv, Fail PROVE IInv'
  BY DEF Fail, IInv, Shapes, WindowFits, SumsBounded, Delayed, MaxTerm, Bands

LEMMA EntriesPreserve ==
    ASSUME IInv, EnterChunked \/ EnterVector \/ EnterPowerOfTwo
    PROVE  IInv'
<1>0. call \in Calls /\ call.rows \in Nat /\ call.cols \in Nat /\ band_cols(call) \in Nat
  BY CallFacts, BandColsNat DEF IInv, Shapes
<1>1. CASE EnterChunked
  <2>1. CASE needs_wide_products(call)
    <3>1. Run("scalar", call.rows, call.cols)
      BY <1>1, <2>1 DEF EnterChunked
    <3> QED BY <1>0, <3>1, RunPreserves
  <2>2. CASE ~ needs_wide_products(call)
    <3>1. Run("split", ChunkedWindow(call), band_cols(call))
      BY <1>1, <2>2 DEF EnterChunked
    <3> QED BY <1>0, <2>2, <3>1, ChunkedFits, RunPreserves
  <2> QED BY <2>1, <2>2
<1>2. CASE EnterVector
  <2>1. CASE max_safe_chunk_rows_for(call.element_max, call.rows) >= VectorRows
    <3>1. Run("vector", VectorWindow(call), band_cols(call))
      BY <1>2, <2>1 DEF EnterVector
    <3> QED BY <1>0, <2>1, <3>1, VectorFits, RunPreserves
  <2>2. CASE Fail
    BY <2>2, FailPreserves
  <2> QED BY <1>2, <2>1, <2>2 DEF EnterVector
<1>3. CASE EnterPowerOfTwo
  <2>1. CASE Run("wrapping", call.rows, 1)
    BY <1>0, <2>1, RunPreserves
  <2>2. CASE Fail
    BY <2>2, FailPreserves
  <2> QED BY <1>3, <2>1, <2>2 DEF EnterPowerOfTwo
<1> QED BY <1>1, <1>2, <1>3

-----------------------------------------------------------------------------
(* Both products are natural numbers whatever the method. *)
LEMMA TermsNat ==
    ASSUME Shapes, NEW b \in Bands, Active(b), task[b].row < RowEnd(b)
    PROVE  LoTerm(b) \in Nat /\ HiTerm(b) \in Nat
<1>1. call \in Calls /\ task[b] \in Task /\ chunk \in Nat /\ band \in Nat
  BY DEF Shapes
<1>2. task[b].start \in Nat /\ task[b].row \in Nat /\ task[b].col \in Nat
  BY <1>1 DEF Task
<1>3. call.rows \in Nat /\ call.cols \in Nat
  BY <1>1, CallFacts
<1>4. task[b].row \in 0..(call.rows - 1)
  BY <1>1, <1>2, <1>3 DEF RowEnd, AtMost
<1>5. (b + 1) * band \in Nat
  <2>1. b + 1 \in Nat
    BY DEF Bands
  <2> QED BY <1>1, <2>1, SMT
<1>6. task[b].col \in 0..(call.cols - 1)
  <2> DEFINE edge == (b + 1) * band
  <2>1. edge \in Nat /\ task[b].col < AtMost(edge, call.cols)
    BY <1>5 DEF Active, End
  <2> HIDE DEF edge
  <2> QED BY <1>2, <1>3, <2>1 DEF AtMost
<1>7. call.query[task[b].row] \in Nat
  BY <1>1, <1>4, KernelConstants, LimbIsNat
<1>8. call.db[task[b].col][task[b].row] \in Nat
  <2>1. call.db[task[b].col] \in [0..(call.rows - 1) -> 0..call.element_max]
    BY <1>1, <1>6, KernelConstants
  <2>2. call.element_max \in Nat
    BY <1>1, CallFacts
  <2>3. call.db[task[b].col][task[b].row] \in 0..call.element_max
    BY <1>4, <2>1
  <2> QED BY <2>2, <2>3
<1>9. call.query[task[b].row] % Limb \in Nat /\ call.query[task[b].row] \div Limb \in Nat
  BY <1>7, LimbIsNat, DivTimes
<1>10. \A m, n \in Nat : m * n \in Nat
  BY SMT
<1> DEFINE x == call.query[task[b].row]
           v == call.db[task[b].col][task[b].row]
<1>11. x * v \in Nat /\ (x % Limb) * v \in Nat /\ (x \div Limb) * v \in Nat
  BY <1>7, <1>8, <1>9, <1>10
<1> HIDE DEF x, v
<1>12. LoTerm(b) = (x % Limb) * v \/ LoTerm(b) = x * v
  BY DEF LoTerm, x, v
<1>13. HiTerm(b) = (x \div Limb) * v \/ HiTerm(b) = 0
  BY DEF HiTerm, x, v
<1> QED BY <1>11, <1>12, <1>13

LEMMA AccumulatePreserves == ASSUME IInv, NEW b \in Bands, Accumulate(b) PROVE IInv'
<1>1. UNCHANGED <<at, call, method, chunk, band>> /\ Bands' = Bands /\ at = "running"
  BY DEF Accumulate, Bands, Active
<1>2. Shapes /\ call \in Calls /\ chunk \in Nat /\ task \in [Bands -> Task] /\ task[b] \in Task
  BY DEF IInv, Shapes
<1>3. Active(b) /\ task[b].row < RowEnd(b)
  BY DEF Accumulate
<1>4. LoTerm(b) \in Nat /\ HiTerm(b) \in Nat
  BY <1>2, <1>3, TermsNat
<1> DEFINE m == IF method = "scalar" THEN call.q ELSE Word
           lo == (task[b].lo + LoTerm(b)) % m
           hi == (task[b].hi + HiTerm(b)) % Word
           t == [start |-> task[b].start, col |-> task[b].col, row |-> task[b].row + 1,
                 lo |-> lo, hi |-> hi]
<1>5. task' = [task EXCEPT ![b] = t]
  BY DEF Accumulate
<1>6. /\ task[b].start \in Nat /\ task[b].row \in Nat /\ task[b].col \in Nat
      /\ task[b].lo \in Nat /\ task[b].hi \in Nat
  BY <1>2 DEF Task
<1>7. /\ lo \in Nat /\ lo <= task[b].lo + LoTerm(b)
      /\ hi \in Nat /\ hi <= task[b].hi + HiTerm(b)
  <2>1. m \in Nat /\ m > 0
    BY <1>2, LimbIsNat, CallFacts
  <2>2. task[b].lo + LoTerm(b) \in Nat /\ task[b].hi + HiTerm(b) \in Nat
    BY <1>4, <1>6
  <2> HIDE DEF m
  <2> QED BY <2>1, <2>2, LimbIsNat, DivTimes
<1> HIDE DEF lo, hi, m
<1>8. t \in Task /\ t.start = task[b].start /\ t.row = task[b].row + 1 /\ t.lo = lo /\ t.hi = hi
  <2>1. task[b].row + 1 \in Nat
    BY <1>6
  <2> QED BY <1>6, <1>7, <2>1 DEF Task
<1> HIDE DEF t
<1>9. \A a \in Bands : task'[a] = IF a = b THEN t ELSE task[a]
  BY <1>2, <1>5
<1>10. task' \in [Bands -> Task]
  BY <1>2, <1>5, <1>8
<1>11. Shapes'
  BY <1>1, <1>2, <1>10 DEF Shapes
<1>12. WindowFits'
  BY <1>1 DEF IInv, WindowFits, Delayed, MaxTerm
<1>13. SumsBounded'
  <2> SUFFICES ASSUME Delayed, NEW a \in Bands
               PROVE  /\ task'[a].start <= task'[a].row
                      /\ task'[a].row <= task'[a].start + chunk
                      /\ task'[a].lo <= (task'[a].row - task'[a].start) * MaxTerm(call)
                      /\ task'[a].hi <= (task'[a].row - task'[a].start) * MaxTerm(call)
    BY <1>1 DEF SumsBounded, Delayed, MaxTerm
  <2>1. CASE a # b
    BY <1>1, <1>9, <2>1 DEF IInv, SumsBounded
  <2>2. CASE a = b
    <3>1. task'[a] = t
      BY <1>9, <2>2
    <3>2. /\ task[b].row + 1 <= task[b].start + chunk
          /\ task[b].lo + LoTerm(b) <= (task[b].row + 1 - task[b].start) * MaxTerm(call)
          /\ task[b].hi + HiTerm(b) <= (task[b].row + 1 - task[b].start) * MaxTerm(call)
      BY <1>3, NextTermFits
    <3>3. task[b].start <= task[b].row
      BY <1>1 DEF IInv, SumsBounded
    <3> DEFINE bound == (task[b].row + 1 - task[b].start) * MaxTerm(call)
    <3>4. bound \in Int
      <4>1. MaxTerm(call) \in Nat /\ task[b].row + 1 - task[b].start \in Nat
        BY <1>2, <1>6, <3>3, CallFacts
      <4> QED BY <4>1, SMT
    <3>5. task[b].lo + LoTerm(b) <= bound /\ task[b].hi + HiTerm(b) <= bound
      BY <3>2
    <3> HIDE DEF bound
    <3>6. lo <= bound /\ hi <= bound
      BY <1>4, <1>6, <1>7, <3>4, <3>5
    <3> QED BY <1>2, <1>6, <1>8, <3>1, <3>2, <3>3, <3>6 DEF bound
  <2> QED BY <2>1, <2>2
<1> QED BY <1>11, <1>12, <1>13 DEF IInv

(* Starting a window or a column resets the task's row and accumulators. *)
LEMMA RestartPreserves ==
    ASSUME IInv, UNCHANGED <<at, call, method, chunk, band>>,
           \A a \in Bands : \/ task'[a] = task[a]
                            \/ \E start, col \in Nat : task'[a] = Fresh(start, col),
           task' = [a \in Bands |-> task'[a]]
    PROVE  IInv'
<1>1. Bands' = Bands
  BY DEF Bands
<1>2. call \in Calls /\ chunk \in Nat /\ task \in [Bands -> Task]
  BY DEF IInv, Shapes
<1>3. \A a \in Bands : task'[a] \in Task
  BY <1>2, FreshIsTask
<1>4. task' \in [Bands -> Task]
  BY <1>3
<1>5. Shapes'
  BY <1>1, <1>4 DEF IInv, Shapes
<1>6. WindowFits'
  BY DEF IInv, WindowFits, Delayed, MaxTerm
<1>7. SumsBounded'
  <2> SUFFICES ASSUME at = "running", Delayed, NEW a \in Bands
               PROVE  /\ task'[a].start <= task'[a].row
                      /\ task'[a].row <= task'[a].start + chunk
                      /\ task'[a].lo <= (task'[a].row - task'[a].start) * MaxTerm(call)
                      /\ task'[a].hi <= (task'[a].row - task'[a].start) * MaxTerm(call)
    BY <1>1 DEF SumsBounded, Delayed, MaxTerm
  <2>1. CASE task'[a] = task[a]
    BY <2>1 DEF IInv, SumsBounded
  <2>2. ASSUME NEW start \in Nat, NEW col \in Nat, task'[a] = Fresh(start, col)
        PROVE  /\ task'[a].start <= task'[a].row
               /\ task'[a].row <= task'[a].start + chunk
               /\ task'[a].lo <= (task'[a].row - task'[a].start) * MaxTerm(call)
               /\ task'[a].hi <= (task'[a].row - task'[a].start) * MaxTerm(call)
    BY <1>2, <2>2, FreshBounded
  <2> QED BY <2>1, <2>2
<1> QED BY <1>5, <1>6, <1>7 DEF IInv

LEMMA WindowStepsPreserve ==
    ASSUME IInv, NextWindow \/ \E b \in Bands : Reduce(b) \/ NextBandWindow(b)
    PROVE  IInv'
<1>0. task \in [Bands -> Task] /\ chunk \in Nat /\ call.rows \in Nat /\ band \in Nat
  BY CallFacts DEF IInv, Shapes
<1>1. \A b \in Bands : RowEnd(b) \in Nat /\ First(b) \in Nat
                       /\ task[b].start \in Nat /\ task[b].col + 1 \in Nat
  <2> TAKE b \in Bands
  <2>1. task[b].start \in Nat /\ task[b].col \in Nat
    BY <1>0 DEF Task
  <2>2. First(b) \in Nat
    BY <1>0, BandStartNat DEF First, Bands
  <2> QED BY <1>0, <2>1, <2>2 DEF RowEnd, AtMost
<1>2. CASE NextWindow
  <2>1. task' = [b \in Bands |-> Fresh(RowEnd(b), First(b))]
    BY <1>2 DEF NextWindow
  <2>2. UNCHANGED <<at, call, method, chunk, band>>
    BY <1>2 DEF NextWindow
  <2>3. \A a \in Bands : \E start, col \in Nat : task'[a] = Fresh(start, col)
    BY <1>1, <2>1
  <2>4. task' = [a \in Bands |-> task'[a]]
    BY <2>1
  <2> QED BY <2>2, <2>3, <2>4, RestartPreserves
<1>3. ASSUME NEW b \in Bands, NEW start \in Nat, NEW col \in Nat,
             task' = [task EXCEPT ![b] = Fresh(start, col)],
             UNCHANGED <<at, call, method, chunk, band>>
      PROVE  IInv'
  <2>1. \A a \in Bands : task'[a] = IF a = b THEN Fresh(start, col) ELSE task[a]
    BY <1>0, <1>3
  <2>2. task' = [a \in Bands |-> task'[a]]
    BY <1>0, <1>3
  <2>3. \A a \in Bands : \/ task'[a] = task[a]
                         \/ \E s, c \in Nat : task'[a] = Fresh(s, c)
    BY <2>1
  <2> QED BY <1>3, <2>2, <2>3, RestartPreserves
<1>4. ASSUME NEW b \in Bands, Reduce(b) PROVE IInv'
  BY <1>1, <1>3, <1>4 DEF Reduce
<1>5. ASSUME NEW b \in Bands, NextBandWindow(b) PROVE IInv'
  BY <1>1, <1>3, <1>5 DEF NextBandWindow
<1> QED BY <1>2, <1>4, <1>5

LEMMA InitInv == Init => IInv
<1> SUFFICES ASSUME Init PROVE IInv
  OBVIOUS
<1>1. call \in Calls /\ call.cols \in Nat
  BY CallFacts DEF Init
<1>2. band \in Nat /\ chunk \in Nat
  BY <1>1 DEF Init
<1>3. \A b \in Bands : First(b) \in Nat
  BY <1>2, BandStartNat DEF Bands, First
<1>4. task \in [Bands -> Task]
  BY <1>3, FreshIsTask DEF Init
<1> QED BY <1>1, <1>2, <1>4 DEF Init, IInv, Shapes, WindowFits, SumsBounded

LEMMA StepInv == ASSUME IInv, [Next]_vars PROVE IInv'
<1>1. CASE EnterChunked \/ EnterVector \/ EnterPowerOfTwo
  BY <1>1, EntriesPreserve
<1>2. ASSUME NEW b \in Bands, Accumulate(b) PROVE IInv'
  BY <1>2, AccumulatePreserves
<1>3. CASE NextWindow \/ \E b \in Bands : Reduce(b) \/ NextBandWindow(b)
  BY <1>3, WindowStepsPreserve
<1>4. CASE Return
  BY <1>4 DEF Return, IInv, Shapes, WindowFits, SumsBounded, Delayed, MaxTerm, Bands
<1>5. CASE Finished \/ UNCHANGED vars
  BY <1>5 DEF Finished, vars, IInv, Shapes, WindowFits, SumsBounded, Delayed, MaxTerm, Bands
<1> QED BY <1>1, <1>2, <1>3, <1>4, <1>5 DEF Next

(* No delayed-reduction accumulator of the portable or the AVX512 kernel      *)
(* wraps: the clamps of chunk_rows, with the fallback for wide types and the  *)
(* assertion on the vector step, keep every window inside a u64.              *)
THEOREM AccumulatorsNeverOverflow == Spec => []NoOverflow
<1> QED BY InitInv, StepInv, InvImpliesNoOverflow, PTL DEF Spec

-----------------------------------------------------------------------------
(* The exact product.  Sums(c, col)[row] is what the first rows of a column   *)
(* contribute, as ScalarKernel computes it.                                   *)

Sums(c, col) ==
    LET sum[row \in 0..c.rows] ==
          IF row = 0 THEN 0
          ELSE (sum[row - 1] + c.query[row - 1] * c.db[col][row - 1]) % c.q
    IN  sum

Stop(t) == AtMost(t.start + chunk, call.rows)
Mine(b, col) == b * band <= col /\ col < (b + 1) * band

(* A column that is not added to holds what the caller left until it is       *)
(* written, in the only window there is.                                      *)
Filled(t, col) == Delayed \/ col < t.col \/ t.start = call.rows

(* The columns a band has passed in its window hold the product up to the end *)
(* of the window, the others up to its start; the accumulators hold the rest  *)
(* up to the row of the column being read.                                    *)
Exact(t, b, o) ==
    /\ t.start <= t.row /\ t.row <= Stop(t) /\ t.start <= call.rows
    /\ b * band <= t.col
    /\ \A col \in 0..(call.cols - 1) : Mine(b, col) =>
         /\ Filled(t, col) => o[col] = Sums(call, col)[IF col < t.col THEN Stop(t) ELSE t.start]
         /\ col = t.col => (Sums(call, col)[t.start] + (t.lo + t.hi * Limb)) % call.q = Sums(call, col)[t.row]
    /\ ~Delayed => t.hi = 0 /\ t.start \in {0, call.rows}

Plan ==
    /\ band > 0
    /\ ~Delayed => chunk = call.rows /\ (method = "scalar" \/ Word % call.q = 0)

EInv ==
    /\ out = [col \in 0..(call.cols - 1) |-> out[col]]
    /\ at = "running" => Plan /\ \A b \in Bands : Exact(task[b], b, out)
    /\ ProductExact
-----------------------------------------------------------------------------
(* The recursion of the reference product, for the first n rows. *)
IsSums(c, col, sum, n) == sum = [row \in 0..n |->
    IF row = 0 THEN 0 ELSE (sum[row - 1] + c.query[row - 1] * c.db[col][row - 1]) % c.q]

LEMMA SumsExist == ASSUME NEW c, NEW col PROVE \A n \in Nat : \E sum : IsSums(c, col, sum, n)
<1> DEFINE S == {n \in Nat : \E sum : IsSums(c, col, sum, n)}
<1>1. 0 \in S
  <2> DEFINE f == [row \in 0..0 |-> 0]
  <2>1. IsSums(c, col, f, 0)
    BY DEF IsSums
  <2> QED BY <2>1
<1>2. ASSUME NEW n \in Nat, n \in S PROVE n + 1 \in S
  <2>1. PICK f : IsSums(c, col, f, n)
    BY <1>2
  <2> DEFINE last == (f[n] + c.query[n] * c.db[col][n]) % c.q
             g == [row \in 0..(n + 1) |-> IF row = n + 1 THEN last ELSE f[row]]
  <2>2. /\ \A row \in 0..n : g[row] = f[row]
        /\ g[n + 1] = last
        /\ g = [row \in 0..(n + 1) |-> g[row]]
    OBVIOUS
  <2> HIDE DEF g
  <2>3. ASSUME NEW row \in 0..(n + 1)
        PROVE  g[row] = IF row = 0 THEN 0
                        ELSE (g[row - 1] + c.query[row - 1] * c.db[col][row - 1]) % c.q
    <3>1. CASE row = n + 1
      <4>1. row - 1 = n /\ row # 0 /\ n \in 0..n
        BY <3>1
      <4> QED BY <2>2, <3>1, <4>1
    <3>2. CASE row \in 0..n
      <4>1. f[row] = IF row = 0 THEN 0
                     ELSE (f[row - 1] + c.query[row - 1] * c.db[col][row - 1]) % c.q
        BY <2>1, <3>2 DEF IsSums
      <4>2. ASSUME row # 0 PROVE g[row - 1] = f[row - 1]
        <5>1. row - 1 \in 0..n
          BY <3>2, <4>2
        <5> QED BY <2>2, <5>1, Zenon
      <4> QED BY <2>2, <3>2, <4>1, <4>2
    <3> QED BY <3>1, <3>2
  <2>4. IsSums(c, col, g, n + 1)
    BY <2>2, <2>3, Zenon DEF IsSums
  <2> QED BY <2>4
<1> HIDE DEF S
<1>3. Nat \subseteq S
  BY <1>1, <1>2, SetInduction
<1> QED BY <1>3 DEF S

LEMMA SumsDef == ASSUME NEW c, NEW col, c.rows \in Nat PROVE IsSums(c, col, Sums(c, col), c.rows)
<1>1. \E sum : IsSums(c, col, sum, c.rows)
  BY SumsExist
<1> QED BY <1>1, Zenon DEF Sums, IsSums

LEMMA EntriesAreNat ==
    ASSUME NEW c \in Calls, NEW col \in 0..(c.cols - 1), NEW row \in 0..(c.rows - 1)
    PROVE  /\ c.query[row] \in 0..(Word - 1) /\ c.query[row] \in Nat
           /\ c.db[col][row] \in Nat /\ c.query[row] * c.db[col][row] \in Nat
<1>1. c.query[row] \in 0..(Word - 1)
  BY KernelConstants
<1>2. c.db[col] \in [0..(c.rows - 1) -> 0..c.element_max] /\ c.element_max \in Nat
  BY KernelConstants, CallFacts
<1>3. c.query[row] \in Nat
  BY <1>1, LimbIsNat
<1>4. c.db[col][row] \in 0..c.element_max
  BY <1>2
<1>5. c.db[col][row] \in Nat
  BY <1>2, <1>4
<1>6. \A m, n \in Nat : m * n \in Nat
  BY SMT
<1> QED BY <1>1, <1>3, <1>5, <1>6

LEMMA SumsFacts ==
    ASSUME NEW c \in Calls, NEW col \in 0..(c.cols - 1)
    PROVE  /\ Sums(c, col)[0] = 0
           /\ \A row \in 0..c.rows : Sums(c, col)[row] \in 0..(c.q - 1)
           /\ \A row \in 0..(c.rows - 1) :
                Sums(c, col)[row + 1] = (Sums(c, col)[row] + c.query[row] * c.db[col][row]) % c.q
           /\ Product(c, col) = Sums(c, col)[c.rows]
<1> DEFINE f == Sums(c, col)
           S == {n \in Nat : n <= c.rows => f[n] \in 0..(c.q - 1)}
<1>1. c.rows \in Nat /\ c.q \in Nat /\ c.q > 0
  BY CallFacts
<1>2. f = [row \in 0..c.rows |-> IF row = 0 THEN 0
             ELSE (f[row - 1] + c.query[row - 1] * c.db[col][row - 1]) % c.q]
  BY <1>1, SumsDef, Zenon DEF IsSums
<1> HIDE DEF f
<1>3. f[0] = 0
  BY <1>1, <1>2
<1>4. ASSUME NEW row \in 0..(c.rows - 1)
      PROVE  f[row + 1] = (f[row] + c.query[row] * c.db[col][row]) % c.q
  <2>1. row + 1 \in 0..c.rows /\ row + 1 # 0 /\ (row + 1) - 1 = row
    BY <1>1
  <2> QED BY <1>2, <2>1
<1>5. 0 \in S
  BY <1>1, <1>3
<1>6. ASSUME NEW n \in Nat, n \in S PROVE n + 1 \in S
  <2> SUFFICES ASSUME n + 1 <= c.rows PROVE f[n + 1] \in 0..(c.q - 1)
    OBVIOUS
  <2>1. n \in 0..(c.rows - 1) /\ f[n] \in Nat
    BY <1>1, <1>6
  <2>2. c.query[n] * c.db[col][n] \in Nat
    BY <2>1, EntriesAreNat
  <2>3. f[n] + c.query[n] * c.db[col][n] \in Nat
    BY <2>1, <2>2
  <2>4. (f[n] + c.query[n] * c.db[col][n]) % c.q \in 0..(c.q - 1)
    BY <1>1, <2>3, Divided
  <2> QED BY <1>4, <2>1, <2>4
<1> HIDE DEF S
<1>7. Nat \subseteq S
  BY <1>5, <1>6, SetInduction
<1>8. \A row \in 0..c.rows : f[row] \in 0..(c.q - 1)
  BY <1>1, <1>7 DEF S
<1>9. Product(c, col) = f[c.rows]
  BY Zenon DEF Product, Sums, f
<1> QED BY <1>3, <1>4, <1>8, <1>9 DEF f
-----------------------------------------------------------------------------
(* Bands: every column belongs to one. *)

LEMMA BandOfColumn ==
    ASSUME NEW n \in Nat, NEW w \in Nat, w > 0, NEW col \in 0..(n - 1)
    PROVE  \E b \in 0..(CeilDiv(n, w) - 1) : b * w <= col /\ col < (b + 1) * w
<1> DEFINE b == col \div w
           r == col % w
           d == (n + w - 1) \div w
           s == (n + w - 1) % w
<1>1. b \in Nat /\ r \in 0..(w - 1) /\ col = b * w + r
  BY Divided
<1>2. n + w - 1 \in Nat
  OBVIOUS
<1>3. d \in Nat /\ s \in 0..(w - 1) /\ n + w - 1 = d * w + s
  BY <1>2, Divided
<1> HIDE DEF b, r, d, s
<1>4. b * w \in Nat /\ (b + 1) * w = b * w + w
  BY <1>1, SMT
<1>5. b * w <= col /\ col < (b + 1) * w
  BY <1>1, <1>4
<1>6. ~ (d <= b)
  <2> SUFFICES ASSUME d <= b PROVE FALSE
    OBVIOUS
  <2>1. d * w <= b * w /\ d * w \in Nat
    BY <1>1, <1>3, ProductMonotone, SMT
  <2> QED BY <1>3, <1>4, <1>5, <2>1
<1>7. b \in 0..(CeilDiv(n, w) - 1)
  BY <1>1, <1>3, <1>6 DEF CeilDiv, d
<1> QED BY <1>5, <1>7

LEMMA BandsDisjoint ==
    ASSUME NEW a \in Nat, NEW b \in Nat, NEW w \in Nat, NEW col \in Nat,
           a * w <= col, col < (a + 1) * w, b * w <= col, col < (b + 1) * w
    PROVE  a = b
<1>1. ASSUME NEW m \in Nat, NEW n \in Nat, m < n, col < (m + 1) * w, n * w <= col PROVE FALSE
  <2>1. (m + 1) * w <= n * w
    BY <1>1, ProductMonotone
  <2>2. (m + 1) * w \in Nat /\ n * w \in Nat
    BY SMT
  <2> QED BY <1>1, <2>1, <2>2
<1>2. ~ (a < b) /\ ~ (b < a)
  BY <1>1
<1> QED BY <1>2

(* The accumulators of a fresh task add nothing. *)
LEMMA FreshSums ==
    ASSUME NEW c \in Calls, NEW col \in 0..(c.cols - 1), NEW start \in 0..c.rows
    PROVE  (Sums(c, col)[start] + (0 + 0 * Limb)) % c.q = Sums(c, col)[start]
<1>1. Sums(c, col)[start] \in 0..(c.q - 1) /\ c.q \in Nat
  BY SumsFacts, CallFacts
<1>2. 0 + 0 * Limb = 0
  BY LimbIsNat
<1>3. Sums(c, col)[start] + (0 + 0 * Limb) = Sums(c, col)[start]
  BY <1>1, <1>2
<1> QED BY <1>1, <1>3, ModSmall

LEMMA BandColsPositive == ASSUME NEW c \in Calls PROVE band_cols(c) > 0
<1>1. \A x, y \in Nat : x > 0 /\ y > 0 => CeilDiv(x, y) \in Nat /\ CeilDiv(x, y) > 0
  <2> SUFFICES ASSUME NEW x \in Nat, NEW y \in Nat, x > 0, y > 0
               PROVE  CeilDiv(x, y) \in Nat /\ CeilDiv(x, y) > 0
    OBVIOUS
  <2>1. PICK b \in 0..(CeilDiv(x, y) - 1) : TRUE
    BY BandOfColumn
  <2>2. x + y - 1 \in Nat
    OBVIOUS
  <2>3. CeilDiv(x, y) \in Nat
    BY <2>2, DivTimes DEF CeilDiv
  <2> QED BY <2>1, <2>3
<1>2. /\ BandItems \in Nat /\ BandItems > 0 /\ Threads \in Nat /\ Threads > 0
      /\ c.rows \in Nat /\ c.rows > 0 /\ c.cols \in Nat /\ c.cols > 0
  BY CallFacts, KernelConstants
<1>3. /\ CeilDiv(BandItems, c.rows) \in Nat /\ CeilDiv(BandItems, c.rows) > 0
      /\ CeilDiv(c.cols, Threads) \in Nat /\ CeilDiv(c.cols, Threads) > 0
  BY <1>1, <1>2
<1> QED BY <1>2, <1>3 DEF band_cols, AtMost

LEMMA BandFacts ==
    ASSUME Shapes, NEW b \in Bands
    PROVE  /\ b \in Nat /\ b * band \in Nat /\ (b + 1) * band \in Nat /\ First(b) = b * band
           /\ task[b] \in Task /\ task[b].start \in Nat /\ task[b].row \in Nat /\ task[b].col \in Nat
           /\ task[b].lo \in Nat /\ task[b].hi \in Nat
           /\ RowEnd(b) = Stop(task[b])
           /\ \A col \in 0..(call.cols - 1) : col < End(b) <=> col < (b + 1) * band
           /\ End(b) \in Nat /\ End(b) <= call.cols
<1>1. b \in Nat /\ band \in Nat /\ task[b] \in Task /\ call.cols \in Nat
  BY CallFacts DEF Shapes, Bands
<1>2. \A m, n \in Nat : m * n \in Nat
  BY SMT
<1>3. b + 1 \in Nat /\ b * band \in Nat
  BY <1>1, <1>2
<1> DEFINE edge == (b + 1) * band
<1>4. edge \in Nat
  BY <1>1, <1>2, <1>3
<1>5. End(b) = AtMost(edge, call.cols)
  BY DEF End
<1> HIDE DEF edge
<1>6. /\ \A col \in 0..(call.cols - 1) : col < End(b) <=> col < edge
      /\ End(b) \in Nat /\ End(b) <= call.cols
  BY <1>1, <1>4, <1>5 DEF AtMost
<1> QED BY <1>1, <1>3, <1>4, <1>6 DEF edge, First, RowEnd, Stop, Task

LEMMA StopFacts ==
    ASSUME call \in Calls, chunk \in Nat, NEW t, t.start \in Nat, t.start <= call.rows
    PROVE  Stop(t) \in 0..call.rows /\ t.start <= Stop(t) /\ t.start \in 0..call.rows
<1>1. call.rows \in Nat
  BY CallFacts
<1> QED BY <1>1 DEF Stop, AtMost

(* What is left to show for a step inside a call. *)
LEMMA RunningStep ==
    ASSUME EInv, at = "running", UNCHANGED <<at, call, method, chunk, band>>,
           out' = [col \in 0..(call.cols - 1) |-> out'[col]],
           \A b \in Bands : Exact(task'[b], b, out')
    PROVE  EInv'
<1>1. Bands' = Bands /\ Plan'
  BY DEF Bands, EInv, Plan, Delayed
<1>2. \A b \in Bands : Exact(task[b], b, out)'
  BY DEF Exact, Filled, Stop, Mine, Delayed
<1>3. ProductExact' /\ at' # "idle"
  BY DEF ProductExact
<1> QED BY <1>1, <1>2, <1>3 DEF EInv

LEMMA ExactRun ==
    ASSUME Shapes, EInv, at = "idle", NEW how, NEW window \in Nat, NEW columns \in Nat, columns > 0,
           Run(how, window, columns),
           how \notin {"split", "vector"} => window = call.rows /\ (how = "scalar" \/ Word % call.q = 0)
    PROVE  EInv'
<1>1. /\ call' = call /\ call \in Calls /\ chunk' = window /\ band' = columns
      /\ at' = "running" /\ method' = how
      /\ out' = [col \in 0..(call.cols - 1) |-> out'[col]]
      /\ how \in {"split", "vector"} => \A col \in 0..(call.cols - 1) : out'[col] = 0
  BY DEF Run, Shapes, EInv
<1>2. Bands' = 0..(CeilDiv(call.cols, columns) - 1)
  BY <1>1 DEF Bands
<1>3. task' = [b \in Bands' |-> Fresh(0, b * columns)]
  BY <1>2 DEF Run
<1>4. Plan'
  BY <1>1 DEF Plan, Delayed
<1>5. call.rows \in Nat /\ 0 \in 0..call.rows
  BY <1>1, CallFacts
<1>6. ASSUME NEW b \in Bands' PROVE Exact(task[b], b, out)'
  <2>1. b * columns \in Nat
    BY <1>2, BandStartNat
  <2>2. /\ task'[b].start = 0 /\ task'[b].row = 0 /\ task'[b].col = b * columns
        /\ task'[b].lo = 0 /\ task'[b].hi = 0
    BY <1>3 DEF Fresh
  <2>3. Stop(task[b])' >= 0
    BY <1>1, <1>5, <2>2 DEF Stop, AtMost
  <2>4. ASSUME NEW col \in 0..(call.cols - 1), b * columns <= col
        PROVE  /\ Delayed' => out'[col] = Sums(call, col)[0]
               /\ ~ (col < b * columns) /\ ~ (col < task'[b].col) /\ call.rows # 0
               /\ (Sums(call, col)[0] + (0 + 0 * Limb)) % call.q = Sums(call, col)[0]
    <3>1. Delayed' => out'[col] = 0
      BY <1>1 DEF Delayed
    <3>2. /\ Sums(call, col)[0] = 0
          /\ (Sums(call, col)[0] + (0 + 0 * Limb)) % call.q = Sums(call, col)[0]
      BY <1>1, <1>5, <2>4, SumsFacts, FreshSums
    <3>3. ~ (col < b * columns) /\ call.rows # 0
      BY <1>1, <2>1, <2>4, CallFacts
    <3> QED BY <2>2, <3>1, <3>2, <3>3
  <2>5. \A col \in 0..(call.cols - 1) : Mine(b, col)' =>
          /\ Filled(task[b], col)' =>
               out'[col] = Sums(call, col)[IF col < task'[b].col THEN Stop(task[b])' ELSE task'[b].start]
          /\ (Sums(call, col)[task'[b].start] + (task'[b].lo + task'[b].hi * Limb)) % call.q
                = Sums(call, col)[task'[b].row]
    BY <1>1, <2>2, <2>4 DEF Mine, Filled
  <2> QED BY <1>1, <1>5, <2>1, <2>2, <2>3, <2>5 DEF Exact
<1>7. ProductExact' /\ at' # "idle"
  BY <1>1 DEF ProductExact
<1> QED BY <1>1, <1>4, <1>6, <1>7 DEF EInv
LEMMA ExactEntries ==
    ASSUME Shapes, EInv, EnterChunked \/ EnterVector \/ EnterPowerOfTwo
    PROVE  EInv'
<1>0. /\ call \in Calls /\ call.rows \in Nat /\ call.cols \in Nat /\ call.cols > 0
      /\ band_cols(call) \in Nat /\ band_cols(call) > 0
  BY CallFacts, BandColsNat, BandColsPositive DEF Shapes
<1>1. ASSUME Fail PROVE EInv'
  BY <1>1 DEF Fail, EInv, ProductExact
<1>2. CASE EnterChunked
  <2>1. CASE needs_wide_products(call)
    BY <1>0, <1>2, <2>1, ExactRun DEF EnterChunked
  <2>2. CASE ~ needs_wide_products(call)
    BY <1>0, <1>2, <2>2, ChunkedFits, ExactRun DEF EnterChunked
  <2> QED BY <2>1, <2>2
<1>3. CASE EnterVector
  BY <1>0, <1>1, <1>3, VectorFits, ExactRun DEF EnterVector
<1>4. CASE EnterPowerOfTwo
  BY <1>0, <1>1, <1>4, ExactRun DEF EnterPowerOfTwo, IsPowerOfTwo
<1> QED BY <1>2, <1>3, <1>4

(* Where an active task stands. *)
LEMMA ActiveFacts ==
    ASSUME Shapes, EInv, NEW b \in Bands, Active(b)
    PROVE  /\ task[b].col \in 0..(call.cols - 1) /\ Mine(b, task[b].col)
           /\ Exact(task[b], b, out) /\ task[b].start \in 0..(call.rows - 1)
           /\ Plan /\ RowEnd(b) \in 0..call.rows
<1>1. at = "running" /\ task[b].start < call.rows /\ task[b].col < End(b)
  BY DEF Active
<1>2. Plan /\ Exact(task[b], b, out)
  BY <1>1 DEF EInv
<1>3. call.cols \in Nat /\ call.rows \in Nat /\ call \in Calls /\ chunk \in Nat
  BY CallFacts DEF Shapes
<1>4. task[b].col \in 0..(call.cols - 1)
  BY <1>1, <1>3, BandFacts
<1>5. Mine(b, task[b].col)
  BY <1>1, <1>2, <1>4, BandFacts DEF Mine, Exact
<1>6. task[b].start \in 0..(call.rows - 1)
  BY <1>1, <1>3, BandFacts
<1>7. RowEnd(b) \in 0..call.rows
  BY <1>2, <1>3, <1>6, StopFacts, BandFacts
<1> QED BY <1>2, <1>4, <1>5, <1>6, <1>7

(* One row of a window, split into limbs without overflow or reduced at once. *)
LEMMA RowExact ==
    ASSUME NEW lo \in Nat, NEW hi \in Nat, NEW x \in Nat, NEW v \in Nat
    PROVE  /\ (lo + (x % Limb) * v) + (hi + (x \div Limb) * v) * Limb = (lo + hi * Limb) + x * v
           /\ (x % Limb) * v \in Nat /\ (x \div Limb) * v \in Nat
<1> DEFINE r == x % Limb
           d == x \div Limb
<1>1. r \in Nat /\ d \in Nat /\ x = d * Limb + r
  BY LimbIsNat, Divided
<1> HIDE DEF r, d
<1>2. x * v = (d * Limb) * v + r * v
  BY <1>1, LimbIsNat, SMT
<1>3. (hi + d * v) * Limb = hi * Limb + (d * Limb) * v
  BY <1>1, LimbIsNat, SMT
<1>4. \A m, n \in Nat : m * n \in Nat
  BY SMT
<1>5. d * Limb \in Nat
  BY <1>1, <1>4, LimbIsNat
<1>6. r * v \in Nat /\ d * v \in Nat /\ hi * Limb \in Nat /\ (d * Limb) * v \in Nat
  BY <1>1, <1>4, <1>5, LimbIsNat
<1>7. (lo + r * v) + (hi + d * v) * Limb = (lo + hi * Limb) + x * v
  BY <1>2, <1>3, <1>6
<1> QED BY <1>6, <1>7 DEF r, d

LEMMA ExactAccumulate == ASSUME IInv, EInv, NEW b \in Bands, Accumulate(b) PROVE EInv'
<1>1. /\ UNCHANGED <<at, call, method, chunk, band, out>> /\ at = "running"
      /\ Active(b) /\ task[b].row < RowEnd(b)
  BY DEF Accumulate, Active
<1>2. Shapes /\ call \in Calls /\ task \in [Bands -> Task]
  BY DEF IInv, Shapes
<1>3. /\ task[b].col \in 0..(call.cols - 1) /\ Mine(b, task[b].col)
      /\ Exact(task[b], b, out) /\ task[b].start \in 0..(call.rows - 1) /\ Plan
      /\ RowEnd(b) \in 0..call.rows
  BY <1>1, <1>2, ActiveFacts
<1>4. /\ task[b].start \in Nat /\ task[b].row \in Nat /\ task[b].lo \in Nat /\ task[b].hi \in Nat
      /\ RowEnd(b) = Stop(task[b]) /\ call.rows \in Nat /\ call.q \in Nat /\ call.q > 0
  BY <1>2, BandFacts, CallFacts
<1>5. task[b].row \in 0..(call.rows - 1)
  BY <1>1, <1>3, <1>4
<1> DEFINE f == Sums(call, task[b].col)
           x == call.query[task[b].row]
           v == call.db[task[b].col][task[b].row]
           base == f[task[b].start]
           m == IF method = "scalar" THEN call.q ELSE Word
           lo == (task[b].lo + LoTerm(b)) % m
           hi == (task[b].hi + HiTerm(b)) % Word
           t == [start |-> task[b].start, col |-> task[b].col, row |-> task[b].row + 1,
                 lo |-> lo, hi |-> hi]
<1>6. task' = [task EXCEPT ![b] = t]
  BY DEF Accumulate
<1>7. x \in 0..(Word - 1) /\ x \in Nat /\ v \in Nat /\ x * v \in Nat
  BY <1>2, <1>3, <1>5, EntriesAreNat
<1>8. /\ base \in Nat /\ f[task[b].row] \in Nat
      /\ f[task[b].row + 1] = (f[task[b].row] + x * v) % call.q
      /\ f[0] = 0
  BY <1>2, <1>3, <1>4, <1>5, SumsFacts
<1>9. (base + (task[b].lo + task[b].hi * Limb)) % call.q = f[task[b].row]
  BY <1>3 DEF Exact
<1>10. LoTerm(b) = IF Delayed THEN (x % Limb) * v ELSE x * v
  BY DEF LoTerm, Delayed
<1>11. HiTerm(b) = IF Delayed THEN (x \div Limb) * v ELSE 0
  BY DEF HiTerm, Delayed
<1> HIDE DEF f, x, v, base
<1>12. task[b].hi * Limb \in Nat
  BY <1>4, LimbIsNat, SMT
<1>13. (base + ((task[b].lo + task[b].hi * Limb) + x * v)) % call.q = f[task[b].row + 1]
  <2> DEFINE held == base + (task[b].lo + task[b].hi * Limb)
  <2>1. held \in Nat
    BY <1>4, <1>8, <1>12
  <2>2. held % call.q = f[task[b].row]
    BY <1>9
  <2>3. base + ((task[b].lo + task[b].hi * Limb) + x * v) = held + x * v
    BY <1>4, <1>7, <1>8, <1>12
  <2> HIDE DEF held
  <2>4. ((held % call.q) + x * v) % call.q = (held + x * v) % call.q
    <3> DEFINE n == x * v
    <3>1. n \in Nat /\ call.q \in Nat /\ call.q > 0
      BY <1>4, <1>7
    <3> HIDE DEF n
    <3>2. ((held % call.q) + n) % call.q = (held + n) % call.q
      BY <2>1, <3>1, ModAdd
    <3> QED BY <3>2 DEF n
  <2> QED BY <1>8, <2>2, <2>3, <2>4
<1>14. (base + (lo + hi * Limb)) % call.q = f[task[b].row + 1] /\ (~Delayed => hi = 0)
  <2>1. CASE Delayed
    <3>1. task[b].lo + LoTerm(b) < Word /\ task[b].hi + HiTerm(b) < Word
      BY <1>1, <2>1, InvImpliesNoOverflow DEF NoOverflow, Delayed
    <3>2. LoTerm(b) \in Nat /\ HiTerm(b) \in Nat
      BY <1>4, <1>7, <1>10, <1>11, <2>1, RowExact
    <3>3. task[b].lo + LoTerm(b) \in 0..(Word - 1) /\ task[b].hi + HiTerm(b) \in 0..(Word - 1)
      BY <1>4, <3>1, <3>2, LimbIsNat
    <3>4. m = Word
      BY <2>1 DEF Delayed
    <3> HIDE DEF m
    <3>5. lo = task[b].lo + LoTerm(b) /\ hi = task[b].hi + HiTerm(b)
      BY <3>3, <3>4, LimbIsNat, ModSmall
    <3> HIDE DEF lo, hi
    <3>6. lo + hi * Limb = (task[b].lo + task[b].hi * Limb) + x * v
      <4>1. lo = task[b].lo + (x % Limb) * v /\ hi = task[b].hi + (x \div Limb) * v
        BY <1>10, <1>11, <2>1, <3>5
      <4>2. (task[b].lo + (x % Limb) * v) + (task[b].hi + (x \div Limb) * v) * Limb
              = (task[b].lo + task[b].hi * Limb) + x * v
        <5>1. x \in Nat /\ v \in Nat /\ task[b].lo \in Nat /\ task[b].hi \in Nat
          BY <1>4, <1>7
        <5>2. \A l, u \in Nat : (l + (x % Limb) * v) + (u + (x \div Limb) * v) * Limb
                                  = (l + u * Limb) + x * v
          <6> TAKE l, u \in Nat
          <6> QED BY <5>1, RowExact, SMTT(30)
        <5> QED BY <5>1, <5>2, Zenon
      <4> QED BY <4>1, <4>2, Zenon
    <3> QED BY <1>13, <2>1, <3>6
  <2>2. CASE ~Delayed
    <3>1. task[b].hi = 0 /\ task[b].start = 0 /\ (method = "scalar" \/ Word % call.q = 0)
      BY <1>3, <1>4, <2>2 DEF Exact, Plan
    <3>2. base = 0
      BY <1>8, <3>1 DEF base
    <3>3. hi = 0
      <4>1. 0 \in 0..(Word - 1)
        BY LimbIsNat
      <4>2. 0 % Word = 0
        BY <4>1, LimbIsNat, ModSmall
      <4> QED BY <1>11, <2>2, <3>1, <4>2
    <3>4. m \in Nat /\ m > 0 /\ m % call.q = 0
      <4>1. (1 * call.q + 0) % call.q = 0 /\ 1 * call.q + 0 = call.q
        BY <1>4, ModUnique
      <4> QED BY <1>4, <3>1, <4>1, LimbIsNat
    <3>5. lo = (task[b].lo + x * v) % m /\ task[b].lo + x * v \in Nat
      BY <1>4, <1>7, <1>10, <2>2
    <3> HIDE DEF m
    <3> HIDE DEF lo, hi
    <3>6. lo % call.q = (task[b].lo + x * v) % call.q /\ lo \in Nat
      <4> DEFINE sum == task[b].lo + x * v
      <4>1. lo = sum % m /\ sum \in Nat
        BY <3>5
      <4> HIDE DEF sum
      <4>2. sum % m \in Nat
        BY <3>4, <4>1, DivTimes
      <4>3. (sum % m) % call.q = sum % call.q
        BY <1>4, <3>4, <4>1, ModOfMultiple
      <4> QED BY <4>1, <4>2, <4>3 DEF sum
    <3>7. 0 * Limb = 0
      BY LimbIsNat
    <3>8. base + (lo + hi * Limb) = lo
      BY <3>2, <3>3, <3>6, <3>7
    <3>9. base + ((task[b].lo + task[b].hi * Limb) + x * v) = task[b].lo + x * v
      BY <1>4, <1>7, <3>1, <3>2, <3>7
    <3> QED BY <1>13, <3>3, <3>6, <3>8, <3>9
  <2> QED BY <2>1, <2>2
<1> HIDE DEF lo, hi, m
<1>15. Exact(t, b, out)
  <2>1. /\ t.start = task[b].start /\ t.col = task[b].col /\ t.row = task[b].row + 1
        /\ t.lo = lo /\ t.hi = hi
    OBVIOUS
  <2> HIDE DEF t
  <2>2. Stop(t) = Stop(task[b])
    BY <2>1 DEF Stop
  <2>3. t.start <= t.row /\ t.row <= Stop(t) /\ t.start <= call.rows /\ b * band <= t.col
    BY <1>1, <1>3, <1>4, <2>1, <2>2 DEF Exact
  <2>4. ASSUME NEW col \in 0..(call.cols - 1), Mine(b, col)
        PROVE  /\ Filled(t, col) => out[col] = Sums(call, col)[IF col < t.col THEN Stop(t) ELSE t.start]
               /\ col = t.col =>
                    (Sums(call, col)[t.start] + (t.lo + t.hi * Limb)) % call.q = Sums(call, col)[t.row]
    <3>1. Filled(t, col) => out[col] = Sums(call, col)[IF col < t.col THEN Stop(t) ELSE t.start]
      BY <1>3, <2>1, <2>2, <2>4 DEF Exact, Filled
    <3>2. (f[task[b].start] + (lo + hi * Limb)) % call.q = f[task[b].row + 1]
      BY <1>14 DEF base
    <3> QED BY <2>1, <3>1, <3>2 DEF f
  <2>5. ~Delayed => t.hi = 0 /\ t.start \in {0, call.rows}
    BY <1>3, <1>14, <2>1 DEF Exact
  <2> QED BY <2>3, <2>4, <2>5 DEF Exact
<1> HIDE DEF t
<1>16. \A a \in Bands : Exact(task'[a], a, out')
  BY <1>1, <1>2, <1>6, <1>15 DEF EInv
<1> QED BY <1>1, <1>16, RunningStep DEF EInv
LEMMA ExactReduce == ASSUME IInv, EInv, NEW b \in Bands, Reduce(b) PROVE EInv'
<1>1. /\ UNCHANGED <<at, call, method, chunk, band>> /\ at = "running"
      /\ Active(b) /\ task[b].row = RowEnd(b)
  BY DEF Reduce, Active
<1>2. Shapes /\ call \in Calls /\ task \in [Bands -> Task]
  BY DEF IInv, Shapes
<1>3. /\ task[b].col \in 0..(call.cols - 1) /\ Mine(b, task[b].col)
      /\ Exact(task[b], b, out) /\ task[b].start \in 0..(call.rows - 1) /\ Plan
      /\ RowEnd(b) \in 0..call.rows
  BY <1>1, <1>2, ActiveFacts
<1>4. /\ task[b].start \in Nat /\ task[b].col \in Nat /\ task[b].lo \in Nat /\ task[b].hi \in Nat
      /\ RowEnd(b) = Stop(task[b]) /\ call.rows \in Nat /\ call.q \in Nat /\ call.q > 0
      /\ call.cols \in Nat
  BY <1>2, BandFacts, CallFacts
<1> DEFINE place == task[b].col
           f == Sums(call, place)
           sum == task[b].lo + task[b].hi * Limb
           t == Fresh(task[b].start, place + 1)
<1>5. out' = [out EXCEPT ![place] = Reduced(b, out[place])] /\ task' = [task EXCEPT ![b] = t]
  BY DEF Reduce, EInv
<1>6. out = [col \in 0..(call.cols - 1) |-> out[col]]
  BY DEF EInv
<1>7. /\ \A col \in 0..(call.cols - 1) : out'[col] = IF col = place THEN Reduced(b, out[place]) ELSE out[col]
      /\ out' = [col \in 0..(call.cols - 1) |-> out'[col]]
  BY <1>5, <1>6
<1>8. (f[task[b].start] + sum) % call.q = f[task[b].row] /\ (Delayed => out[place] = f[task[b].start])
  <2>1. ~ (place < task[b].col)
    BY <1>4
  <2> QED BY <1>3, <2>1 DEF Exact, Filled
<1>9. f[task[b].start] \in 0..(call.q - 1) /\ f[0] = 0
  BY <1>2, <1>3, <1>4, SumsFacts
<1>10. sum \in Nat
  <2>1. task[b].hi * Limb \in Nat
    BY <1>4, LimbIsNat, SMT
  <2> QED BY <1>4, <2>1
<1>11. Reduced(b, out[place]) = f[Stop(task[b])]
  <2>0. f[task[b].row] = f[Stop(task[b])]
    BY <1>1, <1>4
  <2>1. CASE Delayed
    <3>1. Reduced(b, out[place]) = add_mod(f[task[b].start], sum % call.q, call.q)
      BY <1>8, <2>1 DEF Reduced, Delayed
    <3> DEFINE u == f[task[b].start]
               r == sum % call.q
    <3>2. u \in 0..(call.q - 1) /\ u \in Nat
      BY <1>4, <1>9
    <3> HIDE DEF sum, u
    <3>3. r \in 0..(call.q - 1)
      BY <1>4, <1>10, Divided
    <3>4. (r + u) % call.q = (u + sum) % call.q
      <4>1. (r + u) % call.q = (sum + u) % call.q
        BY <1>4, <1>10, <3>2, ModAdd
      <4>2. sum + u = u + sum
        BY <1>10, <3>2
      <4> QED BY <4>1, <4>2
    <3> HIDE DEF r
    <3>5. add_mod(u, r, call.q) = (r + u) % call.q
      <4>1. CASE u + r < call.q
        <5>1. add_mod(u, r, call.q) = r + u /\ r + u \in 0..(call.q - 1)
          BY <1>4, <3>2, <3>3, <4>1 DEF add_mod
        <5> QED BY <1>4, <5>1, ModSmall
      <4>2. CASE ~ (u + r < call.q)
        <5>1. add_mod(u, r, call.q) = u + r - call.q /\ u + r - call.q \in 0..(call.q - 1)
          BY <1>4, <3>2, <3>3, <4>2 DEF add_mod
        <5>2. r + u = 1 * call.q + (u + r - call.q)
          BY <1>4, <3>2, <3>3
        <5>3. (1 * call.q + (u + r - call.q)) % call.q = u + r - call.q
          BY <1>4, <5>1, ModUnique
        <5> QED BY <5>1, <5>2, <5>3
      <4> QED BY <4>1, <4>2
    <3> QED BY <1>8, <2>0, <3>1, <3>4, <3>5 DEF u, r
  <2>2. CASE ~Delayed
    <3>1. task[b].hi = 0 /\ task[b].start = 0
      BY <1>3, <1>4, <2>2 DEF Exact
    <3>2. f[task[b].start] + sum = task[b].lo
      BY <1>4, <1>9, <3>1, LimbIsNat
    <3>3. Reduced(b, out[place]) = task[b].lo % call.q
      BY <2>2 DEF Reduced, Delayed
    <3> QED BY <1>8, <2>0, <3>2, <3>3
  <2> QED BY <2>1, <2>2
<1>12. /\ t.start = task[b].start /\ t.row = task[b].start /\ t.col = place + 1
       /\ t.lo = 0 /\ t.hi = 0
  BY DEF Fresh
<1> HIDE DEF sum, t
<1>13. Exact(t, b, out')
  <2>1. Stop(t) = Stop(task[b])
    BY <1>12 DEF Stop
  <2>2. t.start <= t.row /\ t.row <= Stop(t) /\ t.start <= call.rows /\ b * band <= t.col
    <3>1. b \in Nat /\ b * band \in Nat /\ b * band <= place /\ task[b].start <= Stop(task[b])
      BY <1>2, <1>3, <1>4, StopFacts, BandFacts DEF Exact, Mine, Shapes
    <3> QED BY <1>3, <1>4, <1>12, <2>1, <3>1
  <2>3. ASSUME NEW col \in 0..(call.cols - 1), Mine(b, col)
        PROVE  /\ Filled(t, col) => out'[col] = Sums(call, col)[IF col < t.col THEN Stop(t) ELSE t.start]
               /\ (Sums(call, col)[t.start] + (t.lo + t.hi * Limb)) % call.q = Sums(call, col)[t.row]
    <3>1. t.start \in 0..call.rows
      BY <1>3, <1>4, <1>12
    <3>2. (Sums(call, col)[t.start] + (t.lo + t.hi * Limb)) % call.q = Sums(call, col)[t.row]
      BY <1>2, <1>12, <3>1, FreshSums
    <3>3. CASE col = place
      <4>1. col < t.col
        BY <1>4, <1>12, <3>3
      <4> QED BY <1>7, <1>11, <2>1, <3>2, <3>3, <4>1
    <3>4. CASE col # place
      <4>1. col < t.col <=> col < task[b].col
        BY <1>4, <1>12, <3>4
      <4>2. Filled(t, col) =>
              out[col] = Sums(call, col)[IF col < task[b].col THEN Stop(task[b]) ELSE task[b].start]
        BY <1>3, <1>12, <2>3, <4>1 DEF Exact, Filled
      <4> QED BY <1>7, <1>12, <2>1, <3>2, <3>4, <4>1, <4>2
    <3> QED BY <3>3, <3>4
  <2>4. ~Delayed => t.hi = 0 /\ t.start \in {0, call.rows}
    BY <1>3, <1>12 DEF Exact
  <2> QED BY <2>2, <2>3, <2>4 DEF Exact
<1>14. ASSUME NEW a \in Bands, a # b PROVE Exact(task[a], a, out')
  <2>1. Exact(task[a], a, out)
    BY <1>1 DEF EInv
  <2>2. ASSUME NEW col \in 0..(call.cols - 1), Mine(a, col) PROVE out'[col] = out[col]
    <3>1. a \in Nat /\ b \in Nat /\ band \in Nat /\ col \in Nat
      BY <1>2, BandFacts DEF Shapes
    <3>2. col # place
      BY <1>3, <1>14, <2>2, <3>1, BandsDisjoint DEF Mine
    <3> QED BY <1>7, <3>2
  <2> QED BY <2>1, <2>2 DEF Exact, Filled
<1>15. \A a \in Bands : Exact(task'[a], a, out')
  BY <1>2, <1>5, <1>13, <1>14
<1> QED BY <1>1, <1>7, <1>15, RunningStep

(* A band that has ended its window starts the next one. *)
LEMMA NextWindowExact ==
    ASSUME Shapes, EInv, at = "running", NEW b \in Bands, WindowDone(b)
    PROVE  Exact(Fresh(RowEnd(b), First(b)), b, out)
<1> DEFINE t == Fresh(RowEnd(b), First(b))
<1>1. /\ t.start = Stop(task[b]) /\ t.row = Stop(task[b]) /\ t.col = b * band
      /\ t.lo = 0 /\ t.hi = 0
  BY BandFacts DEF Fresh
<1>2. Exact(task[b], b, out) /\ Plan
  BY DEF EInv
<1>3. /\ call \in Calls /\ chunk \in Nat /\ task[b].start \in Nat /\ b * band \in Nat
      /\ call.rows \in Nat /\ call.cols \in Nat
  BY BandFacts, CallFacts DEF Shapes
<1>4. Stop(task[b]) \in 0..call.rows
  BY <1>2, <1>3, StopFacts DEF Exact
<1> HIDE DEF t
<1>5. t.start <= t.row /\ t.row <= Stop(t) /\ t.start <= call.rows /\ b * band <= t.col
  BY <1>1, <1>3, <1>4, StopFacts
<1>6. ASSUME NEW col \in 0..(call.cols - 1), Mine(b, col)
      PROVE  /\ out[col] = Sums(call, col)[IF col < t.col THEN Stop(t) ELSE t.start]
             /\ (Sums(call, col)[t.start] + (t.lo + t.hi * Limb)) % call.q = Sums(call, col)[t.row]
  <2>1. col < task[b].col
    BY <1>6, BandFacts DEF WindowDone, Mine
  <2>2. out[col] = Sums(call, col)[Stop(task[b])]
    BY <1>2, <1>6, <2>1 DEF Exact, Filled
  <2>3. ~ (col < t.col)
    BY <1>1, <1>3, <1>6 DEF Mine
  <2>4. (Sums(call, col)[t.start] + (t.lo + t.hi * Limb)) % call.q = Sums(call, col)[t.row]
    BY <1>1, <1>3, <1>4, FreshSums
  <2> QED BY <1>1, <2>2, <2>3, <2>4
<1>7. ~Delayed => t.hi = 0 /\ t.start \in {0, call.rows}
  <2>1. ~Delayed => Stop(task[b]) = call.rows
    BY <1>2, <1>3 DEF Plan, Stop, AtMost
  <2> QED BY <1>1, <2>1
<1>8. Exact(t, b, out)
  BY <1>5, <1>6, <1>7 DEF Exact
<1> QED BY <1>8 DEF t

LEMMA ExactStep == ASSUME IInv, EInv, [Next]_vars PROVE EInv'
<1>0. Shapes /\ task \in [Bands -> Task]
  BY DEF IInv, Shapes
<1>1. CASE EnterChunked \/ EnterVector \/ EnterPowerOfTwo
  BY <1>0, <1>1, ExactEntries
<1>2. ASSUME NEW b \in Bands, Accumulate(b) PROVE EInv'
  BY <1>2, ExactAccumulate
<1>3. ASSUME NEW b \in Bands, Reduce(b) PROVE EInv'
  BY <1>3, ExactReduce
<1>4. CASE NextWindow
  <2>1. \A b \in Bands : Exact(task'[b], b, out')
    BY <1>0, <1>4, NextWindowExact DEF NextWindow
  <2> QED BY <1>4, <2>1, RunningStep DEF NextWindow, EInv
<1>5. ASSUME NEW b \in Bands, NextBandWindow(b) PROVE EInv'
  <2>1. /\ at = "running" /\ WindowDone(b) /\ UNCHANGED <<at, call, method, chunk, band, out>>
        /\ task' = [task EXCEPT ![b] = Fresh(RowEnd(b), First(b))]
    BY <1>5 DEF NextBandWindow
  <2>2. Exact(Fresh(RowEnd(b), First(b)), b, out)
    BY <1>0, <2>1, NextWindowExact
  <2>3. \A a \in Bands : Exact(task'[a], a, out')
    BY <1>0, <2>1, <2>2 DEF EInv
  <2> QED BY <2>1, <2>3, RunningStep DEF EInv
<1>6. CASE Return
  <2>1. /\ at = "running" /\ at' = "returned" /\ UNCHANGED <<call, out>>
        /\ \A b \in Bands : task[b].start >= call.rows
    BY <1>6 DEF Return
  <2>2. call \in Calls /\ call.rows \in Nat /\ call.cols \in Nat /\ band \in Nat /\ chunk \in Nat /\ band > 0
    BY <1>0, <2>1, CallFacts DEF Shapes, EInv, Plan
  <2>3. ASSUME NEW col \in 0..(call.cols - 1) PROVE out[col] = Product(call, col)
    <3>1. PICK b \in Bands : Mine(b, col)
      BY <2>2, BandOfColumn DEF Bands, Mine
    <3>2. Exact(task[b], b, out) /\ task[b].start \in Nat
      BY <1>0, <2>1, BandFacts DEF EInv
    <3>3. task[b].start = call.rows /\ Stop(task[b]) = call.rows
      BY <2>1, <2>2, <3>2 DEF Exact, Stop, AtMost
    <3>4. out[col] = Sums(call, col)[call.rows]
      BY <3>1, <3>2, <3>3 DEF Exact, Filled
    <3> QED BY <2>2, <3>4, SumsFacts
  <2> QED BY <2>1, <2>3 DEF EInv, ProductExact
<1>7. CASE Finished \/ UNCHANGED vars
  <2>1. UNCHANGED <<at, call, method, chunk, band, task, out>>
    BY <1>7 DEF Finished, vars
  <2>2. CASE at = "running"
    BY <2>1, <2>2, RunningStep DEF EInv
  <2>3. CASE at # "running"
    BY <2>1, <2>3 DEF EInv, ProductExact
  <2> QED BY <2>2, <2>3
<1> QED BY <1>1, <1>2, <1>3, <1>4, <1>5, <1>6, <1>7 DEF Next

LEMMA ExactInit == Init => EInv
  BY DEF Init, EInv, ProductExact

(* Whatever kernel is called, with whatever window, band width and order of   *)
(* the tasks, a call that returns has written the product modulo q of every   *)
(* column; the limbs are recombined, the windows added up and power-of-two    *)
(* moduli left to wrapping arithmetic without losing a term.                  *)
THEOREM KernelsComputeTheProduct == Spec => []ProductExact
<1>1. EInv => ProductExact
  BY DEF EInv
<1> QED BY <1>1, InitInv, StepInv, ExactInit, ExactStep, PTL DEF Spec
==============================================================================
