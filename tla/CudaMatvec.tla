----------------------------- MODULE CudaMatvec -----------------------------
(***************************************************************************)
(* simplepir-kernel/src/matvec.cu: the two device kernels of an evaluation *)
(* of out[col] = sum query[row]*db[col][row] mod q.                        *)
(*                                                                         *)
(* tile_products runs one block of threads per (column, tile); the threads *)
(* of a block share lo and hi and meet at __syncthreads().  Blocks share   *)
(* nothing but disjoint entries of partial, so they run one at a time, in  *)
(* any order.  reduce_tiles follows on the same stream.                    *)
(***************************************************************************)
EXTENDS Integers, FiniteSets, Summation

CONSTANTS
    LimbBits,   \* 32
    Threads,    \* 256, a power of two
    TileRows,   \* 4096
    MaxItem,    \* the largest u16
    Stale,      \* what shared memory holds when a block starts
    Calls       \* q, rows, cols, query and db of the evaluations

Limb == 2^LimbBits
Word == Limb * Limb

(* The comment in tile_products: no sum of a tile overflows a word. *)
ASSUME DeviceConstants ==
    /\ TileRows * (Limb - 1) * MaxItem < Word
    /\ LimbBits \in Nat /\ MaxItem \in Nat /\ TileRows \in Nat \ {0}
    /\ Threads \in Nat /\ \E k \in 1..Threads : Threads = 2^k
    /\ TileRows % Threads = 0 /\ Stale \in 0..(Word - 1)
    /\ \A c \in Calls :
         /\ c.q \in 1..(Word - 1)
         /\ c.rows \in Nat \ {0} /\ c.cols \in Nat \ {0}
         /\ c.query \in [0..(c.rows - 1) -> 0..(Word - 1)]
         /\ c.db \in [0..(c.cols - 1) -> [0..(c.rows - 1) -> 0..MaxItem]]

VARIABLES
    call,      \* the arguments
    finished,  \* blocks of tile_products that have ended
    block,     \* the running block, or NoBlock
    thread,    \* per thread of it: whether it waits at a barrier, its row, a and b
    stride,    \* Summing, then the strides of the reduction down to 0
    lo, hi,    \* shared memory of the block
    partial,
    out

matvecvars == <<call, finished, block, thread, stride, lo, hi, partial, out>>
shared == <<lo, hi>>

NoBlock == -1
T == 0..(Threads - 1)
tiles == (call.rows + TileRows - 1) \div TileRows
Blocks == 0..(call.cols * tiles - 1)
tile == block % tiles
col == block \div tiles
TileEnd == IF (tile + 1) * TileRows > call.rows THEN call.rows ELSE (tile + 1) * TileRows

IdleThread == [waits |-> FALSE, row |-> 0, a |-> 0, b |-> 0]
Summing == Threads

MatvecInit ==
    /\ call \in Calls
    /\ finished = {} /\ block = NoBlock
    /\ thread = [t \in T |-> IdleThread] /\ stride = Summing
    /\ lo = [t \in T |-> Stale] /\ hi = [t \in T |-> Stale]
    /\ partial = [g \in Blocks |-> 0]
    /\ out = [c \in 0..(call.cols - 1) |-> {}]

-----------------------------------------------------------------------------
add_mod(a, b, q) == IF a >= q - b THEN a - (q - b) ELSE a + b

StartBlock(g) ==
    /\ block = NoBlock /\ g \notin finished
    /\ block' = g
    /\ thread' = [t \in T |-> [IdleThread EXCEPT !.row = (g % tiles) * TileRows + t]]
    /\ stride' = Summing
    /\ UNCHANGED <<call, finished, lo, hi, partial, out>>

Running(t) == block # NoBlock /\ ~thread[t].waits

SumRow(t) ==
    /\ Running(t) /\ stride = Summing /\ thread[t].row < TileEnd
    /\ LET x == call.query[thread[t].row]
           v == call.db[col][thread[t].row]
       IN  thread' = [thread EXCEPT ![t].a = (@ + v * (x % Limb)) % Word,
                                    ![t].b = (@ + v * (x \div Limb)) % Word,
                                    ![t].row = @ + Threads]
    /\ UNCHANGED <<call, finished, block, stride, lo, hi, partial, out>>

Publish(t) ==
    /\ Running(t) /\ stride = Summing /\ thread[t].row >= TileEnd
    /\ lo' = [lo EXCEPT ![t] = thread[t].a]
    /\ hi' = [hi EXCEPT ![t] = thread[t].b]
    /\ thread' = [thread EXCEPT ![t].waits = TRUE]
    /\ UNCHANGED <<call, finished, block, stride, partial, out>>

(* One round of the reduction; a thread outside the stride goes to the barrier. *)
Fold(t) ==
    /\ Running(t) /\ stride \in 1..(Threads - 1)
    /\ IF t < stride
       THEN /\ lo' = [lo EXCEPT ![t] = (@ + lo[t + stride]) % Word]
            /\ hi' = [hi EXCEPT ![t] = (@ + hi[t + stride]) % Word]
       ELSE UNCHANGED shared
    /\ thread' = [thread EXCEPT ![t].waits = TRUE]
    /\ UNCHANGED <<call, finished, block, stride, partial, out>>

(* Mutation: the barrier before the reduction is missing. *)
SyncThreadsEarly ==
    /\ block # NoBlock /\ (stride = Summing \/ \A t \in T : thread[t].waits)
    /\ stride' = stride \div 2
    /\ thread' = [t \in T |-> [thread[t] EXCEPT !.waits = FALSE]]
    /\ UNCHANGED <<call, finished, block, lo, hi, partial, out>>

(* __syncthreads(): no thread passes before all have arrived. *)
SyncThreads ==
    /\ block # NoBlock /\ \A t \in T : thread[t].waits
    /\ stride' = stride \div 2
    /\ thread' = [t \in T |-> [thread[t] EXCEPT !.waits = FALSE]]
    /\ UNCHANGED <<call, finished, block, lo, hi, partial, out>>

(* b * 2^32 mod q by doubling. *)
Doubled(b) == LET d[i \in 0..LimbBits] == IF i = 0 THEN b ELSE add_mod(d[i - 1], d[i - 1], call.q)
              IN  d[LimbBits]

(* Thread 0 writes the block's entry; the others have nothing left to do. *)
EndBlock ==
    /\ Running(0) /\ stride = 0
    /\ partial' = [partial EXCEPT ![block] =
                     add_mod(lo[0] % call.q, Doubled(hi[0] % call.q), call.q)]
    /\ finished' = finished \union {block}
    /\ block' = NoBlock
    /\ UNCHANGED <<call, thread, stride, lo, hi, out>>

TilesOf(c) ==
    LET s[t \in 0..tiles] ==
          IF t = 0 THEN 0 ELSE add_mod(s[t - 1], partial[c * tiles + t - 1], call.q)
    IN  s[tiles]

(* reduce_tiles, one thread per column, once tile_products has ended. *)
ReduceTiles(c) ==
    /\ finished = Blocks /\ out[c] = {}
    /\ out' = [out EXCEPT ![c] = {TilesOf(c)}]
    /\ UNCHANGED <<call, finished, block, thread, stride, lo, hi, partial>>

Done ==
    /\ \A c \in DOMAIN out : out[c] # {}
    /\ UNCHANGED matvecvars

MatvecNext ==
    \/ \E g \in Blocks : StartBlock(g)
    \/ \E t \in T : SumRow(t) \/ Publish(t) \/ Fold(t)
    \/ SyncThreads \/ EndBlock
    \/ \E c \in 0..(call.cols - 1) : ReduceTiles(c)
    \/ Done

MatvecSpec == MatvecInit /\ [][MatvecNext]_matvecvars

-----------------------------------------------------------------------------
MatvecOK ==
    /\ call \in Calls
    /\ finished \subseteq Blocks /\ block \in Blocks \union {NoBlock}
    /\ thread \in [T -> [waits : BOOLEAN, row : Nat, a : 0..(Word - 1), b : 0..(Word - 1)]]
    /\ stride \in 0..Summing
    /\ lo \in [T -> 0..(Word - 1)] /\ hi \in [T -> 0..(Word - 1)]
    /\ partial \in [Blocks -> 0..(call.q - 1)]
    /\ out \in [0..(call.cols - 1) -> SUBSET (0..(call.q - 1))]

(* For every order in which the threads ran, thread 0 holds the exact sum of  *)
(* a tile's limb products when a block's reduction ends, without overflow, as *)
(* the comment in tile_products says of 4096 rows; and the result is exact    *)
(* for every nonzero modulus, above 2^63 too, and for a last tile that is not *)
(* full.                                                                      *)
MatvecExact ==
    /\ block # NoBlock /\ stride = 0 =>
         LET rows == 0..(call.rows - 1)
             low == [r \in rows |-> call.db[col][r] * (call.query[r] % Limb)]
             high == [r \in rows |-> call.db[col][r] * (call.query[r] \div Limb)]
         IN  /\ lo[0] = SumOf(low, tile * TileRows, TileEnd)
             /\ hi[0] = SumOf(high, tile * TileRows, TileEnd)
    /\ \A c \in DOMAIN out : \A value \in out[c] :
         value = SumOf([r \in 0..(call.rows - 1) |-> call.db[c][r] * call.query[r]],
                       0, call.rows) % call.q
=============================================================================
