----------------------------- MODULE QueryBatch -----------------------------
(***************************************************************************)
(* ipir-sp/src/reusable.rs: batches of queries under one secret.  A batch  *)
(* may encrypt under each public query matrix of the pool once; two bodies *)
(* under one (secret, matrix) pair would reveal the difference of their    *)
(* selections.                                                             *)
(*                                                                         *)
(* A body is known by its batch (which owns one fresh secret), its matrix, *)
(* the selected row and the position of its noise in the batch's random    *)
(* stream.  next_query takes &mut self, so calls on a batch do not overlap;*)
(* calls on different batches of a pool do.                                *)
(***************************************************************************)
EXTENDS Integers, FiniteSets

CONSTANTS
    Batches,   \* batches that may be started
    Count,     \* matrices in the pool
    Rows,      \* rows callers ask for
    DbRows     \* client.ypir.db_rows

ASSUME BatchConstants == Count \in Nat /\ DbRows \in Nat /\ Rows \subseteq Nat

Slots == 0..(Count - 1)

VARIABLES
    started,    \* batches started and not dropped
    spent,      \* batches that have ever been started: secrets are not restored
    next,       \* per batch: the next slot
    call,       \* per batch: the row of the call in progress, a set of at most one
    drawn,      \* per batch: noise vectors taken from its random stream
    issued,     \* bodies that have left a call
    abandoned,  \* history: bodies of calls that unwound
    exhausted   \* batches that have refused a row for want of a slot

vars == <<started, spent, next, call, drawn, issued, abandoned, exhausted>>

Init ==
    /\ started = {} /\ spent = {}
    /\ next = [b \in Batches |-> 0]
    /\ call = [b \in Batches |-> {}]
    /\ drawn = [b \in Batches |-> 0]
    /\ issued = {} /\ abandoned = {} /\ exhausted = {}

Body(b, slot, row, noise) == [batch |-> b, slot |-> slot, row |-> row, noise |-> noise]

start_batch(b) ==
    /\ b \notin spent
    /\ started' = started \union {b} /\ spent' = spent \union {b}
    /\ UNCHANGED <<next, call, drawn, issued, abandoned, exhausted>>

(* Dropping a batch abandons its remaining slots. *)
Drop(b) ==
    /\ b \in started /\ call[b] = {}
    /\ started' = started \ {b}
    /\ UNCHANGED <<spent, next, call, drawn, issued, abandoned, exhausted>>

Idle(b) == b \in started /\ call[b] = {}

(* Mutation: the slot is consumed before the row is checked. *)
RowOutOfRangeConsumes(b, row) ==
    /\ Idle(b) /\ row >= DbRows
    /\ next' = [next EXCEPT ![b] = @ + 1]
    /\ UNCHANGED <<started, spent, call, drawn, issued, abandoned, exhausted>>

RowOutOfRange(b, row) ==
    /\ Idle(b) /\ row >= DbRows
    /\ UNCHANGED vars

BatchExhausted(b, row) ==
    /\ Idle(b) /\ row < DbRows /\ next[b] = Count
    /\ exhausted' = exhausted \union {b}
    /\ UNCHANGED <<started, spent, next, call, drawn, issued, abandoned>>

(* next_query, up to the call that encrypts. *)
Reserve(b, row) ==
    /\ Idle(b) /\ row < DbRows /\ next[b] # Count
    /\ next' = [next EXCEPT ![b] = @ + 1]
    /\ call' = [call EXCEPT ![b] = {row}]
    /\ UNCHANGED <<started, spent, drawn, issued, abandoned, exhausted>>

(* Encryption takes fresh noise and returns the body. *)
Made(b, row) == Body(b, next[b] - 1, row, drawn[b])

Encrypt(b) == \E row \in call[b] :
    /\ drawn' = [drawn EXCEPT ![b] = @ + 1]
    /\ issued' = issued \union {Made(b, row)}
    /\ call' = [call EXCEPT ![b] = {}]
    /\ UNCHANGED <<started, spent, next, abandoned, exhausted>>

(* Mutation: the slot counts as used only once its body has been returned. *)
UnwindFreesSlot(b) == \E row \in call[b] :
    /\ drawn' = [drawn EXCEPT ![b] = @ + 1]
    /\ abandoned' = abandoned \union {Made(b, row)}
    /\ call' = [call EXCEPT ![b] = {}]
    /\ next' = [next EXCEPT ![b] = @ - 1]
    /\ UNCHANGED <<started, spent, issued, exhausted>>

(* Encryption or serialization panics; a caller that catches it still has the *)
(* batch, and the slot stays used.                                            *)
Unwind(b) == \E row \in call[b] :
    /\ drawn' = [drawn EXCEPT ![b] = @ + 1]
    /\ abandoned' = abandoned \union {Made(b, row)}
    /\ call' = [call EXCEPT ![b] = {}]
    /\ UNCHANGED <<started, spent, next, issued, exhausted>>

Next == \E b \in Batches :
    \/ start_batch(b) \/ Drop(b)
    \/ \E row \in Rows : RowOutOfRange(b, row) \/ BatchExhausted(b, row) \/ Reserve(b, row)
    \/ Encrypt(b) \/ Unwind(b)

Spec == Init /\ [][Next]_vars

-----------------------------------------------------------------------------
TypeOK ==
    /\ started \subseteq spent /\ spent \subseteq Batches
    /\ next \in [Batches -> 0..Count]
    /\ call \in [Batches -> SUBSET Rows]
    /\ drawn \in [Batches -> 0..Count]
    /\ issued \union abandoned \subseteq
         [batch : Batches, slot : Slots, row : Rows, noise : 0..Count]
    /\ exhausted \subseteq Batches

(* A batch makes at most one body under each matrix, counting those that a    *)
(* panic threw away: the slot is consumed before encryption (reusable.rs:99), *)
(* so no refused row, no call that unwound after the body was made, no retry  *)
(* and no dropped batch lets a matrix be used again under the same secret.    *)
OneBodyPerMatrix == \A x, y \in issued \union abandoned :
    x.batch = y.batch /\ x.slot = y.slot => x = y

(* A batch reports exhaustion only after every matrix went to a call with a   *)
(* valid row: refused rows cost nothing.                                      *)
ExhaustedWhenAllTried == \A b \in exhausted :
    drawn[b] + Cardinality(call[b]) = Count
=============================================================================
