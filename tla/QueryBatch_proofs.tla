-------------------------- MODULE QueryBatch_proofs --------------------------
(* Matrices are used once, for any pool size and any number of batches. *)
EXTENDS QueryBatch, FiniteSetTheorems, TLAPS

Bodies == issued \union abandoned

Shapes ==
    /\ next \in [Batches -> 0..Count]
    /\ call \in [Batches -> SUBSET Rows]
    /\ drawn \in [Batches -> Nat]
    /\ \A x \in Bodies : /\ x.batch \in Batches /\ x.slot \in Int
                         /\ x = Body(x.batch, x.slot, x.row, x.noise)

OneCall == \A b \in Batches : \A r, s \in call[b] : r = s

(* A body's slot lies behind the counter, and behind the slot that a call in  *)
(* progress has reserved.                                                     *)
SlotsBehind ==
    /\ \A x \in Bodies : x.slot < next[x.batch]
    /\ \A x \in Bodies : call[x.batch] # {} => x.slot < next[x.batch] - 1

IInv == Shapes /\ OneCall /\ SlotsBehind /\ OneBodyPerMatrix

(* Whether the call returns its body or throws it away. *)
LEMMA EncryptPreserves == ASSUME IInv, NEW b \in Batches, Encrypt(b) \/ Unwind(b) PROVE IInv'
<1> PICK row \in call[b] :
      /\ drawn' = [drawn EXCEPT ![b] = @ + 1]
      /\ Bodies' = Bodies \union {Made(b, row)}
      /\ call' = [call EXCEPT ![b] = {}]
      /\ UNCHANGED next
  BY DEF Encrypt, Unwind, Bodies
<1> DEFINE body == Body(b, next[b] - 1, row, drawn[b])
<1>1. body.batch = b /\ body.slot = next[b] - 1 /\ body.row = row /\ body.noise = drawn[b]
  BY DEF Body
<1>2. next[b] \in Int /\ call[b] # {} /\ body = Body(body.batch, body.slot, body.row, body.noise)
  BY <1>1, BatchConstants DEF IInv, Shapes, Body
<1>3. Bodies' = Bodies \union {body}
  BY DEF Made
<1> HIDE DEF body
<1>4. call' \in [Batches -> SUBSET Rows] /\ call'[b] = {}
      /\ \A a \in Batches : a # b => call'[a] = call[a]
  BY DEF IInv, Shapes
<1>5. Shapes'
  <2>1. drawn' \in [Batches -> Nat]
    BY DEF IInv, Shapes
  <2>2. \A x \in Bodies' : /\ x.batch \in Batches /\ x.slot \in Int
                           /\ x = Body(x.batch, x.slot, x.row, x.noise)
    <3>1. body.batch \in Batches /\ body.slot \in Int
      BY <1>1, <1>2
    <3>2. \A x \in Bodies : /\ x.batch \in Batches /\ x.slot \in Int
                            /\ x = Body(x.batch, x.slot, x.row, x.noise)
      BY DEF IInv, Shapes
    <3> QED BY <1>2, <1>3, <3>1, <3>2, Zenon
  <2> QED BY <1>4, <2>1, <2>2 DEF IInv, Shapes
<1>6. OneCall'
  BY <1>4 DEF IInv, OneCall
<1>7. SlotsBehind'
  BY <1>1, <1>2, <1>3, <1>4 DEF IInv, SlotsBehind, Shapes
<1>8. \A x \in Bodies : x.batch = b => x.slot < next[b] - 1
  BY <1>2 DEF IInv, SlotsBehind
<1>9. OneBodyPerMatrix'
  <2> SUFFICES ASSUME NEW x \in Bodies', NEW y \in Bodies', x.batch = y.batch, x.slot = y.slot
               PROVE  x = y
    BY DEF OneBodyPerMatrix, Bodies
  <2>1. CASE x \in Bodies /\ y \in Bodies
    BY <2>1 DEF IInv, OneBodyPerMatrix, Bodies
  <2>2. CASE x \in Bodies /\ y = body
    BY <1>1, <1>2, <1>8, <2>2 DEF IInv, Shapes
  <2>3. CASE x = body /\ y \in Bodies
    BY <1>1, <1>2, <1>8, <2>3 DEF IInv, Shapes
  <2> QED BY <1>3, <2>1, <2>2, <2>3
<1> QED BY <1>5, <1>6, <1>7, <1>9 DEF IInv

LEMMA ReservePreserves ==
    ASSUME IInv, NEW b \in Batches, NEW row \in Rows, Reserve(b, row)
    PROVE  IInv'
<1>1. /\ next' = [next EXCEPT ![b] = @ + 1] /\ call' = [call EXCEPT ![b] = {row}]
      /\ Bodies' = Bodies /\ drawn' = drawn /\ next[b] # Count
  BY DEF Reserve, Bodies
<1>2. next \in [Batches -> 0..Count] /\ next[b] \in Int /\ next[b] < Count
  BY <1>1, BatchConstants DEF IInv, Shapes
<1>3. /\ next' \in [Batches -> 0..Count] /\ next'[b] = next[b] + 1
      /\ \A a \in Batches : a # b => next'[a] = next[a]
  BY <1>1, <1>2, BatchConstants
<1>4. /\ call' \in [Batches -> SUBSET Rows] /\ call'[b] = {row}
      /\ \A a \in Batches : a # b => call'[a] = call[a]
  BY <1>1 DEF IInv, Shapes
<1>5. Shapes'
  BY <1>1, <1>3, <1>4 DEF IInv, Shapes
<1>6. OneCall'
  BY <1>4 DEF IInv, OneCall
<1>7. SlotsBehind'
  BY <1>1, <1>2, <1>3, <1>4 DEF IInv, SlotsBehind, Shapes
<1>8. OneBodyPerMatrix'
  BY <1>1 DEF IInv, OneBodyPerMatrix, Bodies
<1> QED BY <1>5, <1>6, <1>7, <1>8 DEF IInv

LEMMA InitIInv == Init => IInv
  BY BatchConstants DEF Init, IInv, Shapes, OneCall, SlotsBehind, OneBodyPerMatrix, Bodies

LEMMA StepKeepsIInv == ASSUME IInv, [Next]_vars PROVE IInv'
<1>1. ASSUME next' = next, call' = call, drawn' = drawn, Bodies' = Bodies PROVE IInv'
  BY <1>1 DEF IInv, Shapes, OneCall, SlotsBehind, OneBodyPerMatrix, Bodies
<1>2. CASE UNCHANGED vars
  BY <1>1, <1>2 DEF vars, Bodies
<1>3. ASSUME NEW b \in Batches, start_batch(b) \/ Drop(b) PROVE IInv'
  BY <1>1, <1>3 DEF start_batch, Drop, Bodies
<1>4. ASSUME NEW b \in Batches, NEW row \in Rows,
             RowOutOfRange(b, row) \/ BatchExhausted(b, row)
      PROVE  IInv'
  BY <1>1, <1>4 DEF RowOutOfRange, BatchExhausted, vars, Bodies
<1>5. ASSUME NEW b \in Batches, NEW row \in Rows, Reserve(b, row) PROVE IInv'
  BY <1>5, ReservePreserves
<1>6. ASSUME NEW b \in Batches, Encrypt(b) \/ Unwind(b) PROVE IInv'
  BY <1>6, EncryptPreserves
<1> QED BY <1>2, <1>3, <1>4, <1>5, <1>6 DEF Next

(* For any pool, any rows and any number of batches, next_query never makes    *)
(* two bodies under one secret and one matrix, whichever calls fail or unwind, *)
(* the bodies of calls that unwound included.                                  *)
THEOREM MatricesUsedOnce == Spec => []OneBodyPerMatrix
<1>1. Init => IInv
  BY InitIInv
<1>2. IInv /\ [Next]_vars => IInv'
  BY StepKeepsIInv
<1>3. IInv => OneBodyPerMatrix
  BY DEF IInv
<1> QED BY <1>1, <1>2, <1>3, PTL DEF Spec

-----------------------------------------------------------------------------
(* Every slot taken went to a call with a valid row: one that has drawn its   *)
(* noise, or the one in progress.                                             *)
Tried == \A b \in Batches : drawn[b] + Cardinality(call[b]) = next[b]

AllTaken == \A b \in exhausted : b \in Batches /\ next[b] = Count

ExhaustedInv == IInv /\ Tried /\ AllTaken

(* A call is no row or one row, and is counted so. *)
LEMMA CallCount ==
    ASSUME IInv, NEW b \in Batches
    PROVE  /\ Cardinality({}) = 0
           /\ call[b] # {} => Cardinality(call[b]) = 1
<1>1. Cardinality({}) = 0
  BY FS_EmptySet
<1>2. ASSUME call[b] # {} PROVE Cardinality(call[b]) = 1
  <2>1. PICK row \in call[b] : call[b] = {row}
    BY <1>2 DEF IInv, OneCall
  <2> QED BY <2>1, FS_Singleton
<1> QED BY <1>1, <1>2

LEMMA StepKeepsTried == ASSUME ExhaustedInv, [Next]_vars PROVE ExhaustedInv'
<1>1. IInv /\ IInv' /\ Tried /\ AllTaken
  BY StepKeepsIInv DEF ExhaustedInv
<1>2. /\ next \in [Batches -> 0..Count] /\ drawn \in [Batches -> Nat]
      /\ call \in [Batches -> SUBSET Rows] /\ Count \in Nat
  BY <1>1, BatchConstants DEF IInv, Shapes
<1>3. ASSUME next' = next, call' = call, drawn' = drawn, exhausted' = exhausted
      PROVE  Tried' /\ AllTaken'
  BY <1>1, <1>3 DEF Tried, AllTaken
<1>4. CASE UNCHANGED vars
  BY <1>1, <1>3, <1>4 DEF vars, ExhaustedInv
<1>5. ASSUME NEW b \in Batches, start_batch(b) \/ Drop(b) PROVE ExhaustedInv'
  BY <1>1, <1>3, <1>5 DEF start_batch, Drop, ExhaustedInv
<1>6. ASSUME NEW b \in Batches, NEW row \in Rows, RowOutOfRange(b, row) PROVE ExhaustedInv'
  BY <1>1, <1>3, <1>6 DEF RowOutOfRange, vars, ExhaustedInv
<1>7. ASSUME NEW b \in Batches, NEW row \in Rows, BatchExhausted(b, row) PROVE ExhaustedInv'
  <2>1. /\ next' = next /\ call' = call /\ drawn' = drawn
        /\ exhausted' = exhausted \union {b} /\ next[b] = Count
    BY <1>7 DEF BatchExhausted
  <2> QED BY <1>1, <2>1 DEF ExhaustedInv, Tried, AllTaken
<1>8. ASSUME NEW b \in Batches, NEW row \in Rows, Reserve(b, row) PROVE ExhaustedInv'
  <2>1. /\ next' = [next EXCEPT ![b] = @ + 1] /\ call' = [call EXCEPT ![b] = {row}]
        /\ drawn' = drawn /\ exhausted' = exhausted /\ next[b] # Count /\ call[b] = {}
    BY <1>8 DEF Reserve, Idle
  <2>2. Cardinality(call[b]) = 0 /\ Cardinality(call'[b]) = 1
    BY <1>2, <2>1, FS_EmptySet, FS_Singleton
  <2>3. Tried'
    <3> SUFFICES ASSUME NEW a \in Batches PROVE drawn'[a] + Cardinality(call'[a]) = next'[a]
      BY DEF Tried
    <3>1. CASE a = b
      <4>1. drawn[b] + 0 = next[b]
        BY <1>1, <2>2 DEF Tried
      <4>2. next'[b] = next[b] + 1 /\ drawn'[b] = drawn[b] /\ drawn[b] \in Nat
        BY <1>2, <2>1
      <4> QED BY <2>2, <3>1, <4>1, <4>2
    <3>2. CASE a # b
      BY <1>1, <1>2, <2>1, <3>2 DEF Tried
    <3> QED BY <3>1, <3>2
  <2>4. AllTaken'
    BY <1>1, <1>2, <2>1 DEF AllTaken
  <2> QED BY <1>1, <2>3, <2>4 DEF ExhaustedInv
<1>9. ASSUME NEW b \in Batches, Encrypt(b) \/ Unwind(b) PROVE ExhaustedInv'
  <2>1. /\ call[b] # {} /\ call' = [call EXCEPT ![b] = {}]
        /\ drawn' = [drawn EXCEPT ![b] = @ + 1] /\ next' = next /\ exhausted' = exhausted
    BY <1>9 DEF Encrypt, Unwind
  <2>2. Cardinality(call[b]) = 1 /\ Cardinality(call'[b]) = 0
    BY <1>1, <1>2, <2>1, CallCount
  <2>3. Tried'
    <3> SUFFICES ASSUME NEW a \in Batches PROVE drawn'[a] + Cardinality(call'[a]) = next'[a]
      BY DEF Tried
    <3>1. CASE a = b
      BY <1>1, <1>2, <2>1, <2>2, <3>1 DEF Tried
    <3>2. CASE a # b
      BY <1>1, <1>2, <2>1, <3>2 DEF Tried
    <3> QED BY <3>1, <3>2
  <2>4. AllTaken'
    BY <1>1, <2>1 DEF AllTaken
  <2> QED BY <1>1, <2>3, <2>4 DEF ExhaustedInv
<1> QED BY <1>4, <1>5, <1>6, <1>7, <1>8, <1>9 DEF Next

(* next_query reports exhaustion only when each of the pool's matrices was    *)
(* given to a call with a valid row, whatever was refused or unwound before.  *)
THEOREM ExhaustionIsComplete == Spec => []ExhaustedWhenAllTried
<1>1. Init => ExhaustedInv
  BY InitIInv, FS_EmptySet DEF Init, ExhaustedInv, Tried, AllTaken
<1>2. ExhaustedInv /\ [Next]_vars => ExhaustedInv'
  BY StepKeepsTried
<1>3. ExhaustedInv => ExhaustedWhenAllTried
  BY DEF ExhaustedInv, Tried, AllTaken, ExhaustedWhenAllTried
<1> QED BY <1>1, <1>2, <1>3, PTL DEF Spec
==============================================================================
