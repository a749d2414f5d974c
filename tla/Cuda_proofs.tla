----------------------------- MODULE Cuda_proofs -----------------------------
(***************************************************************************)
(* Proofs about the CUDA kernel.  Of the host: results of evaluations and  *)
(* writes to their buffers, for any number of threads, databases and       *)
(* calls.  Of the device: what the two kernels compute, for any shape of   *)
(* the database and any schedule of a block's threads.                     *)
(***************************************************************************)
EXTENDS CudaKernel, CudaMatvec, SequenceTheorems, Arithmetic

-----------------------------------------------------------------------------
(* The host *)

Active == {"query", "tile", "reduce", "dtoh", "sync"}

(* try_prepare excludes evaluations, and what is uploaded is what the last    *)
(* call of it promised.                                                       *)
PrepareAlone ==
    /\ preparing # None => Exclusive
    /\ current = prepared

(* The operations of one evaluation, in the order of the code. *)
Ops == <<"htod", "tile", "reduce", "dtoh">>

(* A worker that has enqueued n operations since it took the mutex finds them *)
(* at the end of the stream, behind whatever failed evaluations have left.    *)
Pending(w, n) == \A j \in 1..n :
    j > n - Len(stream) => stream[Len(stream) - n + j] = [op |-> Ops[j], by |-> w]

(* Those that are no longer there have run, and nothing else since. *)
Ran(w, n) ==
    LET own == Product(worker[w].query, prepared)
        done == n - Len(stream)
    IN  /\ done >= 1 => scratch.query = worker[w].query
        /\ done >= 2 => scratch.partial = own
        /\ done >= 3 => scratch.out = own
        /\ done >= 4 => worker[w].buffer = own

Progress(w, n) == Pending(w, n) /\ Ran(w, n)

Phases(w) ==
    /\ worker[w].at = "query" => Progress(w, 0)
    /\ worker[w].at = "tile" => Progress(w, 1)
    /\ worker[w].at = "reduce" => Progress(w, 2)
    /\ worker[w].at = "dtoh" => Progress(w, 3)
    /\ worker[w].at = "sync" => Progress(w, 4)

OwnWork == ~dead => \A w \in Workers : Phases(w)

IInv == TypeOK /\ PrepareAlone /\ OwnWork /\ NoWriteAfterReturn

-----------------------------------------------------------------------------
WorkerStates ==
    [at : {"idle", "lock", "query", "tile", "reduce", "dtoh", "sync", "ok", "err"},
     query : Queries \union {NoQuery}, shape : Nat, buffer : Pairs]
Operations == [op : {"htod", "tile", "reduce", "dtoh"}, by : Workers]

(* The mutex is held by the worker that is past Lock, and by no other. *)
LEMMA OneActive ==
    ASSUME TypeOK, NEW w \in Workers, NEW v \in Workers,
           worker[w].at \in Active, worker[v].at \in Active
    PROVE  w = v
BY DEF TypeOK, Active

LEMMA NoneHolds == ASSUME TypeOK, holder = None, NEW w \in Workers PROVE worker[w].at \notin Active
BY HostConstants DEF TypeOK, Active

(* What To does to the workers. *)
LEMMA ToKeeps ==
    ASSUME TypeOK, NEW w \in Workers, NEW where, To(w, where),
           where \in {"idle", "lock", "query", "tile", "reduce", "dtoh", "sync", "ok", "err"}
    PROVE  /\ worker' \in [Workers -> WorkerStates]
           /\ worker'[w].at = where
           /\ worker'[w].query = worker[w].query /\ worker'[w].buffer = worker[w].buffer
           /\ \A v \in Workers : v # w => worker'[v] = worker[v]
BY DEF TypeOK, To, WorkerStates

(* A product with an empty matrix is the result at once. *)
LockEmpty(w) == worker' = [worker EXCEPT ![w].at = "ok",
                                         ![w].buffer = Product(worker[w].query, prepared)]

LEMMA EmptyKeeps ==
    ASSUME TypeOK, NEW w \in Workers, LockEmpty(w)
    PROVE  /\ worker' \in [Workers -> WorkerStates]
           /\ worker'[w].at = "ok" /\ worker'[w].query = worker[w].query
           /\ worker'[w].buffer = Product(worker[w].query, prepared)
           /\ \A v \in Workers : v # w => worker'[v] = worker[v]
<1>1. worker \in [Workers -> WorkerStates] /\ worker[w] \in WorkerStates
  BY DEF TypeOK, WorkerStates
<1>2. Product(worker[w].query, prepared) \in Pairs
  BY <1>1 DEF TypeOK, Product, Pairs, WorkerStates
<1> QED BY <1>1, <1>2 DEF LockEmpty, WorkerStates

LEMMA EnqueueTypes ==
    ASSUME TypeOK, NEW w \in Workers, NEW from \in Active, NEW op, NEW to \in Active,
           op \in {"htod", "tile", "reduce", "dtoh"}, Enqueue(w, from, op, to)
    PROVE  TypeOK'
<1>1. CASE /\ ~dead /\ stream' = Append(stream, [op |-> op, by |-> w]) /\ To(w, to) /\ UNCHANGED holder
  <2>1. /\ worker' \in [Workers -> WorkerStates] /\ worker'[w].at = to
        /\ \A v \in Workers : v # w => worker'[v] = worker[v]
    BY <1>1, ToKeeps DEF Active
  <2>2. stream' \in Seq(Operations)
    BY <1>1, AppendProperties DEF TypeOK, Operations
  <2>3. \A v \in Workers : holder' = v <=> worker'[v].at \in Active
    BY <1>1, <2>1 DEF TypeOK, Enqueue, Active
  <2> QED BY <1>1, <2>1, <2>2, <2>3 DEF TypeOK, Enqueue, Active, WorkerStates, Operations
<1>2. CASE UNCHANGED stream /\ To(w, "err") /\ holder' = None
  <2>1. /\ worker' \in [Workers -> WorkerStates] /\ worker'[w].at = "err"
        /\ \A v \in Workers : v # w => worker'[v] = worker[v]
    BY <1>2, ToKeeps
  <2>2. \A v \in Workers : holder' = v <=> worker'[v].at \in Active
    BY <1>2, <2>1, HostConstants DEF TypeOK, Enqueue, Active
  <2> QED BY <1>2, <2>1, <2>2 DEF TypeOK, Enqueue, Active, WorkerStates, Operations
<1> QED BY <1>1, <1>2 DEF Enqueue

LEMMA ExecuteTypes == ASSUME TypeOK, Execute PROVE TypeOK'
<1> DEFINE op == Head(stream)
<1>1. op \in Operations /\ stream' \in Seq(Operations)
  BY HeadTailProperties DEF TypeOK, Execute, Operations
<1>2. /\ op.op \in {"htod", "tile", "reduce", "dtoh"} /\ op.by \in Workers
      /\ worker[op.by] \in WorkerStates
  BY <1>1 DEF Operations, TypeOK, WorkerStates
<1>3. Product(scratch.query, prepared) \in Pairs
  BY DEF TypeOK, Product, Pairs
<1>4. Effect(op) /\ UNCHANGED <<prepared, holder, dead, preparing, current, calls>>
  BY DEF Execute
<1> HIDE DEF op
<1>5. scratch' \in [query : Queries \union {NoQuery}, partial : Pairs, out : Pairs]
  BY <1>2, <1>3, <1>4 DEF Effect, TypeOK, WorkerStates
<1>6. /\ worker' \in [Workers -> WorkerStates]
      /\ \A v \in Workers : worker'[v].at = worker[v].at
  <2>1. worker \in [Workers -> WorkerStates] /\ scratch.out \in Pairs
    BY DEF TypeOK, WorkerStates
  <2>2. CASE worker' = [worker EXCEPT ![op.by].buffer = scratch.out]
    BY <1>2, <2>1, <2>2 DEF WorkerStates
  <2> QED BY <1>4, <2>1, <2>2 DEF Effect
<1> QED BY <1>1, <1>4, <1>5, <1>6 DEF TypeOK, WorkerStates, Operations

LEMMA TypeStep == ASSUME TypeOK, [Next]_vars PROVE TypeOK'
<1>1. CASE UNCHANGED vars
  BY <1>1 DEF vars, TypeOK
<1>2. ASSUME NEW d \in Databases, StartPrepare(d) PROVE TypeOK'
  BY <1>2 DEF StartPrepare, TypeOK
<1>3. CASE PrepareFails
  BY <1>3 DEF PrepareFails, TypeOK
<1>4. CASE PrepareSucceeds
  <2>1. scratch' \in [query : Queries \union {NoQuery}, partial : Pairs, out : Pairs]
    BY <1>4 DEF PrepareSucceeds, Pairs, Unset
  <2> QED BY <1>4, <2>1 DEF PrepareSucceeds, TypeOK
<1>5. ASSUME NEW w \in Workers, NEW d \in Databases, Call(w, Shape[d]) PROVE TypeOK'
  <2>1. /\ <<w, calls[w] + 1>> \in Queries /\ Unset \in Pairs /\ Shape[d] \in Nat
        /\ calls' \in [Workers \union {None} -> Nat]
    <3>1. calls[w] \in Nat /\ calls[w] < MaxCalls /\ MaxCalls \in Nat
      BY <1>5, HostConstants DEF Call, TypeOK
    <3>2. calls[w] + 1 \in 1..MaxCalls
      BY <3>1
    <3>3. <<w, calls[w] + 1>> \in Queries
      BY <3>2 DEF Queries
    <3>4. Unset \in Pairs
      BY DEF Pairs, Unset
    <3>5. Shape[d] \in Nat
      BY HostConstants
    <3>6. calls' \in [Workers \union {None} -> Nat]
      BY <1>5, <3>1 DEF Call, TypeOK
    <3> QED BY <3>3, <3>4, <3>5, <3>6
  <2>2. /\ worker' \in [Workers -> WorkerStates] /\ worker'[w].at = "lock"
        /\ worker[w].at \notin Active
        /\ \A v \in Workers : v # w => worker'[v] = worker[v]
    BY <1>5, <2>1 DEF Call, TypeOK, WorkerStates, Active
  <2>3. \A v \in Workers : holder = v <=> worker'[v].at \in Active
    BY <2>2 DEF TypeOK, Active
  <2> QED BY <1>5, <2>1, <2>2, <2>3 DEF Call, TypeOK, WorkerStates, Active
<1>6. ASSUME NEW w \in Workers, Lock(w) PROVE TypeOK'
  <2>1. CASE holder' = w /\ To(w, "query")
    <3>1. /\ worker' \in [Workers -> WorkerStates] /\ worker'[w].at = "query"
          /\ \A v \in Workers : v # w => worker'[v] = worker[v]
      BY <2>1, ToKeeps
    <3>2. \A v \in Workers : holder' = v <=> worker'[v].at \in Active
      BY <1>6, <2>1, <3>1, NoneHolds DEF Lock, Active
    <3> QED BY <1>6, <2>1, <3>1, <3>2 DEF Lock, TypeOK, WorkerStates, Active
  <2>2. CASE UNCHANGED holder /\ To(w, "err")
    <3>1. /\ worker' \in [Workers -> WorkerStates] /\ worker'[w].at = "err"
          /\ \A v \in Workers : v # w => worker'[v] = worker[v]
      BY <2>2, ToKeeps
    <3>2. \A v \in Workers : holder' = v <=> worker'[v].at \in Active
      BY <1>6, <2>2, <3>1, HostConstants DEF Lock, Active, TypeOK
    <3> QED BY <1>6, <2>2, <3>1, <3>2 DEF Lock, TypeOK, WorkerStates, Active
  <2>3. CASE UNCHANGED holder /\ LockEmpty(w)
    <3>1. /\ worker' \in [Workers -> WorkerStates] /\ worker'[w].at = "ok"
          /\ \A v \in Workers : v # w => worker'[v] = worker[v]
      BY <2>3, EmptyKeeps
    <3>2. \A v \in Workers : holder' = v <=> worker'[v].at \in Active
      BY <1>6, <2>3, <3>1, HostConstants DEF Lock, Active, TypeOK
    <3> QED BY <1>6, <2>3, <3>1, <3>2 DEF Lock, TypeOK, WorkerStates, Active
  <2> QED BY <1>6, <2>1, <2>2, <2>3 DEF Lock, LockEmpty
<1>7. ASSUME NEW w \in Workers, CopyQuery(w) \/ LaunchTile(w) \/ LaunchReduce(w) \/ CopyOut(w)
      PROVE  TypeOK'
  BY <1>7, EnqueueTypes DEF CopyQuery, LaunchTile, LaunchReduce, CopyOut, Active
<1>8. ASSUME NEW w \in Workers, Synchronize(w) PROVE TypeOK'
  <2>1. PICK where \in {"err", "ok"} : To(w, where)
    BY <1>8 DEF Synchronize
  <2>2. /\ worker' \in [Workers -> WorkerStates] /\ worker'[w].at = where
        /\ \A v \in Workers : v # w => worker'[v] = worker[v]
    BY <2>1, ToKeeps
  <2>3. \A v \in Workers : holder' = v <=> worker'[v].at \in Active
    BY <1>8, <2>2, HostConstants DEF Synchronize, TypeOK, Active
  <2> QED BY <1>8, <2>2, <2>3 DEF Synchronize, TypeOK, WorkerStates, Active
<1>9. CASE Execute
  BY <1>9, ExecuteTypes
<1>10. CASE DeviceFails
  BY <1>10 DEF DeviceFails, TypeOK
<1> QED BY <1>1, <1>2, <1>3, <1>4, <1>5, <1>6, <1>7, <1>8, <1>9, <1>10 DEF Next

-----------------------------------------------------------------------------
(* One more operation of w at the end of the stream. *)
LEMMA ProgressAppends ==
    ASSUME TypeOK, NEW w \in Workers, NEW n \in 0..3, NEW m \in 1..4, m = n + 1, Progress(w, n),
           stream' = Append(stream, [op |-> Ops[m], by |-> w]),
           UNCHANGED <<scratch, prepared>>,
           worker'[w].query = worker[w].query, worker'[w].buffer = worker[w].buffer
    PROVE  Progress(w, m)'
<1>1. /\ Len(stream) \in Nat /\ Len(stream') = Len(stream) + 1
      /\ \A i \in 1..Len(stream) : stream'[i] = stream[i]
      /\ stream'[Len(stream) + 1] = [op |-> Ops[m], by |-> w]
  BY DEF TypeOK
<1>2. Pending(w, m)'
  <2> SUFFICES ASSUME NEW j \in 1..m, j > m - Len(stream')
               PROVE  stream'[Len(stream') - m + j] = [op |-> Ops[j], by |-> w]
    BY DEF Pending
  <2>1. CASE j = m
    BY <1>1, <2>1
  <2>2. CASE j \in 1..n
    <3>1. /\ j > n - Len(stream) /\ Len(stream') - m + j = Len(stream) - n + j
          /\ Len(stream) - n + j \in 1..Len(stream)
      BY <1>1, <2>2
    <3>2. stream[Len(stream) - n + j] = [op |-> Ops[j], by |-> w]
      BY <2>2, <3>1 DEF Progress, Pending
    <3> QED BY <1>1, <3>1, <3>2
  <2> QED BY <2>1, <2>2
<1>3. Ran(w, m)'
  <2>1. m - Len(stream') = n - Len(stream)
    BY <1>1
  <2> QED BY <2>1 DEF Progress, Ran
<1> QED BY <1>2, <1>3 DEF Progress

(* The device runs the oldest operation: a leftover, or the next of w's own. *)
LEMMA ProgressExecutes ==
    ASSUME TypeOK, NEW w \in Workers, NEW n \in 0..4, Progress(w, n), Execute
    PROVE  Progress(w, n)'
<1> DEFINE L == Len(stream)
           op == Head(stream)
           own == Product(worker[w].query, prepared)
<1>1. /\ L \in Nat /\ L >= 1 /\ Len(stream') = L - 1 /\ op = stream[1]
      /\ \A i \in 1..(L - 1) : stream'[i] = stream[i + 1]
  BY HeadTailProperties, LenProperties, EmptySeq DEF TypeOK, Execute
<1>2. op \in Operations /\ op.by \in Workers
  <2>1. stream \in Seq(Operations) /\ stream # <<>>
    BY DEF TypeOK, Execute, Operations
  <2>2. op \in Operations
    BY <2>1, HeadTailProperties
  <2> QED BY <2>2 DEF Operations
<1>3. Effect(op) /\ prepared' = prepared
  BY DEF Execute
<1>4. n - L + 1 \in 1..n => op = [op |-> Ops[n - L + 1], by |-> w]
  <2> SUFFICES ASSUME n - L + 1 \in 1..n PROVE op = [op |-> Ops[n - L + 1], by |-> w]
    OBVIOUS
  <2>1. stream[L - n + (n - L + 1)] = [op |-> Ops[n - L + 1], by |-> w]
    BY <1>1 DEF Progress, Pending
  <2>2. L - n + (n - L + 1) = 1
    BY <1>1
  <2> QED BY <1>1, <2>1, <2>2
<1>5. Pending(w, n)'
  <2> SUFFICES ASSUME NEW j \in 1..n, j > n - Len(stream')
               PROVE  stream'[Len(stream') - n + j] = [op |-> Ops[j], by |-> w]
    BY DEF Pending
  <2>1. /\ j > n - L /\ L - 1 - n + j \in 1..(L - 1) /\ (L - 1 - n + j) + 1 = L - n + j
        /\ Len(stream') - n + j = L - 1 - n + j
    BY <1>1
  <2>2. stream[L - n + j] = [op |-> Ops[j], by |-> w]
    BY <2>1 DEF Progress, Pending
  <2> QED BY <1>1, <2>1, <2>2
<1>6. Ops[1] = "htod" /\ Ops[2] = "tile" /\ Ops[3] = "reduce" /\ Ops[4] = "dtoh"
  BY DEF Ops
<1>7. /\ scratch \in [query : Queries \union {NoQuery}, partial : Pairs, out : Pairs]
      /\ worker \in [Workers -> WorkerStates]
  BY DEF TypeOK, WorkerStates
<1> HIDE DEF L, op
<1>8. worker'[w].query = worker[w].query
  <2>1. CASE worker' = [worker EXCEPT ![op.by].buffer = scratch.out]
    BY <1>2, <1>7, <2>1 DEF WorkerStates
  <2> QED BY <1>3, <2>1 DEF Effect
<1>9. Ran(w, n)'
  <2>1. n - Len(stream') = n - L + 1
    BY <1>1
  <2>2. /\ n - L >= 1 => scratch.query = worker[w].query
        /\ n - L >= 2 => scratch.partial = own
        /\ n - L >= 3 => scratch.out = own
    BY DEF Progress, Ran, L
  <2>3. CASE n - L + 1 < 1
    BY <1>1, <2>1, <2>3 DEF Ran
  <2>4. CASE n - L + 1 = 1
    <3>1. op.op = "htod" /\ op.by = w
      BY <1>1, <1>4, <1>6, <2>4
    <3>2. scratch' = [scratch EXCEPT !.query = worker[w].query] /\ UNCHANGED worker
      BY <1>3, <3>1 DEF Effect
    <3> QED BY <1>7, <2>1, <2>4, <3>2 DEF Ran
  <2>5. CASE n - L + 1 = 2
    <3>1. op.op = "tile" /\ op.by = w /\ scratch.query = worker[w].query
      BY <1>1, <1>4, <1>6, <2>2, <2>5
    <3>2. scratch' = [scratch EXCEPT !.partial = Product(scratch.query, prepared)] /\ UNCHANGED worker
      BY <1>3, <3>1 DEF Effect
    <3> QED BY <1>3, <1>7, <2>1, <2>5, <3>1, <3>2 DEF Ran
  <2>6. CASE n - L + 1 = 3
    <3>1. op.op = "reduce" /\ op.by = w /\ scratch.query = worker[w].query /\ scratch.partial = own
      BY <1>1, <1>4, <1>6, <2>2, <2>6
    <3>2. scratch' = [scratch EXCEPT !.out = scratch.partial] /\ UNCHANGED worker
      BY <1>3, <3>1 DEF Effect
    <3> QED BY <1>3, <1>7, <2>1, <2>6, <3>1, <3>2 DEF Ran
  <2>7. CASE n - L + 1 = 4
    <3>1. /\ op.op = "dtoh" /\ op.by = w /\ scratch.query = worker[w].query
          /\ scratch.partial = own /\ scratch.out = own
      BY <1>1, <1>4, <1>6, <2>2, <2>7
    <3>2. worker' = [worker EXCEPT ![w].buffer = scratch.out] /\ UNCHANGED scratch
      BY <1>3, <3>1 DEF Effect
    <3>3. worker'[w].buffer = own
      BY <1>7, <3>1, <3>2 DEF WorkerStates
    <3> QED BY <1>3, <1>8, <2>1, <2>7, <3>1, <3>2, <3>3 DEF Ran
  <2> QED BY <1>1, <2>3, <2>4, <2>5, <2>6, <2>7
<1> QED BY <1>5, <1>9 DEF Progress

-----------------------------------------------------------------------------
(* A worker that does not move keeps its phase while stream, scratch and      *)
(* upload stay.                                                               *)
LEMMA PhasesKept ==
    ASSUME NEW w \in Workers, Phases(w), worker'[w] = worker[w],
           UNCHANGED <<stream, scratch, prepared>>
    PROVE  Phases(w)'
BY DEF Phases, Progress, Pending, Ran

(* Outside the mutex there is nothing to keep. *)
LEMMA PhasesInactive == ASSUME NEW w, worker'[w].at \notin Active PROVE Phases(w)'
BY DEF Phases, Active

(* Enqueuing takes the worker one operation further, or out. *)
LEMMA EnqueueAdvances ==
    ASSUME TypeOK, NEW w \in Workers, NEW n \in 0..3, NEW m \in 1..4, m = n + 1,
           NEW from \in Active, NEW to \in Active, Enqueue(w, from, Ops[m], to),
           ~dead, Progress(w, n)
    PROVE  \/ worker'[w].at = "err"
           \/ worker'[w].at = to /\ Progress(w, m)'
<1>1. CASE stream' = Append(stream, [op |-> Ops[m], by |-> w]) /\ To(w, to)
  <2>1. /\ worker'[w].at = to /\ worker'[w].query = worker[w].query
        /\ worker'[w].buffer = worker[w].buffer
    BY <1>1, ToKeeps DEF Active
  <2>2. UNCHANGED <<scratch, prepared>>
    BY DEF Enqueue
  <2> QED BY <1>1, <2>1, <2>2, ProgressAppends
<1>2. CASE To(w, "err")
  BY <1>2, ToKeeps
<1> QED BY <1>1, <1>2 DEF Enqueue

(* The four operations of an evaluation as instances of Enqueue. *)
LEMMA EnqueueCases ==
    ASSUME NEW w, CopyQuery(w) \/ LaunchTile(w) \/ LaunchReduce(w) \/ CopyOut(w)
    PROVE  \/ Enqueue(w, "query", Ops[1], "tile")
           \/ Enqueue(w, "tile", Ops[2], "reduce")
           \/ Enqueue(w, "reduce", Ops[3], "dtoh")
           \/ Enqueue(w, "dtoh", Ops[4], "sync")
BY DEF CopyQuery, LaunchTile, LaunchReduce, CopyOut, Ops

LEMMA EnqueueOwnWork ==
    ASSUME TypeOK, OwnWork, NEW w \in Workers,
           CopyQuery(w) \/ LaunchTile(w) \/ LaunchReduce(w) \/ CopyOut(w)
    PROVE  OwnWork'
<1> SUFFICES ASSUME ~dead', NEW v \in Workers PROVE Phases(v)'
  BY DEF OwnWork
<1>1. ~dead
  BY EnqueueCases DEF Enqueue
<1>2. Phases(w)
  BY <1>1 DEF OwnWork
<1>3. worker[w].at \in Active
  BY EnqueueCases DEF Enqueue, Active
<1>4. CASE v # w
  <2>1. worker[v].at \notin Active
    BY <1>3, <1>4, OneActive
  <2>2. worker'[v] = worker[v]
    BY <1>4, EnqueueCases DEF Enqueue, To, TypeOK
  <2> QED BY <2>1, <2>2, PhasesInactive
<1>5. CASE v = w
  <2>1. CASE Enqueue(w, "query", Ops[1], "tile")
    <3>1. Progress(w, 0)
      BY <1>2, <2>1 DEF Enqueue, Phases
    <3>2. worker'[w].at = "err" \/ (worker'[w].at = "tile" /\ Progress(w, 1)')
      BY <1>1, <2>1, <3>1, EnqueueAdvances DEF Active
    <3> QED BY <1>5, <3>2 DEF Phases
  <2>2. CASE Enqueue(w, "tile", Ops[2], "reduce")
    <3>1. Progress(w, 1)
      BY <1>2, <2>2 DEF Enqueue, Phases
    <3>2. worker'[w].at = "err" \/ (worker'[w].at = "reduce" /\ Progress(w, 2)')
      BY <1>1, <2>2, <3>1, EnqueueAdvances DEF Active
    <3> QED BY <1>5, <3>2 DEF Phases
  <2>3. CASE Enqueue(w, "reduce", Ops[3], "dtoh")
    <3>1. Progress(w, 2)
      BY <1>2, <2>3 DEF Enqueue, Phases
    <3>2. worker'[w].at = "err" \/ (worker'[w].at = "dtoh" /\ Progress(w, 3)')
      BY <1>1, <2>3, <3>1, EnqueueAdvances DEF Active
    <3> QED BY <1>5, <3>2 DEF Phases
  <2>4. CASE Enqueue(w, "dtoh", Ops[4], "sync")
    <3>1. Progress(w, 3)
      BY <1>2, <2>4 DEF Enqueue, Phases
    <3>2. worker'[w].at = "err" \/ (worker'[w].at = "sync" /\ Progress(w, 4)')
      BY <1>1, <2>4, <3>1, EnqueueAdvances DEF Active
    <3> QED BY <1>5, <3>2 DEF Phases
  <2> QED BY <2>1, <2>2, <2>3, <2>4, EnqueueCases
<1> QED BY <1>4, <1>5

LEMMA ExecuteKeepsAt == ASSUME TypeOK, Execute PROVE \A v \in Workers : worker'[v].at = worker[v].at
<1>1. stream \in Seq(Operations) /\ stream # <<>>
  BY DEF TypeOK, Execute, Operations
<1>2. PICK op \in Operations : Effect(op)
  BY <1>1, HeadTailProperties DEF Execute
<1>3. op.by \in Workers /\ worker \in [Workers -> WorkerStates]
  BY DEF Operations, TypeOK, WorkerStates
<1>4. CASE worker' = [worker EXCEPT ![op.by].buffer = scratch.out]
  BY <1>3, <1>4 DEF WorkerStates
<1> QED BY <1>2, <1>4 DEF Effect

LEMMA ExecuteOwnWork == ASSUME TypeOK, OwnWork, Execute PROVE OwnWork'
<1> SUFFICES ASSUME NEW v \in Workers PROVE Phases(v)'
  BY DEF OwnWork
<1>1. Phases(v)
  BY DEF OwnWork, Execute
<1>2. worker'[v].at = worker[v].at
  BY ExecuteKeepsAt
<1>3. ASSUME NEW n \in 0..4, Progress(v, n) PROVE Progress(v, n)'
  BY <1>3, ProgressExecutes
<1> QED BY <1>1, <1>2, <1>3 DEF Phases

LEMMA OwnWorkStep == ASSUME TypeOK, PrepareAlone, OwnWork, [Next]_vars PROVE OwnWork'
<1>1. CASE UNCHANGED vars
  BY <1>1 DEF vars, OwnWork, Phases, Progress, Pending, Ran
<1>2. ASSUME Exclusive, UNCHANGED worker PROVE OwnWork'
  BY <1>2, PhasesInactive DEF Exclusive, OwnWork, Active
<1>3. ASSUME NEW d \in Databases, StartPrepare(d) PROVE OwnWork'
  BY <1>2, <1>3 DEF StartPrepare
<1>4. CASE PrepareFails \/ PrepareSucceeds
  BY <1>2, <1>4 DEF PrepareFails, PrepareSucceeds, PrepareAlone
<1>5. ASSUME NEW w \in Workers, worker'[w].at \notin Active, dead' = dead,
             \A v \in Workers : v # w => worker'[v] = worker[v],
             UNCHANGED <<stream, scratch, prepared>>
      PROVE  OwnWork'
  BY <1>5, PhasesKept, PhasesInactive DEF OwnWork
<1>6. ASSUME NEW w \in Workers, NEW d \in Databases, Call(w, Shape[d]) PROVE OwnWork'
  <2>1. /\ worker'[w].at = "lock" /\ \A v \in Workers : v # w => worker'[v] = worker[v]
        /\ dead' = dead /\ UNCHANGED <<stream, scratch, prepared>>
    BY <1>6 DEF Call, TypeOK
  <2> QED BY <1>5, <2>1 DEF Active
<1>7. ASSUME NEW w \in Workers, Lock(w) PROVE OwnWork'
  <2>1. dead' = dead /\ UNCHANGED <<stream, scratch, prepared>>
    BY <1>7 DEF Lock
  <2>2. CASE To(w, "query")
    <3>1. worker'[w].at = "query" /\ \A v \in Workers : v # w => worker'[v] = worker[v]
      BY <2>2, ToKeeps
    <3>2. Progress(w, 0)'
      <4>1. Len(stream') \in Nat
        BY <2>1 DEF TypeOK
      <4>2. Pending(w, 0)'
        BY DEF Pending
      <4>3. Ran(w, 0)'
        BY <4>1 DEF Ran
      <4> QED BY <4>2, <4>3 DEF Progress
    <3>3. Phases(w)'
      BY <3>1, <3>2 DEF Phases
    <3> QED BY <2>1, <3>1, <3>3, PhasesKept DEF OwnWork
  <2>3. CASE To(w, "err")
    BY <1>5, <2>1, <2>3, ToKeeps DEF Active
  <2>4. CASE LockEmpty(w)
    BY <1>5, <2>1, <2>4, EmptyKeeps DEF Active
  <2> QED BY <1>7, <2>2, <2>3, <2>4 DEF Lock, LockEmpty
<1>8. ASSUME NEW w \in Workers, CopyQuery(w) \/ LaunchTile(w) \/ LaunchReduce(w) \/ CopyOut(w)
      PROVE  OwnWork'
  BY <1>8, EnqueueOwnWork
<1>9. ASSUME NEW w \in Workers, Synchronize(w) PROVE OwnWork'
  <2>1. PICK where \in {"err", "ok"} : To(w, where)
    BY <1>9 DEF Synchronize
  <2>2. dead' = dead /\ UNCHANGED <<stream, scratch, prepared>>
    BY <1>9 DEF Synchronize
  <2> QED BY <1>5, <2>1, <2>2, ToKeeps DEF Active
<1>10. CASE Execute
  BY <1>10, ExecuteOwnWork
<1>11. CASE DeviceFails
  BY <1>11 DEF DeviceFails, OwnWork
<1> QED BY <1>1, <1>3, <1>4, <1>6, <1>7, <1>8, <1>9, <1>10, <1>11 DEF Next
-----------------------------------------------------------------------------
LEMMA PrepareAloneStep == ASSUME TypeOK, PrepareAlone, [Next]_vars PROVE PrepareAlone'
<1>1. CASE UNCHANGED vars
  BY <1>1 DEF vars, PrepareAlone, Exclusive
<1>2. ASSUME NEW d \in Databases, StartPrepare(d) PROVE PrepareAlone'
  BY <1>2 DEF StartPrepare, PrepareAlone, Exclusive
<1>3. CASE PrepareFails \/ PrepareSucceeds
  BY <1>3 DEF PrepareFails, PrepareSucceeds, PrepareAlone
<1>4. ASSUME NEW w \in Workers, NEW d \in Databases, Call(w, Shape[d]) PROVE PrepareAlone'
  BY <1>4 DEF Call, PrepareAlone
<1>5. ASSUME NEW w \in Workers, ~(worker[w].at \in {"idle", "ok", "err"}),
             UNCHANGED <<preparing, current, prepared>>
      PROVE  PrepareAlone'
  BY <1>5 DEF PrepareAlone, Exclusive
<1>6. ASSUME NEW w \in Workers, Lock(w) \/ Synchronize(w) PROVE PrepareAlone'
  BY <1>5, <1>6 DEF Lock, Synchronize
<1>7. ASSUME NEW w \in Workers, CopyQuery(w) \/ LaunchTile(w) \/ LaunchReduce(w) \/ CopyOut(w)
      PROVE  PrepareAlone'
  BY <1>5, <1>7 DEF CopyQuery, LaunchTile, LaunchReduce, CopyOut, Enqueue
<1>8. CASE Execute
  <2>1. UNCHANGED <<preparing, current, prepared>>
    BY <1>8 DEF Execute
  <2>2. \A v \in Workers : worker'[v].at = worker[v].at
    BY <1>8, ExecuteKeepsAt
  <2> QED BY <2>1, <2>2 DEF PrepareAlone, Exclusive
<1>9. CASE DeviceFails
  BY <1>9 DEF DeviceFails, PrepareAlone, Exclusive
<1> QED BY <1>1, <1>2, <1>3, <1>4, <1>6, <1>7, <1>8, <1>9 DEF Next

LEMMA QueuedByWorkers == ASSUME TypeOK, NEW i \in 1..Len(stream) PROVE stream[i].by \in Workers
<1>1. stream \in Seq(Operations)
  BY DEF TypeOK, Operations
<1>2. stream[i] \in Operations
  BY <1>1, ElementOfSeq
<1> QED BY <1>2 DEF Operations

(* A copy out is queued by a worker that goes on to synchronize, and a worker *)
(* leaves synchronize only when the stream is empty or dead.                  *)
LEMMA NoWriteStep == ASSUME TypeOK, NoWriteAfterReturn, [Next]_vars PROVE NoWriteAfterReturn'
<1>1. ASSUME UNCHANGED <<stream, dead>>,
             \A v \in Workers : worker[v].at = "sync" => worker'[v].at = "sync"
      PROVE  NoWriteAfterReturn'
  <2> SUFFICES ASSUME NEW i \in 1..Len(stream), stream[i].op = "dtoh", ~dead
               PROVE  worker'[stream[i].by].at = "sync"
    BY <1>1 DEF NoWriteAfterReturn
  <2>1. stream[i].by \in Workers
    BY QueuedByWorkers
  <2> QED BY <1>1, <2>1 DEF NoWriteAfterReturn
<1>2. CASE UNCHANGED vars
  BY <1>1, <1>2 DEF vars
<1>3. ASSUME NEW d \in Databases, StartPrepare(d) PROVE NoWriteAfterReturn'
  BY <1>1, <1>3 DEF StartPrepare
<1>4. CASE PrepareFails \/ PrepareSucceeds
  BY <1>1, <1>4 DEF PrepareFails, PrepareSucceeds
<1>5. ASSUME NEW w \in Workers, NEW d \in Databases, Call(w, Shape[d]) PROVE NoWriteAfterReturn'
  BY <1>1, <1>5 DEF Call, TypeOK
<1>6. ASSUME NEW w \in Workers, Lock(w) PROVE NoWriteAfterReturn'
  <2>1. worker[w].at # "sync" /\ UNCHANGED <<stream, dead>>
    BY <1>6 DEF Lock
  <2>2. \A v \in Workers : v # w => worker'[v] = worker[v]
    BY <1>6, EmptyKeeps DEF Lock, LockEmpty, To, TypeOK
  <2> QED BY <1>1, <2>1, <2>2
<1>7. ASSUME NEW w \in Workers, CopyQuery(w) \/ LaunchTile(w) \/ LaunchReduce(w) \/ CopyOut(w)
      PROVE  NoWriteAfterReturn'
  <2>1. worker[w].at # "sync" /\ dead' = dead
    BY <1>7 DEF CopyQuery, LaunchTile, LaunchReduce, CopyOut, Enqueue
  <2>2. \A v \in Workers : v # w => worker'[v] = worker[v]
    BY <1>7, EnqueueCases DEF Enqueue, To, TypeOK
  <2>3. CASE stream' = stream
    BY <1>1, <2>1, <2>2, <2>3
  <2>4. ASSUME NEW m \in 1..4, NEW to, To(w, to), to \in Active,
               stream' = Append(stream, [op |-> Ops[m], by |-> w]),
               Ops[m] = "dtoh" => to = "sync"
        PROVE  NoWriteAfterReturn'
    <3> SUFFICES ASSUME NEW i \in 1..Len(stream'), stream'[i].op = "dtoh", ~dead
                 PROVE  worker'[stream'[i].by].at = "sync"
      BY <2>1 DEF NoWriteAfterReturn
    <3>1. CASE i \in 1..Len(stream)
      <4>1. stream'[i] = stream[i] /\ stream[i].by \in Workers
        BY <2>4, <3>1, QueuedByWorkers DEF TypeOK
      <4>2. worker[stream[i].by].at = "sync"
        BY <3>1, <4>1 DEF NoWriteAfterReturn
      <4> QED BY <2>1, <2>2, <4>1, <4>2
    <3>2. CASE i = Len(stream) + 1
      <4>1. stream'[i] = [op |-> Ops[m], by |-> w]
        BY <2>4, <3>2 DEF TypeOK
      <4>2. worker'[w].at = to
        BY <2>4, ToKeeps DEF Active
      <4> QED BY <2>4, <4>1, <4>2
    <3>3. Len(stream') = Len(stream) + 1 /\ Len(stream) \in Nat
      BY <2>4 DEF TypeOK
    <3> QED BY <3>1, <3>2, <3>3
  <2>5. Ops[1] = "htod" /\ Ops[2] = "tile" /\ Ops[3] = "reduce" /\ Ops[4] = "dtoh"
    BY DEF Ops
  <2>6. CASE Enqueue(w, "query", Ops[1], "tile")
    BY <2>3, <2>4, <2>5, <2>6 DEF Enqueue, Active
  <2>7. CASE Enqueue(w, "tile", Ops[2], "reduce")
    BY <2>3, <2>4, <2>5, <2>7 DEF Enqueue, Active
  <2>8. CASE Enqueue(w, "reduce", Ops[3], "dtoh")
    BY <2>3, <2>4, <2>5, <2>8 DEF Enqueue, Active
  <2>9. CASE Enqueue(w, "dtoh", Ops[4], "sync")
    BY <2>3, <2>4, <2>5, <2>9 DEF Enqueue, Active
  <2> QED BY <1>7, <2>6, <2>7, <2>8, <2>9, EnqueueCases
<1>8. ASSUME NEW w \in Workers, Synchronize(w) PROVE NoWriteAfterReturn'
  BY <1>8 DEF Synchronize, NoWriteAfterReturn
<1>9. CASE Execute
  <2>1. \A v \in Workers : worker'[v].at = worker[v].at
    BY <1>9, ExecuteKeepsAt
  <2>2. stream \in Seq(Operations) /\ stream # <<>> /\ stream' = Tail(stream) /\ dead' = dead
    BY <1>9 DEF Execute, TypeOK, Operations
  <2>3. /\ Len(stream') = Len(stream) - 1 /\ Len(stream) \in Nat
        /\ \A i \in 1..Len(stream') : stream'[i] = stream[i + 1]
    BY <2>2, HeadTailProperties, LenProperties
  <2> SUFFICES ASSUME NEW i \in 1..Len(stream'), stream'[i].op = "dtoh", ~dead
               PROVE  worker'[stream'[i].by].at = "sync"
    BY <2>2 DEF NoWriteAfterReturn
  <2>4. i + 1 \in 1..Len(stream) /\ stream'[i] = stream[i + 1]
    BY <2>3
  <2>5. stream[i + 1].by \in Workers
    BY <2>4, QueuedByWorkers
  <2> QED BY <2>1, <2>4, <2>5 DEF NoWriteAfterReturn
<1>10. CASE DeviceFails
  BY <1>10 DEF DeviceFails, NoWriteAfterReturn
<1> QED BY <1>2, <1>3, <1>4, <1>5, <1>6, <1>7, <1>8, <1>9, <1>10 DEF Next

-----------------------------------------------------------------------------
LEMMA InitIInv == Init => IInv
<1> SUFFICES ASSUME Init PROVE IInv
  OBVIOUS
<1>1. TypeOK
  <2>1. Unset \in Pairs /\ Idle \in WorkerStates
    BY DEF Idle, Pairs, Unset, WorkerStates
  <2>2. scratch \in [query : Queries \union {NoQuery}, partial : Pairs, out : Pairs]
    BY <2>1 DEF Init
  <2>3. worker \in [Workers -> WorkerStates] /\ \A w \in Workers : worker[w].at = "idle"
    BY <2>1 DEF Init, Idle
  <2>4. calls \in [Workers \union {None} -> Nat] /\ stream \in Seq(Operations)
    BY DEF Init
  <2> QED BY <2>2, <2>3, <2>4, HostConstants DEF Init, TypeOK, WorkerStates, Operations
<1>2. \A w \in Workers : worker[w].at = "idle"
  BY DEF Init, Idle
<1>3. PrepareAlone /\ OwnWork /\ NoWriteAfterReturn
  BY <1>2 DEF Init, PrepareAlone, OwnWork, Phases, NoWriteAfterReturn
<1> QED BY <1>1, <1>3 DEF IInv

LEMMA StepKeepsIInv == ASSUME IInv, [Next]_vars PROVE IInv'
BY TypeStep, PrepareAloneStep, OwnWorkStep, NoWriteStep DEF IInv

(* Whichever driver call fails, and however many threads share the kernel, no *)
(* copy is left that could write to the slice of an evaluation that returned. *)
THEOREM NoLateWrites == Spec => []NoWriteAfterReturn
<1>1. IInv => NoWriteAfterReturn
  BY DEF IInv
<1> QED BY <1>1, InitIInv, StepKeepsIInv, PTL DEF Spec

(* An evaluation that returns Ok has written the product of its own query     *)
(* with the database that the last try_prepare uploaded, for any number of    *)
(* threads, databases and calls and whatever failed before.                   *)
THEOREM ResultsAreOwnProducts == Spec => ResultIsOwnProduct
<1> DEFINE Returns == \A w \in Workers :
             worker[w].at # "ok" /\ worker'[w].at = "ok" =>
                 worker'[w].buffer = Product(worker[w].query, current)
<1>1. IInv /\ [Next]_vars => [Returns]_vars
  <2> SUFFICES ASSUME IInv, Next, NEW w \in Workers, worker[w].at # "ok", worker'[w].at = "ok"
               PROVE  worker'[w].buffer = Product(worker[w].query, current)
    OBVIOUS
  <2>1. Synchronize(w) \/ LockEmpty(w)
    <3>1. ASSUME NEW v \in Workers, Synchronize(v) PROVE v = w
      BY <3>1 DEF Synchronize, To, IInv, TypeOK
    <3>2. ASSUME NEW v \in Workers, CopyQuery(v) \/ LaunchTile(v) \/ LaunchReduce(v) \/ CopyOut(v)
          PROVE  FALSE
      <4>1. PICK where \in {"tile", "reduce", "dtoh", "sync", "err"} : To(v, where)
        BY <3>2 DEF CopyQuery, LaunchTile, LaunchReduce, CopyOut, Enqueue
      <4> QED BY <4>1, ToKeeps DEF IInv
    <3>3. ASSUME NEW v \in Workers, Lock(v) PROVE v = w /\ LockEmpty(w)
      <4>1. ASSUME NEW where \in {"query", "err"}, To(v, where) PROVE FALSE
        BY <4>1, ToKeeps DEF IInv
      <4>2. LockEmpty(v)
        BY <3>3, <4>1 DEF Lock, LockEmpty
      <4>3. v = w
        BY <4>2, EmptyKeeps DEF IInv
      <4> QED BY <4>2, <4>3
    <3>4. ASSUME NEW v \in Workers, NEW d \in Databases, Call(v, Shape[d]) PROVE FALSE
      BY <3>4 DEF Call, IInv, TypeOK
    <3>5. ~Execute
      BY ExecuteKeepsAt DEF IInv
    <3>6. ~DeviceFails /\ ~PrepareFails /\ ~PrepareSucceeds /\ \A d \in Databases : ~StartPrepare(d)
      BY DEF DeviceFails, PrepareFails, PrepareSucceeds, StartPrepare
    <3> QED BY <3>1, <3>2, <3>3, <3>4, <3>5, <3>6 DEF Next
  <2>2. CASE LockEmpty(w)
    BY <2>2, EmptyKeeps DEF IInv, PrepareAlone
  <2>3. CASE Synchronize(w)
    <3>1. worker[w].at = "sync" /\ ~dead /\ stream = <<>> /\ worker'[w].buffer = worker[w].buffer
      BY <2>3 DEF Synchronize, To, IInv, TypeOK
    <3>2. Ran(w, 4)
      BY <3>1 DEF IInv, OwnWork, Phases, Progress
    <3>3. worker[w].buffer = Product(worker[w].query, prepared)
      <4>1. 4 - Len(stream) >= 4
        BY <3>1
      <4> QED BY <3>2, <4>1 DEF Ran
    <3> QED BY <3>1, <3>3 DEF IInv, PrepareAlone
  <2> QED BY <2>1, <2>2, <2>3
<1> QED BY <1>1, InitIInv, StepKeepsIInv, PTL DEF Spec, ResultIsOwnProduct

-----------------------------------------------------------------------------
(* The terms of a column, their halves, and the arithmetic modulo q. *)

Low(c, k) == [r \in 0..(c.rows - 1) |-> c.db[k][r] * (c.query[r] % Limb)]
High(c, k) == [r \in 0..(c.rows - 1) |-> c.db[k][r] * (c.query[r] \div Limb)]
Terms(c, k) == [r \in 0..(c.rows - 1) |-> c.db[k][r] * c.query[r]]
MaxTerm == (Limb - 1) * MaxItem

(* The rows of one thread, when s threads take turns. *)
Strided(f, t, s) == [r \in DOMAIN f |-> IF r % s = t THEN f[r] ELSE 0]

(* The rows and the column of a block. *)
Start(g) == (g % tiles) * TileRows
End(g) == IF ((g % tiles) + 1) * TileRows > call.rows THEN call.rows ELSE ((g % tiles) + 1) * TileRows
Col(g) == g \div tiles

LEMMA DeviceFacts ==
    /\ Limb \in Nat /\ Limb > 0 /\ Word \in Nat /\ Word > 0 /\ Word = Limb * Limb
    /\ Threads \in Nat /\ Threads > 1 /\ TileRows \in Nat /\ TileRows > 0 /\ MaxItem \in Nat
    /\ MaxTerm \in Nat /\ TileRows * MaxTerm < Word
<1>1. Limb \in Nat /\ Limb > 0
  BY DeviceConstants, PowerPositive DEF Limb
<1>2. Word = Limb * Limb
  BY DEF Word
<1>3. Word \in Nat /\ Word > 0
  BY <1>1, <1>2, SMT
<1>4. Threads \in Nat /\ Threads > 1
  <2>1. PICK k \in 1..Threads : Threads = 2^k
    BY DeviceConstants
  <2> QED BY <2>1, DeviceConstants, PowerPositive
<1>5. TileRows \in Nat /\ TileRows > 0 /\ MaxItem \in Nat
  BY DeviceConstants
<1> DEFINE m == Limb - 1
<1>6. m \in Nat
  BY <1>1
<1>7. MaxTerm = m * MaxItem /\ TileRows * m * MaxItem < Word
  BY DeviceConstants DEF MaxTerm
<1> HIDE DEF m
<1>8. m * MaxItem \in Nat /\ TileRows * (m * MaxItem) = TileRows * m * MaxItem
  BY <1>5, <1>6, SMT
<1> QED BY <1>1, <1>2, <1>3, <1>4, <1>5, <1>7, <1>8

LEMMA CallFacts ==
    ASSUME NEW c \in Calls
    PROVE  /\ c.q \in Nat /\ c.q > 0 /\ c.rows \in Nat /\ c.rows > 0 /\ c.cols \in Nat /\ c.cols > 0
           /\ \A r \in 0..(c.rows - 1) : c.query[r] \in 0..(Word - 1)
           /\ \A k \in 0..(c.cols - 1) : \A r \in 0..(c.rows - 1) : c.db[k][r] \in 0..MaxItem
<1>1. c.q \in 1..(Word - 1) /\ c.rows \in Nat \ {0} /\ c.cols \in Nat \ {0}
  BY DeviceConstants
<1>2. c.query \in [0..(c.rows - 1) -> 0..(Word - 1)]
  BY DeviceConstants
<1>3. c.db \in [0..(c.cols - 1) -> [0..(c.rows - 1) -> 0..MaxItem]]
  BY DeviceConstants
<1>4. c.q \in Nat /\ c.q > 0
  BY <1>1, DeviceFacts
<1>5. ASSUME NEW k \in 0..(c.cols - 1), NEW r \in 0..(c.rows - 1) PROVE c.db[k][r] \in 0..MaxItem
  <2>1. c.db[k] \in [0..(c.rows - 1) -> 0..MaxItem]
    BY <1>3
  <2> QED BY <2>1
<1>6. \A r \in 0..(c.rows - 1) : c.query[r] \in 0..(Word - 1)
  BY <1>2
<1>7. c.rows \in Nat /\ c.rows > 0 /\ c.cols \in Nat /\ c.cols > 0
  BY <1>1
<1> QED BY <1>4, <1>5, <1>6, <1>7

LEMMA TermFacts ==
    ASSUME NEW c \in Calls, NEW k \in 0..(c.cols - 1), NEW r \in 0..(c.rows - 1)
    PROVE  /\ Low(c, k)[r] \in Nat /\ Low(c, k)[r] <= MaxTerm
           /\ High(c, k)[r] \in Nat /\ High(c, k)[r] <= MaxTerm
           /\ Terms(c, k)[r] = Low(c, k)[r] + Limb * High(c, k)[r]
           /\ Terms(c, k)[r] \in Nat
<1> DEFINE v == c.db[k][r]
           x == c.query[r]
           l == x % Limb
           h == x \div Limb
<1>1. v \in 0..MaxItem /\ x \in 0..(Word - 1)
  BY CallFacts
<1>2. Low(c, k)[r] = v * l /\ High(c, k)[r] = v * h /\ Terms(c, k)[r] = v * x
  BY DEF Low, High, Terms
<1> HIDE DEF v, x
<1>3. v \in Nat /\ v <= MaxItem /\ x \in Nat /\ x < Word
  BY <1>1, DeviceFacts
<1>4. h \in Nat /\ l \in 0..(Limb - 1) /\ x = h * Limb + l
  BY <1>3, DeviceFacts, Divided
<1> HIDE DEF l, h
<1>5. l \in Nat /\ l <= Limb - 1 /\ Limb - 1 \in Nat
  BY <1>4, DeviceFacts
<1>6. h <= Limb - 1
  <2>1. SUFFICES ASSUME Limb <= h PROVE FALSE
    BY <1>4, <1>5, DeviceFacts
  <2>2. Limb * Limb <= h * Limb /\ h * Limb \in Nat
    BY <1>4, <2>1, DeviceFacts, ProductMonotone, SMT
  <2> QED BY <1>3, <1>4, <1>5, <2>2, DeviceFacts
<1>7. v * l <= MaxItem * (Limb - 1) /\ v * h <= MaxItem * (Limb - 1)
  BY <1>3, <1>4, <1>5, <1>6, DeviceFacts, ProductMonotone
<1>8. MaxItem * (Limb - 1) = MaxTerm
  <2>1. \A a, b \in Nat : a * b = b * a
    BY SMT
  <2> QED BY <1>5, <2>1, DeviceFacts DEF MaxTerm
<1>9. v * l \in Nat /\ v * h \in Nat /\ v * x \in Nat
  BY <1>3, <1>4, <1>5, SMT
<1>10. v * x = v * l + Limb * (v * h)
  BY <1>3, <1>4, <1>5, DeviceFacts, SMT
<1> QED BY <1>2, <1>7, <1>8, <1>9, <1>10

LEMMA AddMod ==
    ASSUME NEW q \in Nat, q > 0, NEW a \in 0..(q - 1), NEW b \in 0..(q - 1)
    PROVE  add_mod(a, b, q) = (a + b) % q /\ (a + b) % q \in 0..(q - 1)
<1>1. CASE a >= q - b
  <2> DEFINE r == a - (q - b)
  <2>1. r \in 0..(q - 1) /\ 1 * q + r = a + b /\ add_mod(a, b, q) = r
    BY <1>1 DEF add_mod
  <2> HIDE DEF r
  <2> QED BY <2>1, ModUnique
<1>2. CASE a + b < q
  <2>1. a + b \in 0..(q - 1) /\ add_mod(a, b, q) = a + b
    BY <1>2 DEF add_mod
  <2> QED BY <2>1, ModSmall
<1> QED BY <1>1, <1>2

LEMMA DoubledIsShift ==
    ASSUME call \in Calls, NEW b \in 0..(call.q - 1)
    PROVE  Doubled(b) = (b * Limb) % call.q
<1> DEFINE q == call.q
           e == [i \in 0..LimbBits |-> (b * 2^i) % q]
           D == CHOOSE d : d = [i \in 0..LimbBits |-> IF i = 0 THEN b ELSE add_mod(d[i - 1], d[i - 1], call.q)]
           S == {n \in Nat : n <= LimbBits => D[n] = (b * 2^n) % q}
<1>1. q \in Nat /\ q > 0 /\ b \in Nat /\ LimbBits \in Nat
  BY CallFacts, DeviceConstants
<1>2. (b * 2^0) % q = b
  <2>1. b * 2^0 = b
    BY <1>1, PowerZero
  <2> QED BY <1>1, <2>1, ModSmall
<1>3. ASSUME NEW n \in Nat
      PROVE  add_mod((b * 2^n) % q, (b * 2^n) % q, q) = (b * 2^(n + 1)) % q
  <2> DEFINE a == b * 2^n
  <2>1. 2^(n + 1) = 2 * 2^n /\ 2^n \in Nat
    BY PowerDoubles
  <2>2. a \in Nat /\ b * (2 * 2^n) = a + a
    BY <1>1, <2>1, SMT
  <2> HIDE DEF a
  <2>3. a % q \in 0..(q - 1)
    BY <1>1, <2>2, Divided
  <2>4. add_mod(a % q, a % q, q) = (a + a) % q
    <3>1. ((a % q) + (a % q)) % q = (a + a) % q
      BY <1>1, <2>2, ModSum
    <3>2. add_mod(a % q, a % q, q) = ((a % q) + (a % q)) % q
      <4> DEFINE x == a % q
      <4> HIDE DEF x
      <4>1. x \in 0..(q - 1)
        BY <2>3 DEF x
      <4>2. add_mod(x, x, q) = (x + x) % q
        BY <1>1, <4>1, AddMod
      <4> QED BY <4>2 DEF x
    <3> QED BY <3>1, <3>2
  <2> QED BY <2>1, <2>2, <2>4 DEF a
<1>4. e = [i \in 0..LimbBits |-> IF i = 0 THEN b ELSE add_mod(e[i - 1], e[i - 1], call.q)]
  <2>1. ASSUME NEW i \in 0..LimbBits
        PROVE  (b * 2^i) % q = IF i = 0 THEN b ELSE add_mod(e[i - 1], e[i - 1], call.q)
    <3>1. CASE i = 0
      BY <1>2, <3>1
    <3>2. CASE i # 0
      <4>1. i - 1 \in Nat /\ i - 1 \in 0..LimbBits /\ (i - 1) + 1 = i
        BY <1>1, <3>2
      <4>2. e[i - 1] = (b * 2^(i - 1)) % q
        BY <4>1
      <4>3. add_mod((b * 2^(i - 1)) % q, (b * 2^(i - 1)) % q, q) = (b * 2^((i - 1) + 1)) % q
        BY <1>3, <4>1
      <4> HIDE DEF e
      <4> QED BY <3>2, <4>1, <4>2, <4>3
    <3> QED BY <3>1, <3>2
  <2> QED BY <2>1
<1>5. D = [i \in 0..LimbBits |-> IF i = 0 THEN b ELSE add_mod(D[i - 1], D[i - 1], call.q)]
  <2> HIDE DEF e
  <2> QED BY <1>4, Zenon
<1>6. Doubled(b) = D[LimbBits]
  BY Zenon DEF Doubled
<1> HIDE DEF D
<1>7. 0 \in S
  BY <1>1, <1>2, <1>5
<1>8. ASSUME NEW n \in Nat, n \in S PROVE n + 1 \in S
  <2> SUFFICES ASSUME n + 1 <= LimbBits PROVE D[n + 1] = (b * 2^(n + 1)) % q
    OBVIOUS
  <2>1. n + 1 \in 0..LimbBits /\ n + 1 # 0 /\ (n + 1) - 1 = n /\ n <= LimbBits
    BY <1>1
  <2>2. D[n + 1] = add_mod(D[n], D[n], q)
    BY <1>5, <2>1
  <2>3. D[n] = (b * 2^n) % q
    BY <1>8, <2>1
  <2> QED BY <1>3, <2>2, <2>3
<1> HIDE DEF S
<1>9. LimbBits \in S
  BY <1>1, <1>7, <1>8, SetInduction
<1>10. D[LimbBits] = (b * 2^LimbBits) % q
  BY <1>1, <1>9 DEF S
<1> QED BY <1>6, <1>10 DEF Limb

(* A thread of a round takes over the rows of two. *)
LEMMA StrideSplits ==
    ASSUME NEW r \in Nat, NEW s \in Nat, s > 0, NEW t \in 0..(s - 1)
    PROVE  /\ r % s = t <=> r % (2 * s) = t \/ r % (2 * s) = t + s
           /\ t # t + s
<1> DEFINE d == r \div (2 * s)
           e == r % (2 * s)
<1>1. 2 * s \in Nat /\ 2 * s > 0
  OBVIOUS
<1>2. d \in Nat /\ e \in 0..(2 * s - 1) /\ r = d * (2 * s) + e
  BY <1>1, Divided
<1> HIDE DEF d, e
<1>3. d * (2 * s) = (2 * d) * s /\ (2 * d + 1) * s = (2 * d) * s + s /\ (2 * d) * s \in Nat
      /\ 2 * d \in Nat /\ 2 * d + 1 \in Nat
  BY <1>2, SMT
<1>4. CASE e < s
  <2>1. e \in 0..(s - 1) /\ r = (2 * d) * s + e
    BY <1>2, <1>3, <1>4
  <2>2. r % s = e
    BY <1>3, <2>1, ModUnique
  <2> QED BY <1>2, <1>4, <2>2 DEF e
<1>5. CASE e >= s
  <2>1. e - s \in 0..(s - 1) /\ r = (2 * d + 1) * s + (e - s)
    BY <1>2, <1>3, <1>5
  <2>2. r % s = e - s
    BY <1>3, <2>1, ModUnique
  <2> QED BY <1>2, <1>5, <2>2 DEF e
<1> QED BY <1>2, <1>4, <1>5

-----------------------------------------------------------------------------
(* The rows of a block, and of each of its threads *)

LEMMA TileFacts ==
    ASSUME call \in Calls
    PROVE  /\ tiles \in Nat /\ tiles > 0
           /\ call.rows <= tiles * TileRows /\ (tiles - 1) * TileRows < call.rows
           /\ tiles * TileRows \in Nat
<1> DEFINE n == call.rows + TileRows - 1
           s == n % TileRows
<1>1. n \in Nat /\ call.rows \in Nat /\ call.rows > 0 /\ TileRows \in Nat /\ TileRows > 0
      /\ n = call.rows + TileRows - 1
  BY CallFacts, DeviceFacts
<1> HIDE DEF n
<1>2. n \div TileRows \in Nat /\ s \in 0..(TileRows - 1) /\ n = (n \div TileRows) * TileRows + s
  BY <1>1, Divided
<1>3. tiles = n \div TileRows
  BY DEF tiles, n
<1>4. tiles \in Nat /\ n = tiles * TileRows + s
  BY <1>2, <1>3
<1> HIDE DEF s
<1>5. tiles * TileRows \in Nat
  BY <1>1, <1>4, ProductsAreNat
<1>6. call.rows <= tiles * TileRows /\ tiles * TileRows - TileRows < call.rows
  BY <1>1, <1>2, <1>4, <1>5
<1>7. tiles # 0
  <2>1. SUFFICES ASSUME tiles = 0 PROVE FALSE
    OBVIOUS
  <2>2. tiles * TileRows = 0
    BY <1>1, <2>1
  <2> QED BY <1>1, <1>6, <2>2
<1>8. (tiles - 1) * TileRows = tiles * TileRows - TileRows
  BY <1>1, <1>4, SMT
<1> QED BY <1>4, <1>5, <1>6, <1>7, <1>8

(* The rows of tile j. *)
LEMMA TileRange ==
    ASSUME call \in Calls, NEW j \in 0..(tiles - 1)
    PROVE  LET from == j * TileRows
               to == IF (j + 1) * TileRows > call.rows THEN call.rows ELSE (j + 1) * TileRows
           IN  /\ from \in Nat /\ to \in Nat /\ (j + 1) * TileRows = from + TileRows
               /\ from < to /\ to <= call.rows /\ to - from <= TileRows
<1> DEFINE a == j * TileRows
<1>1. /\ call.rows \in Nat /\ TileRows \in Nat /\ TileRows > 0 /\ j \in Nat
      /\ tiles - 1 \in Nat /\ j <= tiles - 1
  BY CallFacts, DeviceFacts, TileFacts
<1>2. a \in Nat /\ (j + 1) * TileRows = a + TileRows /\ (tiles - 1) * TileRows \in Nat
  BY <1>1, SMT
<1>3. a <= (tiles - 1) * TileRows
  BY <1>1, ProductMonotone
<1>4. a < call.rows
  BY <1>1, <1>2, <1>3, TileFacts
<1> HIDE DEF a
<1>5. /\ (IF a + TileRows > call.rows THEN call.rows ELSE a + TileRows) \in Nat
      /\ a < (IF a + TileRows > call.rows THEN call.rows ELSE a + TileRows)
      /\ (IF a + TileRows > call.rows THEN call.rows ELSE a + TileRows) <= call.rows
      /\ (IF a + TileRows > call.rows THEN call.rows ELSE a + TileRows) - a <= TileRows
  BY <1>1, <1>2, <1>4
<1> QED BY <1>2, <1>5 DEF a

LEMMA BlockFacts ==
    ASSUME call \in Calls, NEW g \in Blocks
    PROVE  /\ g \in Nat /\ Col(g) \in 0..(call.cols - 1) /\ g % tiles \in 0..(tiles - 1)
           /\ Start(g) \in Nat /\ End(g) \in Nat /\ Start(g) < End(g) /\ End(g) <= call.rows
           /\ End(g) - Start(g) <= TileRows
<1>1. /\ tiles \in Nat /\ tiles > 0 /\ call.cols \in Nat
      /\ g \in 0..(call.cols * tiles - 1) /\ call.cols * tiles \in Nat
  <2>1. tiles \in Nat /\ tiles > 0 /\ call.cols \in Nat
    BY TileFacts, CallFacts
  <2>2. call.cols * tiles \in Nat
    BY <2>1, ProductsAreNat
  <2> QED BY <2>1, <2>2 DEF Blocks
<1>2. g \in Nat /\ g < call.cols * tiles
  BY <1>1
<1>3. g \div tiles \in Nat /\ g % tiles \in 0..(tiles - 1) /\ g = (g \div tiles) * tiles + (g % tiles)
  BY <1>1, <1>2, Divided
<1> DEFINE d == g \div tiles
           j == g % tiles
<1>4. d \in Nat /\ j \in 0..(tiles - 1) /\ g = d * tiles + j
  BY <1>3
<1> HIDE DEF d, j
<1>5. d < call.cols
  <2>1. SUFFICES ASSUME call.cols <= d PROVE FALSE
    BY <1>1, <1>4
  <2>2. call.cols * tiles <= d * tiles /\ d * tiles \in Nat
    BY <1>1, <1>4, <2>1, ProductMonotone, SMT
  <2> QED BY <1>1, <1>2, <1>4, <2>2
<1>6. d \in 0..(call.cols - 1)
  BY <1>1, <1>4, <1>5
<1>7. Col(g) = d /\ g % tiles = j
  BY DEF Col, d, j
<1>8. /\ Start(g) \in Nat /\ End(g) \in Nat /\ Start(g) < End(g) /\ End(g) <= call.rows
      /\ End(g) - Start(g) <= TileRows
  <2>1. g % tiles \in 0..(tiles - 1)
    BY <1>3
  <2> DEFINE i == g % tiles
  <2> HIDE DEF i
  <2>2. i \in 0..(tiles - 1)
    BY <2>1 DEF i
  <2>3. /\ Start(g) = i * TileRows
        /\ End(g) = IF (i + 1) * TileRows > call.rows THEN call.rows ELSE (i + 1) * TileRows
    BY DEF Start, End, i
  <2> QED BY <2>2, <2>3, TileRange
<1> QED BY <1>2, <1>4, <1>6, <1>7, <1>8

LEMMA RowOfThread ==
    ASSUME call \in Calls, NEW g \in Blocks, NEW x \in 0..(Threads - 1)
    PROVE  (Start(g) + x) % Threads = x
<1> DEFINE m == TileRows \div Threads
           j == g % tiles
<1>1. Threads \in Nat /\ Threads > 0 /\ TileRows \in Nat /\ TileRows % Threads = 0 /\ j \in Nat
  BY DeviceFacts, DeviceConstants, BlockFacts
<1>2. m \in Nat /\ TileRows = m * Threads + 0
  BY <1>1, Divided
<1>3. Start(g) = j * TileRows
  BY DEF Start
<1> HIDE DEF m, j
<1>4. TileRows = m * Threads
  <2>1. m * Threads \in Nat
    BY <1>1, <1>2, ProductsAreNat
  <2> QED BY <1>2, <2>1
<1>5. j * (m * Threads) = (j * m) * Threads /\ j * m \in Nat
  BY <1>1, <1>2, SMT
<1>6. Start(g) = (j * m) * Threads
  BY <1>3, <1>4, <1>5
<1> DEFINE p == j * m
<1>7. p \in Nat /\ Start(g) = p * Threads
  BY <1>5, <1>6
<1> HIDE DEF p
<1>8. (p * Threads + x) % Threads = x
  BY <1>1, <1>7, ModUnique
<1> QED BY <1>7, <1>8

(* What a block sums up in lo and in hi. *)
Halves(g) == {Low(call, Col(g)), High(call, Col(g))}

LEMMA HalfFacts ==
    ASSUME call \in Calls, NEW g \in Blocks, NEW f \in Halves(g)
    PROVE  /\ DOMAIN f = 0..(call.rows - 1)
           /\ \A r \in 0..(call.rows - 1) : f[r] \in Nat /\ f[r] <= MaxTerm
<1>1. Col(g) \in 0..(call.cols - 1)
  BY BlockFacts
<1>2. CASE f = Low(call, Col(g))
  <2>1. DOMAIN f = 0..(call.rows - 1)
    BY <1>2 DEF Low
  <2> QED BY <1>1, <1>2, <2>1, TermFacts
<1>3. CASE f = High(call, Col(g))
  <2>1. DOMAIN f = 0..(call.rows - 1)
    BY <1>3 DEF High
  <2> QED BY <1>1, <1>3, <2>1, TermFacts
<1> QED BY <1>2, <1>3 DEF Halves

LEMMA StridedFacts ==
    ASSUME call \in Calls, NEW g \in Blocks, NEW f \in Halves(g), NEW t, NEW s,
           NEW r \in Start(g)..(End(g) - 1)
    PROVE  /\ r \in 0..(call.rows - 1) /\ f[r] \in Nat
           /\ Strided(f, t, s)[r] = IF r % s = t THEN f[r] ELSE 0
           /\ Strided(f, t, s)[r] \in Nat /\ Strided(f, t, s)[r] <= MaxTerm
<1>1. r \in 0..(call.rows - 1)
  <2>1. Start(g) \in Nat /\ End(g) \in Nat /\ End(g) <= call.rows /\ call.rows \in Nat
    BY BlockFacts, CallFacts
  <2> QED BY <2>1
<1>2. DOMAIN f = 0..(call.rows - 1) /\ f[r] \in Nat /\ f[r] <= MaxTerm
  BY <1>1, HalfFacts
<1>3. Strided(f, t, s)[r] = IF r % s = t THEN f[r] ELSE 0
  BY <1>1, <1>2 DEF Strided
<1> QED BY <1>1, <1>2, <1>3, DeviceFacts

(* No part of a tile's sum overflows a word. *)
LEMMA PartFits ==
    ASSUME call \in Calls, NEW g \in Blocks, NEW f \in Halves(g), NEW t, NEW s,
           NEW k \in Start(g)..End(g)
    PROVE  SumOf(Strided(f, t, s), Start(g), k) \in 0..(Word - 1)
<1> DEFINE h == Strided(f, t, s)
           a == Start(g)
<1>1. a \in Nat /\ End(g) \in Nat /\ End(g) - a <= TileRows /\ k \in Nat /\ a <= k /\ k <= End(g)
  BY BlockFacts
<1>2. \A r \in a..(k - 1) : h[r] \in Nat /\ h[r] <= MaxTerm
  <2>1. ASSUME NEW r \in a..(k - 1) PROVE h[r] \in Nat /\ h[r] <= MaxTerm
    <3>1. r \in Start(g)..(End(g) - 1)
      BY <1>1
    <3> QED BY <3>1, StridedFacts
  <2> QED BY <2>1
<1> HIDE DEF h, a
<1>3. SumOf(h, a, k) \in Nat /\ SumOf(h, a, k) <= (k - a) * MaxTerm
  BY <1>1, <1>2, DeviceFacts, SumBounded
<1>4. k - a \in Nat /\ k - a <= TileRows
  BY <1>1, DeviceFacts
<1>5. (k - a) * MaxTerm <= TileRows * MaxTerm
  BY <1>4, DeviceFacts, ProductMonotone
<1>6. (k - a) * MaxTerm \in Nat /\ TileRows * MaxTerm \in Nat
  BY <1>4, DeviceFacts, ProductsAreNat
<1>7. SumOf(h, a, k) < Word
  BY <1>3, <1>5, <1>6, DeviceFacts
<1>8. SumOf(h, a, k) \in 0..(Word - 1)
  BY <1>3, <1>7, DeviceFacts
<1> QED BY <1>8 DEF h, a

UpTo(g, row) == IF row <= End(g) THEN row ELSE End(g)

(* A thread's sum when the block starts, and after one more of its rows. *)
LEMMA StartSum ==
    ASSUME call \in Calls, NEW g \in Blocks, NEW f \in Halves(g), NEW t \in T
    PROVE  SumOf(Strided(f, t, Threads), Start(g), UpTo(g, Start(g) + t)) = 0
<1> DEFINE h == Strided(f, t, Threads)
           a == Start(g)
           b == UpTo(g, Start(g) + t)
<1>1. a \in Nat /\ End(g) \in Nat /\ a < End(g) /\ t \in Nat /\ t < Threads /\ Threads \in Nat
  BY BlockFacts, DeviceFacts DEF T
<1>2. b \in Nat /\ a <= b /\ b <= End(g) /\ b <= a + t
  BY <1>1 DEF UpTo
<1>3. ASSUME NEW r \in a..(b - 1) PROVE h[r] = 0
  <2> DEFINE x == r - a
  <2>1. x \in 0..(Threads - 1) /\ x # t /\ a + x = r /\ r \in Start(g)..(End(g) - 1)
    BY <1>1, <1>2
  <2> HIDE DEF x
  <2>2. r % Threads = x
    BY <2>1, RowOfThread
  <2> QED BY <2>1, <2>2, StridedFacts
<1> HIDE DEF h, a, b
<1>4. SumOf(h, a, a) = 0
  BY <1>1, SumStep
<1>5. SumOf(h, a, b) = SumOf(h, a, a)
  BY <1>1, <1>2, <1>3, <1>4, SumZero
<1>6. SumOf(h, a, b) = 0
  BY <1>4, <1>5
<1> QED BY <1>6 DEF h, a, b

LEMMA RowSum ==
    ASSUME call \in Calls, NEW g \in Blocks, NEW f \in Halves(g), NEW t \in T,
           NEW row \in Start(g)..(End(g) - 1), row % Threads = t
    PROVE  /\ (row + Threads) % Threads = t
           /\ SumOf(Strided(f, t, Threads), Start(g), UpTo(g, row + Threads)) =
                SumOf(Strided(f, t, Threads), Start(g), row) + f[row]
<1> DEFINE h == Strided(f, t, Threads)
           a == Start(g)
           b == UpTo(g, row + Threads)
           d == row \div Threads
<1>1. /\ a \in Nat /\ End(g) \in Nat /\ a <= row /\ row < End(g) /\ row \in Nat
      /\ t \in 0..(Threads - 1) /\ Threads \in Nat /\ Threads > 0
  BY BlockFacts, DeviceFacts DEF T
<1>2. d \in Nat /\ row = d * Threads + t
  BY <1>1, Divided
<1>3. b \in Nat /\ row + 1 <= b /\ b <= End(g) /\ b <= row + Threads
  BY <1>1, DeviceFacts DEF UpTo
<1> HIDE DEF d
<1>4. d * Threads \in Nat /\ (d + 1) * Threads = d * Threads + Threads /\ d + 1 \in Nat
  BY <1>1, <1>2, SMT
<1>5. ASSUME NEW r \in (row + 1)..(b - 1) PROVE h[r] = 0
  <2> DEFINE x == r - row
  <2>1. x \in Nat /\ x > 0 /\ x < Threads /\ r = row + x /\ r \in Start(g)..(End(g) - 1)
    BY <1>1, <1>3
  <2> HIDE DEF x
  <2>2. r % Threads # t
    <3>1. CASE t + x < Threads
      <4>1. t + x \in 0..(Threads - 1) /\ r = d * Threads + (t + x) /\ t + x # t
        BY <1>1, <1>2, <1>4, <2>1, <3>1
      <4> QED BY <1>1, <1>2, <4>1, ModUnique
    <3>2. CASE t + x >= Threads
      <4> DEFINE y == t + x - Threads
      <4>1. y \in 0..(Threads - 1) /\ r = (d + 1) * Threads + y /\ y # t
        BY <1>1, <1>2, <1>4, <2>1, <3>2
      <4> HIDE DEF y
      <4> QED BY <1>1, <1>4, <4>1, ModUnique
    <3> QED BY <1>1, <2>1, <3>1, <3>2
  <2> QED BY <2>1, <2>2, StridedFacts
<1>6. row + Threads = (d + 1) * Threads + t
  BY <1>1, <1>2, <1>4
<1>7. (row + Threads) % Threads = t
  <2> DEFINE e == d + 1
  <2> HIDE DEF e
  <2>1. e \in Nat /\ row + Threads = e * Threads + t
    BY <1>4, <1>6 DEF e
  <2>2. (e * Threads + t) % Threads = t
    BY <1>1, <2>1, ModUnique
  <2> QED BY <2>1, <2>2, Zenon
<1>8. h[row] = f[row] /\ f[row] \in Nat
  BY <1>1, StridedFacts
<1>9. SumOf(h, a, row) \in Nat
  <2>1. row \in Start(g)..End(g)
    BY <1>1
  <2>2. SumOf(h, a, row) \in 0..(Word - 1)
    BY <2>1, PartFits
  <2> QED BY <2>2, DeviceFacts
<1> HIDE DEF h, a, b
<1>10. SumOf(h, a, row + 1) = SumOf(h, a, row) + h[row]
  BY <1>1, SumStep
<1> DEFINE n == row + 1
<1>11. SumOf(h, a, n) \in Nat /\ n \in Nat /\ a <= n /\ n <= b /\ \A r \in n..(b - 1) : h[r] = 0
  BY <1>1, <1>3, <1>5, <1>8, <1>9, <1>10
<1> HIDE DEF n
<1>12. SumOf(h, a, b) = SumOf(h, a, n)
  BY <1>1, <1>3, <1>11, SumZero
<1>13. SumOf(h, a, b) = SumOf(h, a, row) + f[row]
  BY <1>8, <1>10, <1>12 DEF n
<1> QED BY <1>7, <1>13 DEF h, a, b

(* One round of the reduction. *)
LEMMA FoldSum ==
    ASSUME call \in Calls, NEW g \in Blocks, NEW f \in Halves(g), NEW s \in Nat, s > 0,
           NEW t \in 0..(s - 1)
    PROVE  SumOf(Strided(f, t, s), Start(g), End(g)) =
             SumOf(Strided(f, t, 2 * s), Start(g), End(g)) +
               SumOf(Strided(f, t + s, 2 * s), Start(g), End(g))
<1> DEFINE h == Strided(f, t, s)
           u == Strided(f, t, 2 * s)
           v == Strided(f, t + s, 2 * s)
           a == Start(g)
           b == End(g)
<1>1. a \in Nat /\ b \in Nat /\ a <= b
  BY BlockFacts
<1> DEFINE one == 1
<1>2. ASSUME NEW r \in a..(b - 1) PROVE u[r] \in Nat /\ v[r] \in Nat /\ h[r] = u[r] + one * v[r]
  <2>1. /\ h[r] = (IF r % s = t THEN f[r] ELSE 0) /\ f[r] \in Nat /\ r \in Nat
        /\ u[r] = (IF r % (2 * s) = t THEN f[r] ELSE 0)
        /\ v[r] = (IF r % (2 * s) = t + s THEN f[r] ELSE 0)
    <3>1. r \in Nat /\ f[r] \in Nat
      BY <1>1, StridedFacts
    <3>2. \A i, n : Strided(f, i, n)[r] = IF r % n = i THEN f[r] ELSE 0
      BY StridedFacts
    <3> QED BY <3>1, <3>2, Zenon
  <2>2. (r % s = t <=> r % (2 * s) = t \/ r % (2 * s) = t + s) /\ t # t + s
    BY <2>1, StrideSplits
  <2> HIDE DEF h, u, v
  <2> QED BY <2>1, <2>2
<1>0. one \in Nat
  OBVIOUS
<1> HIDE DEF h, u, v, a, b, one
<1>3. /\ SumOf(u, a, b) \in Nat /\ SumOf(v, a, b) \in Nat
      /\ SumOf(h, a, b) = SumOf(u, a, b) + one * SumOf(v, a, b)
  <2>1. Combines(h, u, v, one, a, b)
    BY <1>0, <1>1, <1>2 DEF Combines
  <2> QED BY <2>1, SumLinear
<1>4. SumOf(h, a, b) = SumOf(u, a, b) + SumOf(v, a, b)
  BY <1>3 DEF one
<1> QED BY <1>4 DEF h, u, v, a, b

LEMMA WholeSum ==
    ASSUME call \in Calls, NEW g \in Blocks, NEW f \in Halves(g)
    PROVE  Strided(f, 0, 1) = f
<1>1. DOMAIN f = 0..(call.rows - 1) /\ call.rows \in Nat
  BY HalfFacts, CallFacts
<1>2. ASSUME NEW r \in 0..(call.rows - 1) PROVE r % 1 = 0
  <2>1. r \in Nat /\ r * 1 + 0 = r
    BY <1>1
  <2> QED BY <2>1, ModUnique
<1>3. f = [r \in 0..(call.rows - 1) |-> f[r]]
  BY <1>1 DEF Halves, Low, High
<1> QED BY <1>1, <1>2, <1>3 DEF Strided

-----------------------------------------------------------------------------
(* What a block and a column come to *)

(* What the rows of a block and of a column add up to. *)
BlockSum(g) == SumOf(Terms(call, Col(g)), Start(g), End(g))
ColumnSum(k) == SumOf(Terms(call, k), 0, call.rows)

LEMMA BlockValue ==
    ASSUME call \in Calls, NEW g \in Blocks,
           NEW l, l = SumOf(Low(call, Col(g)), Start(g), End(g)),
           NEW h, h = SumOf(High(call, Col(g)), Start(g), End(g))
    PROVE  /\ add_mod(l % call.q, Doubled(h % call.q), call.q) = BlockSum(g) % call.q
           /\ BlockSum(g) % call.q \in 0..(call.q - 1)
<1> DEFINE q == call.q
           low == Low(call, Col(g))
           high == High(call, Col(g))
           terms == Terms(call, Col(g))
           a == Start(g)
           b == End(g)
<1>1. q \in Nat /\ q > 0 /\ Limb \in Nat
  BY CallFacts, DeviceFacts
<1>2. /\ a \in Nat /\ b \in Nat /\ a <= b /\ b <= call.rows /\ call.rows \in Nat
      /\ Col(g) \in 0..(call.cols - 1)
  BY BlockFacts, CallFacts
<1>3. ASSUME NEW r \in a..(b - 1)
      PROVE  low[r] \in Nat /\ high[r] \in Nat /\ terms[r] = low[r] + Limb * high[r]
  <2>1. r \in 0..(call.rows - 1)
    BY <1>2
  <2> QED BY <1>2, <2>1, TermFacts
<1>4. l = SumOf(low, a, b) /\ h = SumOf(high, a, b) /\ BlockSum(g) = SumOf(terms, a, b)
  BY DEF BlockSum
<1> HIDE DEF q, low, high, terms, a, b
<1>5. Combines(terms, low, high, Limb, a, b)
  BY <1>1, <1>2, <1>3 DEF Combines
<1>6. l \in Nat /\ h \in Nat /\ BlockSum(g) = l + Limb * h
  BY <1>4, <1>5, SumLinear
<1> DEFINE m == h * Limb
<1>7. m \in Nat /\ BlockSum(g) = l + m
  BY <1>1, <1>6, SMT
<1>8. h % q \in 0..(q - 1) /\ l % q \in 0..(q - 1)
  BY <1>1, <1>6, Divided
<1>9. Doubled(h % q) = m % q
  <2>1. Doubled(h % q) = ((h % q) * Limb) % q
    BY <1>8, DoubledIsShift DEF q
  <2>2. ((h % q) * Limb) % q = m % q
    <3>1. h \in Nat /\ q \in Nat /\ q > 0 /\ Limb \in Nat
      BY <1>1, <1>6
    <3> QED BY <3>1, ModProduct
  <2> QED BY <2>1, <2>2
<1> HIDE DEF m
<1>10. m % q \in 0..(q - 1)
  BY <1>1, <1>7, Divided
<1>11. add_mod(l % q, m % q, q) = ((l % q) + (m % q)) % q
  <2> DEFINE x == l % q
             y == m % q
  <2> HIDE DEF x, y
  <2>1. x \in 0..(q - 1) /\ y \in 0..(q - 1)
    BY <1>8, <1>10 DEF x, y
  <2>2. add_mod(x, y, q) = (x + y) % q
    BY <1>1, <2>1, AddMod
  <2> QED BY <2>2 DEF x, y
<1>12. ((l % q) + (m % q)) % q = (l + m) % q
  <2>1. l \in Nat /\ m \in Nat /\ q \in Nat /\ q > 0
    BY <1>1, <1>6, <1>7
  <2> QED BY <2>1, ModSum
<1>13. BlockSum(g) \in Nat
  <2>1. l \in Nat
    BY <1>6
  <2> QED BY <1>7, <2>1
<1>14. BlockSum(g) % q \in 0..(q - 1)
  BY <1>1, <1>13, Divided
<1> QED BY <1>7, <1>9, <1>11, <1>12, <1>14 DEF q

(* Tile j of a column is a block. *)
LEMMA TileBlock ==
    ASSUME call \in Calls, NEW k \in 0..(call.cols - 1), NEW j \in 0..(tiles - 1)
    PROVE  LET g == k * tiles + j IN g \in Blocks /\ Col(g) = k /\ g % tiles = j
<1> DEFINE x == k * tiles
           g == x + j
<1>1. tiles \in Nat /\ tiles > 0 /\ call.cols \in Nat /\ k \in Nat /\ k + 1 <= call.cols /\ j \in Nat
  BY TileFacts, CallFacts
<1>2. x \in Nat /\ (k + 1) * tiles = x + tiles /\ call.cols * tiles \in Nat
  BY <1>1, SMT
<1>3. (k + 1) * tiles <= call.cols * tiles
  BY <1>1, ProductMonotone
<1>4. g % tiles = j /\ g \div tiles = k
  BY <1>1, ModUnique
<1> HIDE DEF x
<1>5. g \in 0..(call.cols * tiles - 1)
  BY <1>1, <1>2, <1>3
<1> QED BY <1>4, <1>5 DEF x, Blocks, Col

(* The rows before tile j. *)
Before(j) == IF j * TileRows > call.rows THEN call.rows ELSE j * TileRows

LEMMA TileAdds ==
    ASSUME call \in Calls, NEW k \in 0..(call.cols - 1), NEW j \in 0..(tiles - 1)
    PROVE  /\ SumOf(Terms(call, k), 0, Before(j)) \in Nat
           /\ BlockSum(k * tiles + j) \in Nat
           /\ SumOf(Terms(call, k), 0, Before(j + 1)) =
                SumOf(Terms(call, k), 0, Before(j)) + BlockSum(k * tiles + j)
<1> DEFINE g == k * tiles + j
           f == Terms(call, k)
<1>1. g \in Blocks /\ Col(g) = k /\ g % tiles = j
  BY TileBlock
<1> HIDE DEF g
<1>2. /\ Start(g) \in Nat /\ End(g) \in Nat /\ Start(g) < End(g) /\ End(g) <= call.rows
      /\ call.rows \in Nat
  BY <1>1, BlockFacts, CallFacts
<1>3. Before(j + 1) = End(g)
  BY <1>1 DEF Before, End
<1>4. Before(j) = Start(g)
  <2>1. Start(g) = j * TileRows
    BY <1>1 DEF Start
  <2> QED BY <1>2, <2>1 DEF Before
<1>5. ASSUME NEW r \in 0..(End(g) - 1) PROVE f[r] \in Nat
  <2>1. r \in 0..(call.rows - 1)
    BY <1>2
  <2> QED BY <2>1, TermFacts
<1> HIDE DEF f
<1>6. /\ SumOf(f, 0, Start(g)) \in Nat /\ SumOf(f, Start(g), End(g)) \in Nat
      /\ SumOf(f, 0, End(g)) = SumOf(f, 0, Start(g)) + SumOf(f, Start(g), End(g))
  <2> DEFINE a == Start(g)
             b == End(g)
  <2>1. a \in Nat /\ b \in Nat /\ a <= b
    BY <1>2
  <2>2. \A r \in 0..(b - 1) : f[r] \in Nat
    BY <1>5
  <2> HIDE DEF a, b
  <2>3. /\ SumOf(f, 0, a) \in Nat /\ SumOf(f, a, b) \in Nat
        /\ SumOf(f, 0, b) = SumOf(f, 0, a) + SumOf(f, a, b)
    BY <2>1, <2>2, SumConcat
  <2> QED BY <2>3 DEF a, b
<1>7. BlockSum(g) = SumOf(f, Start(g), End(g))
  BY <1>1 DEF BlockSum, f
<1>8. /\ SumOf(f, 0, Before(j)) \in Nat /\ BlockSum(g) \in Nat
      /\ SumOf(f, 0, Before(j + 1)) = SumOf(f, 0, Before(j)) + BlockSum(g)
  BY <1>3, <1>4, <1>6, <1>7
<1> QED BY <1>8 DEF f, g

LEMMA ColumnValue ==
    ASSUME call \in Calls, NEW k \in 0..(call.cols - 1),
           \A g \in Blocks : partial[g] = BlockSum(g) % call.q
    PROVE  TilesOf(k) = ColumnSum(k) % call.q /\ ColumnSum(k) % call.q \in 0..(call.q - 1)
<1> DEFINE q == call.q
           V(j) == SumOf(Terms(call, k), 0, Before(j)) % q
           e == [j \in 0..tiles |-> V(j)]
           D == CHOOSE s : s = [t \in 0..tiles |->
                  IF t = 0 THEN 0 ELSE add_mod(s[t - 1], partial[k * tiles + t - 1], call.q)]
           S == {n \in Nat : n <= tiles => D[n] = V(n)}
<1>1. /\ q \in Nat /\ q > 0 /\ tiles \in Nat /\ tiles > 0 /\ call.rows \in Nat /\ k \in Nat
      /\ TileRows \in Nat /\ k * tiles \in Nat
  <2>1. q \in Nat /\ q > 0 /\ tiles \in Nat /\ tiles > 0 /\ call.rows \in Nat /\ k \in Nat /\ TileRows \in Nat
    BY CallFacts, DeviceFacts, TileFacts
  <2> QED BY <2>1, ProductsAreNat
<1>2. V(0) = 0
  <2>1. Before(0) = 0
    BY <1>1 DEF Before
  <2>2. SumOf(Terms(call, k), 0, 0) = 0
    BY SumStep
  <2>3. 0 % q = 0
    BY <1>1, ModSmall
  <2> QED BY <2>1, <2>2, <2>3
<1>3. ASSUME NEW n \in 0..(tiles - 1)
      PROVE  add_mod(V(n), partial[k * tiles + n], q) = V(n + 1) /\ V(n + 1) \in 0..(q - 1)
  <2> DEFINE g == k * tiles + n
             x == SumOf(Terms(call, k), 0, Before(n))
             y == BlockSum(g)
  <2>1. x \in Nat /\ y \in Nat /\ SumOf(Terms(call, k), 0, Before(n + 1)) = x + y
    BY TileAdds
  <2>2. g \in Blocks
    BY TileBlock
  <2>3. partial[g] = y % q
    BY <2>2
  <2>4. V(n) = x % q /\ V(n + 1) = (x + y) % q
    BY <2>1
  <2> HIDE DEF x, y, V
  <2>5. x % q \in 0..(q - 1) /\ y % q \in 0..(q - 1)
    BY <1>1, <2>1, Divided
  <2>6. add_mod(x % q, y % q, q) = ((x % q) + (y % q)) % q
    <3> DEFINE u == x % q
               v == y % q
    <3> HIDE DEF u, v
    <3>1. u \in 0..(q - 1) /\ v \in 0..(q - 1)
      BY <2>5 DEF u, v
    <3>2. add_mod(u, v, q) = (u + v) % q
      BY <1>1, <3>1, AddMod
    <3> QED BY <3>2 DEF u, v
  <2>7. ((x % q) + (y % q)) % q = (x + y) % q
    <3> HIDE DEF q
    <3>1. x \in Nat /\ y \in Nat /\ q \in Nat /\ q > 0
      BY <1>1, <2>1
    <3> QED BY <3>1, ModSum
  <2>8. x + y \in Nat
    BY <2>1
  <2>9. (x + y) % q \in 0..(q - 1)
    BY <1>1, <2>8, Divided
  <2> QED BY <2>3, <2>4, <2>6, <2>7, <2>9
<1> HIDE DEF V
<1>4. e = [t \in 0..tiles |-> IF t = 0 THEN 0 ELSE add_mod(e[t - 1], partial[k * tiles + t - 1], call.q)]
  <2>1. ASSUME NEW t \in 0..tiles
        PROVE  V(t) = IF t = 0 THEN 0 ELSE add_mod(e[t - 1], partial[k * tiles + t - 1], call.q)
    <3>1. CASE t = 0
      BY <1>2, <3>1
    <3>2. CASE t # 0
      <4> DEFINE n == t - 1
      <4>1. n \in 0..(tiles - 1) /\ n \in 0..tiles /\ n + 1 = t /\ k * tiles + t - 1 = k * tiles + n
        BY <1>1, <3>2
      <4>2. e[n] = V(n)
        BY <4>1
      <4> HIDE DEF e, n
      <4>3. add_mod(V(n), partial[k * tiles + n], q) = V(n + 1)
        BY <1>3, <4>1
      <4>4. V(t) = add_mod(e[n], partial[k * tiles + t - 1], q)
        BY <4>1, <4>2, <4>3
      <4> QED BY <3>2, <4>4 DEF n
    <3> QED BY <3>1, <3>2
  <2> QED BY <2>1
<1>5. D = [t \in 0..tiles |-> IF t = 0 THEN 0 ELSE add_mod(D[t - 1], partial[k * tiles + t - 1], call.q)]
  <2> HIDE DEF e
  <2> QED BY <1>4, Zenon
<1>6. TilesOf(k) = D[tiles]
  BY Zenon DEF TilesOf
<1> HIDE DEF D
<1>7. 0 \in S
  BY <1>1, <1>2, <1>5
<1>8. ASSUME NEW n \in Nat, n \in S PROVE n + 1 \in S
  <2> SUFFICES ASSUME n + 1 <= tiles PROVE D[n + 1] = V(n + 1)
    OBVIOUS
  <2>1. /\ n + 1 \in 0..tiles /\ n + 1 # 0 /\ (n + 1) - 1 = n /\ n <= tiles /\ n \in 0..(tiles - 1)
        /\ k * tiles + (n + 1) - 1 = k * tiles + n
    BY <1>1
  <2>2. D[n + 1] = add_mod(D[n], partial[k * tiles + n], q)
    BY <1>5, <2>1
  <2>3. D[n] = V(n)
    BY <1>8, <2>1
  <2> QED BY <1>3, <2>1, <2>2, <2>3
<1> HIDE DEF S
<1>9. tiles \in S
  BY <1>1, <1>7, <1>8, SetInduction
<1>10. D[tiles] = V(tiles)
  BY <1>1, <1>9 DEF S
<1>11. V(tiles) = ColumnSum(k) % q
  <2>1. tiles * TileRows >= call.rows /\ tiles * TileRows \in Nat
    BY TileFacts
  <2>2. Before(tiles) = call.rows
    BY <1>1, <2>1 DEF Before
  <2> QED BY <2>2 DEF V, ColumnSum
<1>12. V(tiles) \in 0..(q - 1)
  <2> DEFINE n == tiles - 1
  <2>1. n \in 0..(tiles - 1) /\ n + 1 = tiles
    BY <1>1
  <2> HIDE DEF n
  <2> QED BY <1>3, <2>1
<1> QED BY <1>6, <1>10, <1>11, <1>12

-----------------------------------------------------------------------------
(* The invariant *)

(* What thread t holds of the rows of block g below n when s threads take turns. *)
LowPart(g, t, s, n) == SumOf(Strided(Low(call, Col(g)), t, s), Start(g), n)
HighPart(g, t, s, n) == SumOf(Strided(High(call, Col(g)), t, s), Start(g), n)

(* A thread that sums its rows. *)
Summed(t) ==
    LET n == UpTo(block, thread[t].row)
    IN  /\ thread[t].row >= Start(block) /\ thread[t].row % Threads = t
        /\ thread[t].a = LowPart(block, t, Threads, n)
        /\ thread[t].b = HighPart(block, t, Threads, n)
        /\ thread[t].waits => thread[t].row >= End(block) /\ lo[t] = thread[t].a /\ hi[t] = thread[t].b

(* In a round of the reduction the lower half of the entries takes over the    *)
(* rows of the upper half, one thread at a time.                               *)
Folded(t) ==
    LET s == IF t < stride /\ thread[t].waits THEN stride ELSE 2 * stride
    IN  lo[t] = LowPart(block, t, s, End(block)) /\ hi[t] = HighPart(block, t, s, End(block))

Reduction == block # NoBlock =>
    /\ stride # 0 => \E k \in 0..Threads : stride = 2^k
    /\ stride = Summing => \A t \in T : Summed(t)
    /\ stride \in 1..(Threads - 1) => \A t \in T : t < 2 * stride => Folded(t)
    /\ stride = 0 => /\ \A t \in T : ~ thread[t].waits
                     /\ lo[0] = LowPart(block, 0, 1, End(block))
                     /\ hi[0] = HighPart(block, 0, 1, End(block))

Stored ==
    /\ \A g \in finished : partial[g] = BlockSum(g) % call.q
    /\ \A k \in 0..(call.cols - 1) : \A value \in out[k] : value = ColumnSum(k) % call.q

MatvecInv == MatvecOK /\ Reduction /\ Stored

-----------------------------------------------------------------------------
LEMMA StoredKept ==
    ASSUME Stored, UNCHANGED <<call, finished, partial, out>> PROVE Stored'
BY DEF Stored, BlockSum, ColumnSum, Col, Start, End, tiles

LEMMA BlocksKept ==
    ASSUME call' = call
    PROVE  /\ tiles' = tiles /\ Blocks' = Blocks
           /\ \A g : Start(g)' = Start(g) /\ End(g)' = End(g) /\ Col(g)' = Col(g)
           /\ \A g, t, s, n : LowPart(g, t, s, n)' = LowPart(g, t, s, n)
           /\ \A g, t, s, n : HighPart(g, t, s, n)' = HighPart(g, t, s, n)
<1>1. tiles' = tiles
  BY DEF tiles
<1>2. Blocks' = Blocks
  BY <1>1 DEF Blocks
<1>3. \A g : Start(g)' = Start(g) /\ End(g)' = End(g) /\ Col(g)' = Col(g)
  BY <1>1 DEF Start, End, Col
<1>4. \A g, t, s, n : LowPart(g, t, s, n)' = LowPart(g, t, s, n)
  BY <1>3 DEF LowPart
<1>5. \A g, t, s, n : HighPart(g, t, s, n)' = HighPart(g, t, s, n)
  BY <1>3 DEF HighPart
<1> QED BY <1>1, <1>2, <1>3, <1>4, <1>5

(* The two sums of a row, one more row and one more round. *)
LEMMA AddRow ==
    ASSUME call \in Calls, NEW g \in Blocks, NEW t \in T,
           NEW row \in Start(g)..(End(g) - 1), row % Threads = t
    PROVE  LET x == call.query[row]
               v == call.db[Col(g)][row]
           IN  /\ (LowPart(g, t, Threads, UpTo(g, row)) + v * (x % Limb)) % Word =
                    LowPart(g, t, Threads, UpTo(g, row + Threads))
               /\ (HighPart(g, t, Threads, UpTo(g, row)) + v * (x \div Limb)) % Word =
                    HighPart(g, t, Threads, UpTo(g, row + Threads))
<1>1. /\ Start(g) \in Nat /\ End(g) \in Nat /\ End(g) <= call.rows /\ call.rows \in Nat
      /\ Threads \in Nat /\ Threads > 0
  BY BlockFacts, CallFacts, DeviceFacts
<1>2. UpTo(g, row) = row /\ UpTo(g, row + Threads) \in Start(g)..End(g) /\ row \in 0..(call.rows - 1)
  BY <1>1 DEF UpTo
<1>3. ASSUME NEW f \in Halves(g)
      PROVE  (SumOf(Strided(f, t, Threads), Start(g), row) + f[row]) % Word =
               SumOf(Strided(f, t, Threads), Start(g), UpTo(g, row + Threads))
  <2> DEFINE y == SumOf(Strided(f, t, Threads), Start(g), row) + f[row]
             z == SumOf(Strided(f, t, Threads), Start(g), UpTo(g, row + Threads))
  <2>1. z = y
    BY RowSum
  <2>2. z \in 0..(Word - 1)
    BY <1>2, PartFits
  <2> HIDE DEF y, z
  <2>3. y % Word = z
    BY <2>1, <2>2, DeviceFacts, ModSmall
  <2> QED BY <2>3 DEF y, z
<1>4. Low(call, Col(g)) \in Halves(g) /\ High(call, Col(g)) \in Halves(g)
  BY DEF Halves
<1>5. /\ Low(call, Col(g))[row] = call.db[Col(g)][row] * (call.query[row] % Limb)
      /\ High(call, Col(g))[row] = call.db[Col(g)][row] * (call.query[row] \div Limb)
  BY <1>2 DEF Low, High
<1>6. /\ (LowPart(g, t, Threads, row) + Low(call, Col(g))[row]) % Word =
           LowPart(g, t, Threads, UpTo(g, row + Threads))
      /\ (HighPart(g, t, Threads, row) + High(call, Col(g))[row]) % Word =
           HighPart(g, t, Threads, UpTo(g, row + Threads))
  BY <1>3, <1>4, Zenon DEF LowPart, HighPart
<1> QED BY <1>2, <1>5, <1>6, Zenon

LEMMA AddRound ==
    ASSUME call \in Calls, NEW g \in Blocks, NEW s \in Nat, s > 0, NEW t \in 0..(s - 1)
    PROVE  /\ (LowPart(g, t, 2 * s, End(g)) + LowPart(g, t + s, 2 * s, End(g))) % Word =
                LowPart(g, t, s, End(g))
           /\ (HighPart(g, t, 2 * s, End(g)) + HighPart(g, t + s, 2 * s, End(g))) % Word =
                HighPart(g, t, s, End(g))
<1>1. ASSUME NEW f \in Halves(g)
      PROVE  (SumOf(Strided(f, t, 2 * s), Start(g), End(g)) +
                SumOf(Strided(f, t + s, 2 * s), Start(g), End(g))) % Word = SumOf(Strided(f, t, s), Start(g), End(g))
  <2> DEFINE y == SumOf(Strided(f, t, 2 * s), Start(g), End(g)) +
                    SumOf(Strided(f, t + s, 2 * s), Start(g), End(g))
             z == SumOf(Strided(f, t, s), Start(g), End(g))
  <2>1. z = y
    BY FoldSum
  <2>2. End(g) \in Start(g)..End(g)
    BY BlockFacts
  <2>3. z \in 0..(Word - 1)
    BY <2>2, PartFits
  <2> HIDE DEF y, z
  <2>4. y % Word = z
    BY <2>1, <2>3, DeviceFacts, ModSmall
  <2> QED BY <2>4 DEF y, z
<1>2. Low(call, Col(g)) \in Halves(g) /\ High(call, Col(g)) \in Halves(g)
  BY DEF Halves
<1> QED BY <1>1, <1>2, Zenon DEF LowPart, HighPart

LEMMA NoRowsYet ==
    ASSUME call \in Calls, NEW g \in Blocks, NEW t \in T
    PROVE  /\ LowPart(g, t, Threads, UpTo(g, Start(g) + t)) = 0
           /\ HighPart(g, t, Threads, UpTo(g, Start(g) + t)) = 0
<1>1. Low(call, Col(g)) \in Halves(g) /\ High(call, Col(g)) \in Halves(g)
  BY DEF Halves
<1> QED BY <1>1, StartSum DEF LowPart, HighPart

LEMMA AllRows ==
    ASSUME call \in Calls, NEW g \in Blocks
    PROVE  /\ LowPart(g, 0, 1, End(g)) = SumOf(Low(call, Col(g)), Start(g), End(g))
           /\ HighPart(g, 0, 1, End(g)) = SumOf(High(call, Col(g)), Start(g), End(g))
<1>1. Low(call, Col(g)) \in Halves(g) /\ High(call, Col(g)) \in Halves(g)
  BY DEF Halves
<1>2. /\ Strided(Low(call, Col(g)), 0, 1) = Low(call, Col(g))
      /\ Strided(High(call, Col(g)), 0, 1) = High(call, Col(g))
  BY <1>1, WholeSum
<1> QED BY <1>2 DEF LowPart, HighPart

Thread == [waits : BOOLEAN, row : Nat, a : 0..(Word - 1), b : 0..(Word - 1)]

LEMMA MatvecStarts == ASSUME MatvecInit PROVE MatvecInv
<1>1. /\ 0 \in 0..(Word - 1) /\ Stale \in 0..(Word - 1) /\ Threads \in Nat
      /\ call.q \in Nat /\ call.q > 0
  BY DeviceFacts, DeviceConstants, CallFacts DEF MatvecInit
<1>2. IdleThread \in Thread /\ 0 \in 0..(call.q - 1)
  BY <1>1 DEF IdleThread, Thread
<1>3. MatvecOK
  BY <1>1, <1>2 DEF MatvecInit, MatvecOK, Thread, Summing
<1>4. Reduction
  BY DEF Reduction, MatvecInit
<1>5. Stored
  BY DEF Stored, MatvecInit
<1> QED BY <1>3, <1>4, <1>5 DEF MatvecInv

LEMMA StartBlockStep == ASSUME MatvecInv, NEW g \in Blocks, StartBlock(g) PROVE MatvecInv'
<1> DEFINE Begun(t) == [IdleThread EXCEPT !.row = Start(g) + t]
<1>1. /\ call \in Calls /\ g \in Blocks /\ block' = g /\ stride' = Threads
      /\ UNCHANGED <<call, finished, lo, hi, partial, out>>
      /\ thread' = [t \in T |-> Begun(t)]
  BY DEF MatvecInv, MatvecOK, StartBlock, Summing, Start
<1>2. /\ Start(g) \in Nat /\ g \in Nat /\ 0 \in 0..(Word - 1) /\ Threads \in Nat /\ Threads > 1
  BY <1>1, BlockFacts, DeviceFacts
<1>3. ASSUME NEW t \in T
      PROVE  /\ Begun(t) \in Thread /\ Begun(t).row = Start(g) + t
             /\ Begun(t).a = 0 /\ Begun(t).b = 0 /\ ~ Begun(t).waits
  <2>1. Start(g) + t \in Nat
    BY <1>2 DEF T
  <2> QED BY <1>2, <2>1 DEF IdleThread, Thread
<1> HIDE DEF Begun
<1>4. MatvecOK'
  <2>1. thread' \in [T -> Thread]
    BY <1>1, <1>3
  <2>2. stride' \in 0..Summing
    BY <1>1, <1>2 DEF Summing
  <2> QED BY <1>1, <2>1, <2>2, BlocksKept DEF MatvecInv, MatvecOK, Thread
<1>5. Reduction'
  <2>1. ASSUME NEW t \in T PROVE Summed(t)'
    <3>1. /\ thread'[t].row = Start(g) + t /\ thread'[t].a = 0 /\ thread'[t].b = 0
          /\ ~ thread'[t].waits /\ t \in 0..(Threads - 1)
      BY <1>1, <1>3 DEF T
    <3>2. (Start(g) + t) % Threads = t /\ Start(g) + t >= Start(g)
      BY <1>1, <1>2, <3>1, RowOfThread
    <3>3. /\ LowPart(g, t, Threads, UpTo(g, Start(g) + t)) = 0
          /\ HighPart(g, t, Threads, UpTo(g, Start(g) + t)) = 0
      BY <1>1, NoRowsYet
    <3> QED BY <1>1, <3>1, <3>2, <3>3 DEF Summed, LowPart, HighPart, UpTo, Start, End, Col, tiles
  <2>2. \E k \in 0..Threads : stride' = 2^k
    BY <1>1, <1>2, DeviceConstants
  <2>3. stride' # 0 /\ stride' \notin 1..(Threads - 1)
    BY <1>1, <1>2
  <2> QED BY <2>1, <2>2, <2>3 DEF Reduction
<1> QED BY <1>1, <1>4, <1>5, StoredKept DEF MatvecInv

(* A step of one thread. *)
LEMMA RunningFacts ==
    ASSUME MatvecInv, NEW t \in T, Running(t)
    PROVE  /\ call \in Calls /\ block \in Blocks /\ thread \in [T -> Thread] /\ t \in 0..(Threads - 1)
           /\ ~ thread[t].waits /\ thread[t].row \in Nat
           /\ Start(block) \in Nat /\ End(block) \in Nat /\ TileEnd = End(block) /\ col = Col(block)
           /\ stride \in 0..Threads
<1>1. call \in Calls /\ block \in Blocks /\ thread \in [T -> Thread]
  BY DEF MatvecInv, MatvecOK, Running, Thread
<1>2. thread[t] \in Thread
  BY <1>1
<1> QED BY <1>1, <1>2, BlockFacts
           DEF Thread, TileEnd, End, tile, col, Col, MatvecInv, MatvecOK, Running, T, Summing

LEMMA SumRowStep == ASSUME MatvecInv, NEW t \in T, SumRow(t) PROVE MatvecInv'
<1> DEFINE g == block
           row == thread[t].row
           x == call.query[row]
           v == call.db[Col(g)][row]
           a == (thread[t].a + v * (x % Limb)) % Word
           b == (thread[t].b + v * (x \div Limb)) % Word
           next == [thread[t] EXCEPT !.a = a, !.b = b, !.row = row + Threads]
<1>0. Running(t) /\ stride = Summing /\ row < TileEnd
  BY DEF SumRow
<1>1. /\ call \in Calls /\ block \in Blocks /\ thread \in [T -> Thread] /\ t \in 0..(Threads - 1)
      /\ ~ thread[t].waits /\ row \in Nat /\ row < End(g)
      /\ Start(g) \in Nat /\ End(g) \in Nat /\ col = Col(g) /\ stride = Threads
  BY <1>0, RunningFacts DEF Summing
<1>2. Summed(t) /\ block # NoBlock
  BY <1>0 DEF MatvecInv, Reduction, Running
<1>3. /\ row >= Start(g) /\ row % Threads = t /\ row \in Start(g)..(End(g) - 1)
      /\ thread[t].a = LowPart(g, t, Threads, UpTo(g, row))
      /\ thread[t].b = HighPart(g, t, Threads, UpTo(g, row))
  BY <1>1, <1>2 DEF Summed
<1>4. /\ a = LowPart(g, t, Threads, UpTo(g, row + Threads))
      /\ b = HighPart(g, t, Threads, UpTo(g, row + Threads))
  BY <1>1, <1>3, AddRow
<1>5. (row + Threads) % Threads = t /\ row + Threads >= Start(g) /\ row + Threads \in Nat
  <2>1. Threads \in Nat /\ Low(call, Col(g)) \in Halves(g)
    BY DeviceFacts DEF Halves
  <2>2. (row + Threads) % Threads = t
    BY <1>1, <1>3, <2>1, RowSum
  <2> QED BY <1>1, <1>3, <2>1, <2>2
<1>6. a \in 0..(Word - 1) /\ b \in 0..(Word - 1)
  <2>1. UpTo(g, row + Threads) \in Start(g)..End(g)
    BY <1>1, <1>3, <1>5 DEF UpTo
  <2>2. Low(call, Col(g)) \in Halves(g) /\ High(call, Col(g)) \in Halves(g)
    BY DEF Halves
  <2> QED BY <1>1, <1>4, <2>1, <2>2, PartFits DEF LowPart, HighPart
<1>7. thread' = [thread EXCEPT ![t] = next]
  <2>1. thread' = [thread EXCEPT ![t].a = a, ![t].b = b, ![t].row = row + Threads]
    BY <1>1 DEF SumRow
  <2> HIDE DEF a, b, row
  <2> QED BY <1>1, <2>1
<1>8. UNCHANGED <<call, finished, block, stride, lo, hi, partial, out>>
  BY DEF SumRow
<1> HIDE DEF a, b
<1>9. /\ next \in Thread /\ next.row = row + Threads /\ next.a = a /\ next.b = b
      /\ ~ next.waits
  <2>1. thread[t] \in Thread
    BY <1>1
  <2> QED BY <1>1, <1>5, <1>6, <2>1 DEF Thread
<1> HIDE DEF next
<1>10. MatvecOK'
  <2>1. thread' \in [T -> Thread]
    BY <1>1, <1>7, <1>9
  <2> QED BY <1>8, <2>1, BlocksKept DEF MatvecInv, MatvecOK, Thread
<1>11. Reduction'
  <2>1. ASSUME NEW u \in T PROVE Summed(u)'
    <3>1. CASE u = t
      <4>1. /\ thread'[u].row = row + Threads /\ thread'[u].a = a /\ thread'[u].b = b
            /\ ~ thread'[u].waits
        BY <1>1, <1>7, <1>9, <3>1
      <4>2. /\ thread'[u].row >= Start(g) /\ thread'[u].row % Threads = u
            /\ thread'[u].a = LowPart(g, u, Threads, UpTo(g, thread'[u].row))
            /\ thread'[u].b = HighPart(g, u, Threads, UpTo(g, thread'[u].row))
        BY <1>4, <1>5, <3>1, <4>1
      <4> QED BY <1>8, <4>1, <4>2 DEF Summed, LowPart, HighPart, UpTo, Start, End, Col, tiles
    <3>2. CASE u # t
      <4>1. thread'[u] = thread[u]
        BY <1>1, <1>7, <3>2
      <4>2. Summed(u)
        BY <1>0, <1>2 DEF MatvecInv, Reduction
      <4> QED BY <1>8, <4>1, <4>2 DEF Summed, LowPart, HighPart, UpTo, Start, End, Col, tiles
    <3> QED BY <3>1, <3>2
  <2>2. /\ stride # 0 /\ stride \notin 1..(Threads - 1)
        /\ \E k \in 0..Threads : stride = 2^k
    BY <1>1, <1>2, DeviceFacts DEF MatvecInv, Reduction
  <2> QED BY <1>8, <2>1, <2>2 DEF Reduction
<1> QED BY <1>8, <1>10, <1>11, StoredKept DEF MatvecInv

(* A thread that goes to the barrier. *)
LEMMA WaitFacts ==
    ASSUME MatvecInv, NEW t \in T, thread' = [thread EXCEPT ![t].waits = TRUE]
    PROVE  /\ thread' \in [T -> Thread]
           /\ \A u \in T : /\ thread'[u].row = thread[u].row
                           /\ thread'[u].a = thread[u].a /\ thread'[u].b = thread[u].b
                           /\ u # t => thread'[u] = thread[u]
           /\ thread'[t].waits
<1> DEFINE next == [thread[t] EXCEPT !.waits = TRUE]
<1>1. thread \in [T -> Thread]
  BY DEF MatvecInv, MatvecOK, Thread
<1>2. thread[t] \in Thread
  BY <1>1
<1>3. /\ next \in Thread /\ next.row = thread[t].row /\ next.a = thread[t].a /\ next.b = thread[t].b
      /\ next.waits
  BY <1>2 DEF Thread
<1>4. thread' = [thread EXCEPT ![t] = next]
  BY <1>1
<1> HIDE DEF next
<1> QED BY <1>1, <1>3, <1>4

LEMMA PublishStep == ASSUME MatvecInv, NEW t \in T, Publish(t) PROVE MatvecInv'
<1>0. Running(t) /\ stride = Summing /\ thread[t].row >= TileEnd
  BY DEF Publish
<1>1. /\ call \in Calls /\ block \in Blocks /\ thread \in [T -> Thread] /\ thread[t].row >= End(block)
      /\ stride = Threads
  BY <1>0, RunningFacts DEF Summing
<1>2. /\ lo' = [lo EXCEPT ![t] = thread[t].a] /\ hi' = [hi EXCEPT ![t] = thread[t].b]
      /\ thread' = [thread EXCEPT ![t].waits = TRUE]
      /\ UNCHANGED <<call, finished, block, stride, partial, out>>
  BY DEF Publish
<1>3. lo \in [T -> 0..(Word - 1)] /\ hi \in [T -> 0..(Word - 1)] /\ block # NoBlock
  BY <1>0 DEF MatvecInv, MatvecOK, Running
<1>4. MatvecOK'
  <2>1. thread[t].a \in 0..(Word - 1) /\ thread[t].b \in 0..(Word - 1)
    BY <1>1 DEF Thread
  <2>2. lo' \in [T -> 0..(Word - 1)] /\ hi' \in [T -> 0..(Word - 1)]
    BY <1>2, <1>3, <2>1
  <2> QED BY <1>2, <2>2, BlocksKept, WaitFacts DEF MatvecInv, MatvecOK, Thread
<1>5. Reduction'
  <2>1. ASSUME NEW u \in T PROVE Summed(u)'
    <3>1. /\ Summed(u) /\ thread'[u].row = thread[u].row
          /\ thread'[u].a = thread[u].a /\ thread'[u].b = thread[u].b
      BY <1>0, <1>2, <1>3, WaitFacts DEF MatvecInv, Reduction
    <3>2. thread'[u].waits =>
            thread'[u].row >= End(block) /\ lo'[u] = thread'[u].a /\ hi'[u] = thread'[u].b
      <4>1. CASE u = t
        BY <1>1, <1>2, <1>3, <3>1, <4>1
      <4>2. CASE u # t
        <5>1. thread'[u] = thread[u] /\ lo'[u] = lo[u] /\ hi'[u] = hi[u]
          BY <1>2, <1>3, <4>2, WaitFacts
        <5> QED BY <3>1, <5>1 DEF Summed
      <4> QED BY <4>1, <4>2
    <3> QED BY <1>2, <3>1, <3>2 DEF Summed, LowPart, HighPart, UpTo, Start, End, Col, tiles
  <2>2. /\ stride # 0 /\ stride \notin 1..(Threads - 1)
        /\ \E k \in 0..Threads : stride = 2^k
    BY <1>1, <1>3, DeviceFacts DEF MatvecInv, Reduction
  <2> QED BY <1>2, <2>1, <2>2 DEF Reduction
<1> QED BY <1>2, <1>4, <1>5, StoredKept DEF MatvecInv

LEMMA FoldStep == ASSUME MatvecInv, NEW t \in T, Fold(t) PROVE MatvecInv'
<1> DEFINE s == stride
           g == block
<1>0. Running(t) /\ s \in 1..(Threads - 1)
  BY DEF Fold
<1>1. /\ call \in Calls /\ g \in Blocks /\ thread \in [T -> Thread] /\ ~ thread[t].waits
      /\ t \in 0..(Threads - 1) /\ s \in Nat /\ s > 0 /\ Threads \in Nat /\ s < Threads
      /\ lo \in [T -> 0..(Word - 1)] /\ hi \in [T -> 0..(Word - 1)] /\ g # NoBlock
  <2>1. /\ call \in Calls /\ g \in Blocks /\ thread \in [T -> Thread] /\ ~ thread[t].waits
        /\ t \in 0..(Threads - 1)
    BY <1>0, RunningFacts
  <2>2. s \in Nat /\ s > 0 /\ Threads \in Nat /\ s < Threads
    BY <1>0, DeviceFacts
  <2>3. lo \in [T -> 0..(Word - 1)] /\ hi \in [T -> 0..(Word - 1)] /\ g # NoBlock
    BY <1>0 DEF MatvecInv, MatvecOK, Running
  <2> QED BY <2>1, <2>2, <2>3
<1>2. /\ thread' = [thread EXCEPT ![t].waits = TRUE]
      /\ UNCHANGED <<call, finished, block, stride, partial, out>>
      /\ t < s => /\ lo' = [lo EXCEPT ![t] = (lo[t] + lo[t + s]) % Word]
                  /\ hi' = [hi EXCEPT ![t] = (hi[t] + hi[t + s]) % Word]
      /\ ~ (t < s) => lo' = lo /\ hi' = hi
  BY DEF Fold, shared
<1>3. ASSUME NEW u \in T, u < 2 * s PROVE Folded(u)
  BY <1>1, <1>0, <1>3 DEF MatvecInv, Reduction
<1>4. \E k \in 0..Threads : s = 2^k
  BY <1>1 DEF MatvecInv, Reduction
<1>5. ASSUME t < s
      PROVE  /\ lo' = [lo EXCEPT ![t] = LowPart(g, t, s, End(g))]
             /\ hi' = [hi EXCEPT ![t] = HighPart(g, t, s, End(g))]
             /\ LowPart(g, t, s, End(g)) \in 0..(Word - 1)
             /\ HighPart(g, t, s, End(g)) \in 0..(Word - 1)
  <2> DEFINE v == t + s
  <2>1. t \in 0..(s - 1) /\ t < 2 * s /\ v < 2 * s /\ ~ (v < s)
    BY <1>1, <1>5
  <2>2. Folded(t)
    BY <1>3, <2>1
  <2>3. lo[t] = LowPart(g, t, 2 * s, End(g)) /\ hi[t] = HighPart(g, t, 2 * s, End(g))
    BY <1>1, <2>2 DEF Folded
  <2>4. ~ (t + s < 2 * s) \/ t + s \in T
    <3>1. PICK k \in 0..Threads : s = 2^k
      BY <1>4
    <3>2. PICK n \in 1..Threads : Threads = 2^n
      BY DeviceConstants
    <3>3. k < n
      <4>1. SUFFICES ASSUME n <= k PROVE FALSE
        BY <1>1
      <4>2. 2^n <= 2^k
        BY <1>1, <4>1, PowerMonotone
      <4> QED BY <1>1, <3>1, <3>2, <4>2
    <3>4. 2^(k + 1) <= 2^n /\ 2^(k + 1) = 2 * 2^k
      BY <1>1, <3>3, PowerMonotone, PowerDoubles
    <3> QED BY <1>1, <2>1, <3>1, <3>2, <3>4 DEF T
  <2>5. v \in T
    BY <2>1, <2>4
  <2>6. Folded(v)
    BY <1>3, <2>1, <2>5
  <2>7. lo[v] = LowPart(g, v, 2 * s, End(g)) /\ hi[v] = HighPart(g, v, 2 * s, End(g))
    BY <2>1, <2>6 DEF Folded
  <2>8. /\ (LowPart(g, t, 2 * s, End(g)) + LowPart(g, v, 2 * s, End(g))) % Word =
             LowPart(g, t, s, End(g))
        /\ (HighPart(g, t, 2 * s, End(g)) + HighPart(g, v, 2 * s, End(g))) % Word =
             HighPart(g, t, s, End(g))
    BY <1>1, <2>1, AddRound
  <2>9. /\ LowPart(g, t, s, End(g)) \in 0..(Word - 1) /\ HighPart(g, t, s, End(g)) \in 0..(Word - 1)
    <3>1. Low(call, Col(g)) \in Halves(g) /\ High(call, Col(g)) \in Halves(g)
      BY DEF Halves
    <3>2. End(g) \in Start(g)..End(g)
      BY <1>1, BlockFacts
    <3> QED BY <1>1, <3>1, <3>2, PartFits DEF LowPart, HighPart
  <2> QED BY <1>2, <1>5, <2>3, <2>7, <2>8, <2>9
<1>6. MatvecOK'
  <2>1. lo' \in [T -> 0..(Word - 1)] /\ hi' \in [T -> 0..(Word - 1)]
    BY <1>1, <1>2, <1>5
  <2> QED BY <1>2, <2>1, BlocksKept, WaitFacts DEF MatvecInv, MatvecOK, Thread
<1>7. Reduction'
  <2>1. ASSUME NEW u \in T, u < 2 * s PROVE Folded(u)'
    <3> DEFINE w == IF u < s /\ thread'[u].waits THEN s ELSE 2 * s
    <3>1. lo'[u] = LowPart(g, u, w, End(g)) /\ hi'[u] = HighPart(g, u, w, End(g))
      <4>1. Folded(u)
        BY <1>3, <2>1
      <4>2. CASE u = t /\ t < s
        <5>1. w = s /\ lo'[u] = LowPart(g, t, s, End(g)) /\ hi'[u] = HighPart(g, t, s, End(g))
          BY <1>1, <1>2, <1>5, <4>2, WaitFacts
        <5> QED BY <4>2, <5>1
      <4>3. CASE u = t /\ ~ (t < s)
        BY <1>2, <4>1, <4>3 DEF Folded
      <4>4. CASE u # t
        <5>1. thread'[u] = thread[u] /\ lo'[u] = lo[u] /\ hi'[u] = hi[u]
          BY <1>1, <1>2, <4>4, WaitFacts
        <5> QED BY <4>1, <5>1 DEF Folded
      <4> QED BY <4>2, <4>3, <4>4
    <3> QED BY <1>2, <3>1 DEF Folded, LowPart, HighPart, Start, End, Col, tiles
  <2>2. s # 0 /\ s # Summing
    BY <1>1 DEF Summing
  <2> QED BY <1>2, <1>4, <2>1, <2>2 DEF Reduction
<1> QED BY <1>2, <1>6, <1>7, StoredKept DEF MatvecInv

(* The strides: half of a power of two. *)
LEMMA HalfStride ==
    ASSUME NEW k \in Nat
    PROVE  /\ k = 0 => 2^k \div 2 = 0
           /\ k > 0 => 2^k \div 2 = 2^(k - 1) /\ 2 * 2^(k - 1) = 2^k /\ 2^(k - 1) \in Nat /\ 2^(k - 1) > 0
<1>1. CASE k = 0
  BY <1>1, PowerZero
<1>2. CASE k > 0
  <2> DEFINE n == k - 1
             p == 2^n
  <2>1. n \in Nat /\ n + 1 = k
    BY <1>2
  <2>2. 2^k = 2 * p /\ p \in Nat /\ p > 0
    BY <2>1, PowerDoubles, PowerPositive
  <2> HIDE DEF p
  <2>3. (2 * p) \div 2 = p
    BY <2>2
  <2> QED BY <1>2, <2>1, <2>2, <2>3 DEF p
<1> QED BY <1>1, <1>2

LEMMA SyncThreadsStep == ASSUME MatvecInv, SyncThreads PROVE MatvecInv'
<1> DEFINE s == stride
           g == block
           Freed(t) == [thread[t] EXCEPT !.waits = FALSE]
<1>0. /\ g # NoBlock /\ \A t \in T : thread[t].waits
      /\ stride' = stride \div 2 /\ thread' = [t \in T |-> Freed(t)]
      /\ UNCHANGED <<call, finished, block, lo, hi, partial, out>>
  BY DEF SyncThreads
<1>1. /\ call \in Calls /\ g \in Blocks /\ thread \in [T -> Thread] /\ s \in 0..Threads
      /\ Threads \in Nat /\ Threads > 1 /\ 0 \in T
  BY <1>0, DeviceFacts DEF MatvecInv, MatvecOK, Thread, Summing, T
<1>2. ASSUME NEW t \in T PROVE Freed(t) \in Thread /\ ~ Freed(t).waits
  <2>1. thread[t] \in Thread
    BY <1>1
  <2> QED BY <2>1 DEF Thread
<1> HIDE DEF Freed
<1>3. thread' \in [T -> Thread] /\ \A t \in T : ~ thread'[t].waits
  BY <1>0, <1>2
<1>4. s # 0
  BY <1>0, <1>1 DEF MatvecInv, Reduction
<1>5. PICK k \in 0..Threads : s = 2^k
  BY <1>0, <1>4 DEF MatvecInv, Reduction
<1>6. k \in Nat
  BY <1>1
<1>7. ASSUME NEW t \in T, t < s
      PROVE  lo[t] = LowPart(g, t, s, End(g)) /\ hi[t] = HighPart(g, t, s, End(g))
  <2>1. CASE s = Threads
    <3>1. Summed(t) /\ thread[t].waits /\ thread[t].row \in Nat
      BY <1>0, <1>1, <2>1 DEF MatvecInv, Reduction, Summing, Thread
    <3>2. End(g) \in Nat
      BY <1>1, BlockFacts
    <3>3. UpTo(g, thread[t].row) = End(g)
      BY <3>1, <3>2 DEF Summed, UpTo
    <3> QED BY <2>1, <3>1, <3>3 DEF Summed
  <2>2. CASE s # Threads
    <3>1. s \in 1..(Threads - 1)
      BY <1>1, <1>4, <2>2
    <3>2. t < 2 * s
      BY <1>1, <1>7 DEF T
    <3>3. Folded(t)
      BY <1>0, <3>1, <3>2 DEF MatvecInv, Reduction
    <3> QED BY <1>0, <1>7, <3>3 DEF Folded
  <2> QED BY <2>1, <2>2
<1>8. CASE k = 0
  <2>1. stride' = 0 /\ s = 1
    BY <1>0, <1>5, <1>6, <1>8, HalfStride, PowerZero
  <2>2. lo[0] = LowPart(g, 0, 1, End(g)) /\ hi[0] = HighPart(g, 0, 1, End(g))
    BY <1>1, <1>7, <2>1
  <2>3. MatvecOK'
    <3>1. stride' \in 0..Summing
      BY <1>1, <2>1 DEF Summing
    <3> QED BY <1>0, <1>3, <3>1, BlocksKept DEF MatvecInv, MatvecOK, Thread
  <2>4. (lo[0] = LowPart(block, 0, 1, End(block)) /\ hi[0] = HighPart(block, 0, 1, End(block)))'
    BY <1>0, <2>2 DEF LowPart, HighPart, Start, End, Col, tiles
  <2>5. stride' # Summing /\ stride' \notin 1..(Threads - 1)
    BY <1>1, <2>1 DEF Summing
  <2>6. Reduction'
    BY <1>3, <2>1, <2>4, <2>5 DEF Reduction
  <2> QED BY <1>0, <2>3, <2>6, StoredKept DEF MatvecInv
<1>9. CASE k > 0
  <2> DEFINE h == 2^(k - 1)
  <2>1. stride' = h /\ 2 * h = s /\ h \in Nat /\ h > 0
    BY <1>0, <1>5, <1>6, <1>9, HalfStride
  <2>2. h < Threads /\ k - 1 \in 0..Threads /\ stride' \in 1..(Threads - 1)
    BY <1>1, <1>9, <2>1
  <2>3. MatvecOK'
    <3>1. stride' \in 0..Summing
      BY <1>1, <2>2 DEF Summing
    <3> QED BY <1>0, <1>3, <3>1, BlocksKept DEF MatvecInv, MatvecOK, Thread
  <2>4. ASSUME NEW t \in T, t < 2 * stride' PROVE Folded(t)'
    <3>1. lo[t] = LowPart(g, t, 2 * stride', End(g)) /\ hi[t] = HighPart(g, t, 2 * stride', End(g))
      BY <1>7, <2>1, <2>4
    <3>2. ~ thread'[t].waits
      BY <1>3
    <3> QED BY <1>0, <3>1, <3>2 DEF Folded, LowPart, HighPart, Start, End, Col, tiles
  <2>5. stride' # 0 /\ stride' # Summing
    BY <1>1, <2>2 DEF Summing
  <2>6. \E n \in 0..Threads : stride' = 2^n
    BY <2>1, <2>2
  <2>7. Reduction'
    BY <2>4, <2>5, <2>6 DEF Reduction
  <2> QED BY <1>0, <2>3, <2>7, StoredKept DEF MatvecInv
<1> QED BY <1>6, <1>8, <1>9

LEMMA EndBlockStep == ASSUME MatvecInv, EndBlock PROVE MatvecInv'
<1> DEFINE g == block
           value == add_mod(lo[0] % call.q, Doubled(hi[0] % call.q), call.q)
<1>1. /\ block # NoBlock /\ stride = 0
      /\ partial' = [partial EXCEPT ![g] = value]
      /\ finished' = finished \union {g} /\ block' = NoBlock
      /\ UNCHANGED <<call, thread, stride, lo, hi, out>>
  BY DEF EndBlock, Running
<1>2. /\ call \in Calls /\ g \in Blocks /\ finished \subseteq Blocks
      /\ partial \in [Blocks -> 0..(call.q - 1)]
  BY <1>1 DEF MatvecInv, MatvecOK
<1>3. /\ lo[0] = SumOf(Low(call, Col(g)), Start(g), End(g))
      /\ hi[0] = SumOf(High(call, Col(g)), Start(g), End(g))
  BY <1>1, <1>2, AllRows DEF MatvecInv, Reduction
<1>4. value = BlockSum(g) % call.q /\ value \in 0..(call.q - 1)
  BY <1>2, <1>3, BlockValue
<1> HIDE DEF value
<1>5. MatvecOK'
  <2>1. partial' \in [Blocks -> 0..(call.q - 1)] /\ finished' \subseteq Blocks
    BY <1>1, <1>2, <1>4
  <2> QED BY <1>1, <2>1, BlocksKept DEF MatvecInv, MatvecOK
<1>6. Reduction'
  BY <1>1 DEF Reduction
<1>7. \A h \in finished' : partial'[h] = BlockSum(h) % call.q
  BY <1>1, <1>2, <1>4 DEF MatvecInv, Stored
<1>8. Stored'
  BY <1>1, <1>7 DEF MatvecInv, Stored, BlockSum, ColumnSum, Col, Start, End, tiles
<1> QED BY <1>5, <1>6, <1>8 DEF MatvecInv

LEMMA ReduceTilesStep == ASSUME MatvecInv, NEW k \in 0..(call.cols - 1), ReduceTiles(k) PROVE MatvecInv'
<1>1. /\ finished = Blocks /\ out' = [out EXCEPT ![k] = {TilesOf(k)}]
      /\ UNCHANGED <<call, finished, block, thread, stride, lo, hi, partial>>
  BY DEF ReduceTiles
<1>2. call \in Calls /\ out \in [0..(call.cols - 1) -> SUBSET (0..(call.q - 1))]
  BY DEF MatvecInv, MatvecOK
<1>3. TilesOf(k) = ColumnSum(k) % call.q /\ ColumnSum(k) % call.q \in 0..(call.q - 1)
  BY <1>1, <1>2, ColumnValue DEF MatvecInv, Stored
<1>4. MatvecOK'
  <2>1. out' \in [0..(call.cols - 1) -> SUBSET (0..(call.q - 1))]
    BY <1>1, <1>2, <1>3
  <2> QED BY <1>1, <2>1, BlocksKept DEF MatvecInv, MatvecOK
<1>5. Reduction'
  BY <1>1 DEF MatvecInv, Reduction, Summed, Folded, LowPart, HighPart, UpTo, Start, End, Col, tiles
<1>6. \A j \in 0..(call.cols - 1) : \A value \in out'[j] : value = ColumnSum(j) % call.q
  BY <1>1, <1>2, <1>3 DEF MatvecInv, Stored
<1>7. Stored'
  BY <1>1, <1>6 DEF MatvecInv, Stored, BlockSum, ColumnSum, Col, Start, End, tiles
<1> QED BY <1>4, <1>5, <1>7 DEF MatvecInv

LEMMA MatvecKeeps == ASSUME MatvecInv, [MatvecNext]_matvecvars PROVE MatvecInv'
<1>1. CASE \E g \in Blocks : StartBlock(g)
  BY <1>1, StartBlockStep
<1>2. CASE \E t \in T : SumRow(t) \/ Publish(t) \/ Fold(t)
  BY <1>2, SumRowStep, PublishStep, FoldStep
<1>3. CASE SyncThreads \/ EndBlock
  BY <1>3, SyncThreadsStep, EndBlockStep
<1>4. CASE \E k \in 0..(call.cols - 1) : ReduceTiles(k)
  BY <1>4, ReduceTilesStep
<1>5. CASE UNCHANGED matvecvars
  <2>1. UNCHANGED <<call, finished, block, thread, stride, lo, hi, partial, out>>
    BY <1>5 DEF matvecvars
  <2>2. MatvecOK'
    BY <2>1, BlocksKept DEF MatvecInv, MatvecOK
  <2>3. Reduction'
    BY <2>1 DEF MatvecInv, Reduction, Summed, Folded, LowPart, HighPart, UpTo, Start, End, Col, tiles
  <2> QED BY <2>1, <2>2, <2>3, StoredKept DEF MatvecInv
<1> QED BY <1>1, <1>2, <1>3, <1>4, <1>5 DEF MatvecNext, Done

(* Thread 0 holds the exact sum of a tile's limb products when the reduction   *)
(* of a block ends, and every column of the result is the sum of its products  *)
(* modulo q: for every number of threads that is a power of two, every tile    *)
(* size for which the comment in tile_products holds, every modulus of a word, *)
(* every database and query, and every order in which threads and blocks run.  *)
THEOREM MatvecIsExact == MatvecSpec => []MatvecExact
<1>1. MatvecInv => MatvecExact
  <2> SUFFICES ASSUME MatvecInv PROVE MatvecExact
    OBVIOUS
  <2>1. ASSUME block # NoBlock, stride = 0
        PROVE  /\ lo[0] = SumOf(Low(call, Col(block)), Start(block), End(block))
               /\ hi[0] = SumOf(High(call, Col(block)), Start(block), End(block))
    <3>1. call \in Calls /\ block \in Blocks
      BY <2>1 DEF MatvecInv, MatvecOK
    <3> QED BY <2>1, <3>1, AllRows DEF MatvecInv, Reduction
  <2>2. DOMAIN out = 0..(call.cols - 1)
    BY DEF MatvecInv, MatvecOK
  <2>3. ASSUME NEW k \in DOMAIN out, NEW value \in out[k]
        PROVE  value = SumOf(Terms(call, k), 0, call.rows) % call.q
    BY <2>2, <2>3 DEF MatvecInv, Stored, ColumnSum
  <2> QED BY <2>1, <2>3 DEF MatvecExact, Low, High, Terms, Start, End, Col, tile, col, TileEnd
<1> QED BY <1>1, MatvecStarts, MatvecKeeps, PTL DEF MatvecSpec
=============================================================================
