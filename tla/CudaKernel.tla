----------------------------- MODULE CudaKernel -----------------------------
(***************************************************************************)
(* simplepir-kernel/src/cuda.rs: the host side.  One CudaKernel owns a     *)
(* stream and the uploaded database with its scratch buffers; threads that *)
(* share it evaluate queries.  The stream runs its operations in order and *)
(* asynchronously; any driver call may fail, and a failure on the device   *)
(* ends the stream.                                                        *)
(*                                                                         *)
(* try_prepare takes &mut self and evaluations &self, so the two exclude   *)
(* each other; concurrent evaluations meet only at the mutex.              *)
(***************************************************************************)
EXTENDS Integers, Sequences

CONSTANTS
    Workers,    \* threads that evaluate queries
    Databases,  \* databases of the caller over time
    Shape,      \* Shape[d]: the dimensions of database d, 0 if it is empty
    None,       \* nothing
    MaxPrepares, MaxCalls   \* bounds on calls of try_prepare and of each worker

ASSUME HostConstants ==
    /\ None \notin Databases /\ None \notin Workers
    /\ Shape \in [Databases -> Nat]
    /\ MaxPrepares \in Nat /\ MaxCalls \in Nat

(* The queries of one worker differ from each other and from everyone else's. *)
Queries == Workers \X (1..MaxCalls)
NoQuery == <<None, 0>>

VARIABLES
    prepared,  \* database uploaded to the device, or None
    holder,    \* worker that holds the mutex, or None
    stream,    \* operations enqueued and not yet run
    dead,      \* the stream has failed
    scratch,   \* device buffers: query, partial, out
    worker,    \* per worker: program counter, arguments, result buffer
    preparing, \* the database being uploaded, or None
    current,   \* history: database of the last try_prepare, None if it failed
    calls      \* calls made (bound)

vars == <<prepared, holder, stream, dead, scratch, worker, preparing, current, calls>>

Product(q, d) == <<q, d>>
Unset == <<NoQuery, None>>
Idle == [at |-> "idle", query |-> NoQuery, shape |-> 0, buffer |-> Unset]

Init ==
    /\ prepared = None /\ holder = None
    /\ stream = <<>> /\ dead = FALSE
    /\ scratch = [query |-> NoQuery, partial |-> Unset, out |-> Unset]
    /\ worker = [w \in Workers |-> Idle]
    /\ preparing = None /\ current = None
    /\ calls = [w \in Workers \union {None} |-> 0]

Exclusive == \A w \in Workers : worker[w].at \in {"idle", "ok", "err"}

-----------------------------------------------------------------------------
(* Mutation: the old upload stays until it is replaced. *)
StartPrepareKeeping(d) ==
    /\ Exclusive /\ preparing = None /\ calls[None] < MaxPrepares
    /\ preparing' = d /\ current' = None
    /\ calls' = [calls EXCEPT ![None] = @ + 1]
    /\ UNCHANGED <<prepared, holder, stream, dead, scratch, worker>>

(* try_prepare: drop the old upload first, then shape checks, copies and a    *)
(* synchronize, any of which may fail.                                        *)
StartPrepare(d) ==
    /\ Exclusive /\ preparing = None /\ calls[None] < MaxPrepares
    /\ preparing' = d /\ current' = None
    /\ prepared' = None
    /\ calls' = [calls EXCEPT ![None] = @ + 1]
    /\ UNCHANGED <<holder, stream, dead, scratch, worker>>

PrepareFails ==
    /\ preparing # None
    /\ preparing' = None
    /\ UNCHANGED <<prepared, holder, stream, dead, scratch, worker, current, calls>>

(* The new buffers are zeroed; synchronize() has emptied the stream. *)
PrepareSucceeds ==
    /\ preparing # None /\ stream = <<>> /\ ~dead
    /\ prepared' = preparing /\ current' = preparing
    /\ scratch' = [query |-> NoQuery, partial |-> Unset, out |-> Unset]
    /\ preparing' = None
    /\ UNCHANGED <<holder, stream, dead, worker, calls>>

-----------------------------------------------------------------------------
To(w, where) == worker' = [worker EXCEPT ![w].at = where]

(* A worker calls evaluate_modulus for a database of some shape; the entries  *)
(* of the slice it passes are not read.                                       *)
Call(w, shape) ==
    /\ worker[w].at \in {"idle", "ok", "err"} /\ preparing = None /\ calls[w] < MaxCalls
    /\ worker' = [worker EXCEPT ![w] = 
          [at |-> "lock", query |-> <<w, calls[w] + 1>>, shape |-> shape, buffer |-> Unset]]
    /\ calls' = [calls EXCEPT ![w] = @ + 1]
    /\ UNCHANGED <<prepared, holder, stream, dead, scratch, preparing, current>>

Usable(w) == prepared # None /\ Shape[prepared] = worker[w].shape

(* Take the mutex.  Without an upload of this shape, or when the thread cannot *)
(* be bound to the context, the call fails; an empty product needs no device.  *)
(* Both drop the guard as they return.                                         *)
Lock(w) ==
    /\ worker[w].at = "lock" /\ holder = None
    /\ \/ /\ Usable(w) /\ worker[w].shape # 0
          /\ holder' = w
          /\ To(w, "query")
       \/ /\ Usable(w) /\ worker[w].shape = 0
          /\ UNCHANGED holder
          /\ worker' = [worker EXCEPT ![w].at = "ok",
                                      ![w].buffer = Product(worker[w].query, prepared)]
       \/ /\ ~Usable(w) \/ worker[w].shape # 0
          /\ UNCHANGED holder
          /\ To(w, "err")
    /\ UNCHANGED <<prepared, stream, dead, scratch, preparing, current, calls>>

(* Enqueue one operation; the driver may refuse it, and does once the stream  *)
(* is dead, and then the guard is dropped on the way out.                     *)
Enqueue(w, from, op, to) ==
    /\ worker[w].at = from
    /\ \/ /\ ~dead
          /\ stream' = Append(stream, [op |-> op, by |-> w])
          /\ To(w, to)
          /\ UNCHANGED holder
       \/ /\ UNCHANGED stream
          /\ To(w, "err")
          /\ holder' = None
    /\ UNCHANGED <<prepared, dead, scratch, preparing, current, calls>>

CopyQuery(w) == Enqueue(w, "query", "htod", "tile")
LaunchTile(w) == Enqueue(w, "tile", "tile", "reduce")
LaunchReduce(w) == Enqueue(w, "reduce", "reduce", "dtoh")
CopyOut(w) == Enqueue(w, "dtoh", "dtoh", "sync")

(* Mutation: the result is returned without waiting for the stream. *)
SynchronizeNot(w) ==
    /\ worker[w].at = "sync"
    /\ To(w, IF dead THEN "err" ELSE "ok")
    /\ holder' = None
    /\ UNCHANGED <<prepared, stream, dead, scratch, preparing, current, calls>>

(* Mutation: synchronize() waits for the stream to empty and nothing else. *)
SynchronizeWaits(w) ==
    /\ worker[w].at = "sync" /\ stream = <<>>
    /\ To(w, IF dead THEN "err" ELSE "ok")
    /\ holder' = None
    /\ UNCHANGED <<prepared, stream, dead, scratch, preparing, current, calls>>

(* synchronize() waits for everything enqueued, and reports a dead stream. *)
Synchronize(w) ==
    /\ worker[w].at = "sync"
    /\ stream = <<>> \/ dead
    /\ To(w, IF dead THEN "err" ELSE "ok")
    /\ holder' = None
    /\ UNCHANGED <<prepared, stream, dead, scratch, preparing, current, calls>>

-----------------------------------------------------------------------------
(* The device runs the oldest operation of the stream, or dies. *)
Effect(op) ==
    \/ /\ op.op = "htod"
       /\ scratch' = [scratch EXCEPT !.query = worker[op.by].query]
       /\ UNCHANGED worker
    \/ /\ op.op = "tile"
       /\ scratch' = [scratch EXCEPT !.partial = Product(scratch.query, prepared)]
       /\ UNCHANGED worker
    \/ /\ op.op = "reduce"
       /\ scratch' = [scratch EXCEPT !.out = scratch.partial]
       /\ UNCHANGED worker
    \/ /\ op.op = "dtoh"
       /\ worker' = [worker EXCEPT ![op.by].buffer = scratch.out]
       /\ UNCHANGED scratch

Execute ==
    /\ stream # <<>> /\ ~dead
    /\ Effect(Head(stream))
    /\ stream' = Tail(stream)
    /\ UNCHANGED <<prepared, holder, dead, preparing, current, calls>>

DeviceFails ==
    /\ stream # <<>> /\ ~dead
    /\ dead' = TRUE
    /\ UNCHANGED <<prepared, holder, stream, scratch, worker, preparing, current, calls>>

Next ==
    \/ \E d \in Databases : StartPrepare(d)
    \/ PrepareFails \/ PrepareSucceeds
    \/ \E w \in Workers :
         \/ \E d \in Databases : Call(w, Shape[d])
         \/ Lock(w) \/ CopyQuery(w) \/ LaunchTile(w) \/ LaunchReduce(w)
         \/ CopyOut(w) \/ Synchronize(w)
    \/ Execute \/ DeviceFails

Spec == Init /\ [][Next]_vars

(* Threads run, the device works through its stream.  The standard mutex is   *)
(* not fair, but a caller that makes finitely many calls lets others in.      *)
HostFairness ==
    /\ WF_vars(Execute)
    /\ \A w \in Workers : WF_vars(Lock(w) \/ CopyQuery(w) \/ LaunchTile(w)
                                   \/ LaunchReduce(w) \/ CopyOut(w) \/ Synchronize(w))
FairSpec == Spec /\ HostFairness

-----------------------------------------------------------------------------
Pairs == (Queries \union {NoQuery}) \X (Databases \union {None})
TypeOK ==
    /\ prepared \in Databases \union {None} /\ preparing \in Databases \union {None}
    /\ current \in Databases \union {None}
    /\ holder \in Workers \union {None}
    /\ stream \in Seq([op : {"htod", "tile", "reduce", "dtoh"}, by : Workers])
    /\ dead \in BOOLEAN
    /\ scratch \in [query : Queries \union {NoQuery}, partial : Pairs, out : Pairs]
    /\ worker \in [Workers ->
         [at : {"idle", "lock", "query", "tile", "reduce", "dtoh", "sync", "ok", "err"},
          query : Queries \union {NoQuery}, shape : Nat, buffer : Pairs]]
    /\ calls \in [Workers \union {None} -> Nat]
    /\ \A w \in Workers : holder = w <=>
         worker[w].at \in {"query", "tile", "reduce", "dtoh", "sync"}

(* An evaluation that returns Ok has written the product of its own query and *)
(* the database of the last try_prepare, which succeeded: no thread's query,  *)
(* no leftover of an evaluation that failed half way through the stream, and  *)
(* no upload that a failed replacement should have removed gets into it.      *)
ResultIsOwnProduct == [][\A w \in Workers :
    worker[w].at # "ok" /\ worker'[w].at = "ok" =>
        worker'[w].buffer = Product(worker[w].query, current)]_vars

(* The device never writes to the output slice of an evaluation that has      *)
(* returned, whichever driver call failed on the way out.                     *)
NoWriteAfterReturn == \A i \in 1..Len(stream) :
    stream[i].op = "dtoh" => dead \/ worker[stream[i].by].at = "sync"

(* Every evaluation returns.  synchronize() waits for the device with the     *)
(* mutex held: when the device fails under it, it has to report that, or every *)
(* other thread stays at the mutex.                                            *)
CallsReturn == \A w \in Workers : worker[w].at = "lock" ~> worker[w].at \in {"ok", "err"}
=============================================================================
