------------------------------ MODULE MC_Cuda ------------------------------
(***************************************************************************)
(* The CUDA kernel's host side and its device kernels, which share no      *)
(* state: a behaviour runs one of them and leaves the other parked.        *)
(***************************************************************************)
EXTENDS CudaKernel, CudaMatvec

CONSTANTS d1, d2, d3

VARIABLE running

MCShape == [d \in Databases |-> IF d = d3 THEN 0 ELSE 1]

(* Four-bit limbs, blocks of four threads, tiles of eight rows: eleven rows   *)
(* make a full and a partial tile.  Moduli above half a word, below it, and   *)
(* the smallest ones.                                                         *)
Rows == 11
MCCalls == {[q |-> q, rows |-> Rows, cols |-> 2, query |-> x,
             db |-> [c \in 0..1 |-> IF c = 0 THEN [r \in 0..(Rows - 1) |-> 2]
                                    ELSE [r \in 0..(Rows - 1) |-> (r * r + 1) % 3]]] :
              q \in {1, 16, 199, 255},
              x \in {[r \in 0..(Rows - 1) |-> 254],
                     [r \in 0..(Rows - 1) |-> (r * 89 + 15) % 199]}}

ParkMatvec ==
    /\ call = <<>> /\ finished = {} /\ block = NoBlock /\ thread = <<>> /\ stride = 0
    /\ lo = <<>> /\ hi = <<>> /\ partial = <<>> /\ out = <<>>

CudaInit ==
    /\ Init
    /\ \/ running = "device" /\ MatvecInit
       \/ running = "host" /\ ParkMatvec

(* Host threads end when their calls are used up. *)
CudaNext ==
    /\ UNCHANGED running
    /\ \/ running = "device" /\ MatvecNext /\ UNCHANGED vars
       \/ running = "host" /\ Next /\ UNCHANGED matvecvars
       \/ running = "host" /\ UNCHANGED <<vars, matvecvars>>

CudaSpec == CudaInit /\ [][CudaNext]_<<running, vars, matvecvars>> /\ HostFairness
=============================================================================
