---------------------------- MODULE MC_Nullifier ----------------------------
(***************************************************************************)
(* nullifier-pir, as two parts with no state in common: a behaviour runs   *)
(* the snapshot files or the query command, and leaves the other parked.   *)
(***************************************************************************)
EXTENDS NullifierQuery, SnapshotStore, TLC

CONSTANTS a, b, long, ragged

VARIABLE running

(* A full row and a partly filled one, and an object that ends inside a record. *)
MCLength == (long :> 6) @@ (ragged :> 3)

(* Two-record rows, two-row blocks: snapshots of one shape with full and      *)
(* partly filled last rows, one that needs a second block, and one too small  *)
(* to serve.                                                                  *)
MCSnapshots == {<<a, b, b, Zero>>, <<b, b, a>>, <<b, b, b, b, a>>, <<b, b, b>>, <<b>>}

NullifierInit == running \in {"store", "query"} /\ StoreInit /\ Init
NullifierNext ==
    /\ UNCHANGED running
    /\ \/ running = "store" /\ StoreNext /\ UNCHANGED vars
       \/ running = "query" /\ Next /\ UNCHANGED storevars
NullifierSpec == NullifierInit /\ [][NullifierNext]_<<running, vars, storevars>>

Symmetry == Permutations(Processes)
(* Nothing is claimed once two downloads share a .part file. *)
UntilOverlap == ~overlapped
(* The contents of an inode nothing refers to: Create truncates it first. *)
Referenced == <<running, vars, part, output, [i \in Inodes |-> IF Free(i) THEN <<>> ELSE file[i]],
                job, overlapped>>
=============================================================================
