--------------------------- MODULE NullifierQuery ---------------------------
(***************************************************************************)
(* nullifier-pir: the `query` command against a server that may be         *)
(* restarted, on another snapshot or setup seed, between its requests.     *)
(*                                                                         *)
(* A prepared server is determined by its snapshot and its setup seed: so  *)
(* are the c1 rows it publishes and the answers it gives.  Decoding is     *)
(* right when query, c1 and answer come from one such pair, and noise      *)
(* (a row of Garbage) otherwise.                                           *)
(***************************************************************************)
EXTENDS Integers, Sequences

CONSTANTS
    Clients,
    Nullifiers,      \* 32-byte values
    Zero,            \* the value the padding of a row reads as
    Garbage,         \* what noise decodes to: no value anyone asks for
    Snapshots,       \* sequences of nullifiers
    Seeds,           \* setup seeds
    CollidingSeeds,  \* those whose query masks collide with the packing-key masks
    ProbeRows,       \* rows asked for with --absent-probe-row
    RowRecords,      \* NULLIFIERS_PER_ITEM
    BlockRows        \* POLY_LEN: database rows come in whole blocks

ASSUME QueryConstants ==
    /\ Zero \in Nullifiers /\ Garbage \notin Nullifiers
    /\ Snapshots \subseteq Seq(Nullifiers)
    /\ CollidingSeeds \subseteq Seeds
    /\ ProbeRows \subseteq Nat
    /\ RowRecords \in Nat \ {0} /\ BlockRows \in Nat \ {0}

VARIABLES
    server,   \* {} when down, else {the running server}
    client    \* per client: its current `query` command

vars == <<server, client>>

Servers == [snapshot : Snapshots, seed : Seeds]

Idle == [at |-> "idle", local |-> <<>>, target |-> Zero, absent |-> FALSE,
         row |-> 0, offset |-> 0, seed |-> {}, db_rows |-> 0, c1 |-> {},
         answer |-> {}, quiet |-> FALSE]

Init == server = {} /\ client = [c \in Clients |-> Idle]

-----------------------------------------------------------------------------
(* Encoding: records fill rows in order, and the rest of a row reads as 0.  *)
pir_row_count(s) == (Len(s) + RowRecords - 1) \div RowRecords
(* Mutation: the number of blocks is rounded down. *)
db_rows_rounded_down(s) == (pir_row_count(s) \div BlockRows) * BlockRows

db_rows(s) == ((pir_row_count(s) + BlockRows - 1) \div BlockRows) * BlockRows
Row(s, r) == [i \in 0..(RowRecords - 1) |->
    LET n == r * RowRecords + i + 1 IN IF n <= Len(s) THEN s[n] ELSE Zero]
GarbageRow == [i \in 0..(RowRecords - 1) |-> Garbage]

find_nullifier(s, x) == {i \in 0..(Len(s) - 1) :
    s[i + 1] = x /\ \A k \in 0..(i - 1) : s[k + 1] # x}
nullifier_row(index) == index \div RowRecords
nullifier_offset(index) == index % RowRecords

Contains(row, x) == \E i \in DOMAIN row : row[i] = x

-----------------------------------------------------------------------------
(* The server: prepared once, then immutable; a restart may change it.      *)
Unsettle == client' = [c \in Clients |-> [client[c] EXCEPT !.quiet = FALSE]]

(* Backend::prepare: too few rows, or a colliding seed, is refused. *)
prepare(s, seed) ==
    /\ server = {}
    /\ pir_row_count(s) >= BlockRows
    /\ seed \notin CollidingSeeds
    /\ server' = {[snapshot |-> s, seed |-> seed]}
    /\ Unsettle

Stop ==
    /\ server # {}
    /\ server' = {}
    /\ Unsettle

-----------------------------------------------------------------------------
(* The client.  Begin reads its own copy of a snapshot; a target that is    *)
(* found when expected absent, or the reverse, ends the command there.      *)
Begin(c, local, target, seed) ==
    /\ client[c].at \in {"idle", "verified", "absent", "failed", "unreachable"}
    /\ \E index \in find_nullifier(local, target) :
         client' = [client EXCEPT ![c] =
           [Idle EXCEPT !.at = "meta", !.local = local, !.target = target,
                        !.row = nullifier_row(index), !.offset = nullifier_offset(index),
                        !.seed = {seed}, !.quiet = server # {}]]
    /\ UNCHANGED server

BeginAbsent(c, local, target, seed, probe) ==
    /\ client[c].at \in {"idle", "verified", "absent", "failed", "unreachable"}
    /\ find_nullifier(local, target) = {}
    /\ client' = [client EXCEPT ![c] =
         [Idle EXCEPT !.at = "meta", !.local = local, !.target = target, !.absent = TRUE,
                      !.row = probe, !.seed = {seed}, !.quiet = server # {}]]
    /\ UNCHANGED server

Becomes(c, where) == client' = [client EXCEPT ![c].at = where]

(* GET /meta: the seed must be the client's; local_ipir_client() checks that  *)
(* the row lies in the database the server reports.                           *)
GetMeta(c) == \E s \in server :
    /\ client[c].at = "meta"
    /\ IF {s.seed} = client[c].seed /\ client[c].row < db_rows(s.snapshot)
       THEN client' = [client EXCEPT ![c].at = "params",
                                     ![c].db_rows = db_rows(s.snapshot)]
       ELSE Becomes(c, "failed")
    /\ UNCHANGED server

GetPublicParams(c) == \E s \in server :
    /\ client[c].at = "params"
    /\ client' = [client EXCEPT ![c].at = "post", ![c].c1 = {s}]
    /\ UNCHANGED server

(* POST /query: only the length of the body is checked. *)
PostQuery(c) == \E s \in server :
    /\ client[c].at = "post"
    /\ IF client[c].db_rows = db_rows(s.snapshot)
       THEN client' = [client EXCEPT ![c].at = "decode", ![c].answer = {s}]
       ELSE Becomes(c, "failed")
    /\ UNCHANGED server

DecodedRow(m) ==
    IF m.c1 = m.answer /\ \A s \in m.answer : {s.seed} = m.seed
    THEN LET s == CHOOSE x \in m.answer : TRUE IN Row(s.snapshot, m.row)
    ELSE GarbageRow

(* Mutation: the target is accepted anywhere in the decoded row. *)
DecodeAnywhere(c) ==
    /\ client[c].at = "decode"
    /\ LET found == Contains(DecodedRow(client[c]), client[c].target)
       IN Becomes(c, IF client[c].absent
                     THEN IF found THEN "failed" ELSE "absent"
                     ELSE IF found THEN "verified" ELSE "failed")
    /\ UNCHANGED server

Decode(c) ==
    /\ client[c].at = "decode"
    /\ LET m == client[c]
           row == DecodedRow(m)
       IN Becomes(c, IF m.absent
                     THEN IF Contains(row, m.target) THEN "failed" ELSE "absent"
                     ELSE IF row[m.offset] = m.target THEN "verified" ELSE "failed")
    /\ UNCHANGED server

(* A request that gets no answer ends the command. *)
Unreachable(c) ==
    /\ client[c].at \in {"meta", "params", "post"}
    /\ Becomes(c, "unreachable")
    /\ UNCHANGED server

ClientStep(c) ==
    \/ GetMeta(c) \/ GetPublicParams(c) \/ PostQuery(c) \/ Decode(c) \/ Unreachable(c)
Commands(c) == \E local \in Snapshots, target \in Nullifiers, seed \in Seeds :
    \/ Begin(c, local, target, seed)
    \/ \E probe \in ProbeRows : BeginAbsent(c, local, target, seed, probe)

Next ==
    \/ \E s \in Snapshots, seed \in Seeds : prepare(s, seed)
    \/ Stop
    \/ \E c \in Clients : ClientStep(c) \/ Commands(c)

Spec == Init /\ [][Next]_vars

-----------------------------------------------------------------------------
TypeOK ==
    /\ \E S \in SUBSET Servers : server = S
    /\ \A s, t \in server : s = t
    /\ \A c \in Clients :
         /\ client[c].at \in {"idle", "meta", "params", "post", "decode", "verified",
                              "absent", "failed", "unreachable"}
         /\ client[c].row \in Nat /\ client[c].db_rows \in Nat
         /\ client[c].offset \in 0..(RowRecords - 1)
         /\ client[c].c1 \subseteq Servers /\ client[c].answer \subseteq Servers

Holds(s, row, offset, x) ==
    LET n == row * RowRecords + offset + 1 IN n <= Len(s) /\ s[n] = x

(* "found ... and verified through PIR": the server that answered does hold   *)
(* the nullifier at that place, whatever was restarted on what between the    *)
(* requests.  The zero value is excepted: it is also what padding reads as.   *)
VerifiedIsHeld == \A c \in Clients :
    client[c].at = "verified" /\ client[c].target # Zero =>
        \E s \in client[c].answer :
            Holds(s.snapshot, client[c].row, client[c].offset, client[c].target)

(* Against one running server with the client's seed, a query for a record of *)
(* the server's own snapshot, last and partly filled rows included, is        *)
(* verified; an absence check fails only for a probe outside the database or  *)
(* a row, padding included, that holds the value; and "absent" is true of it. *)
QuietQueryIsRight == \A c \in Clients : \A s \in server :
    client[c].quiet /\ client[c].seed = {s.seed} =>
        LET m == client[c] IN
        /\ m.at = "failed" /\ ~m.absent => m.local # s.snapshot
        /\ m.at = "failed" /\ m.absent =>
             \/ m.row >= db_rows(s.snapshot)
             \/ Contains(Row(s.snapshot, m.row), m.target)
        /\ m.at = "absent" => ~Contains(Row(s.snapshot, m.row), m.target)

(* "Query a server and verify an existing or absent nullifier": a nullifier   *)
(* reported absent is not in that row of the server that answered.            *)
AbsentIsAbsent == \A c \in Clients :
    client[c].at = "absent" /\ client[c].target # Zero =>
        \A s \in client[c].answer : ~Contains(Row(s.snapshot, client[c].row), client[c].target)
=============================================================================
