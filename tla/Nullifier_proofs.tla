--------------------------- MODULE Nullifier_proofs ---------------------------
(***************************************************************************)
(* nullifier-pir.  What a `query` command reports is so, for any           *)
(* snapshots, seeds and clients and any restarts of the server; and what   *)
(* the snapshot name refers to and what a server loads from it, for any    *)
(* number of downloads and servers, any objects and record sizes.          *)
(***************************************************************************)
EXTENDS NullifierQuery, SnapshotStore, SequenceTheorems, TLAPS

ClientStates ==
    [at : {"idle", "meta", "params", "post", "decode", "verified", "absent", "failed", "unreachable"},
     local : Snapshots \union {<<>>}, target : Nullifiers, absent : BOOLEAN,
     row : Nat, offset : 0..(RowRecords - 1), seed : SUBSET Seeds, db_rows : Nat,
     c1 : SUBSET Servers, answer : SUBSET Servers, quiet : BOOLEAN]

ServerOK == server \subseteq Servers /\ \A s, t \in server : s = t

(* A command that looks for a record has the record's place in the client's   *)
(* own snapshot; an answer comes from one server; and what was verified was   *)
(* read at that place.                                                        *)
Asked(m) ==
    /\ ~m.absent /\ m.at # "idle" => Holds(m.local, m.row, m.offset, m.target)
    /\ m.at = "decode" => \E s \in Servers : m.answer = {s}
    /\ m.at = "verified" /\ m.target # Zero =>
         \E s \in m.answer : Holds(s.snapshot, m.row, m.offset, m.target)

(* QuietQueryIsRight for one client and the server s. *)
Right(m, s) ==
    /\ m.at = "failed" /\ ~m.absent => m.local # s.snapshot
    /\ m.at = "failed" /\ m.absent =>
         \/ m.row >= db_rows(s.snapshot)
         \/ Contains(Row(s.snapshot, m.row), m.target)
    /\ m.at = "absent" => ~Contains(Row(s.snapshot, m.row), m.target)

(* While the server stays, everything a client has received is of that server *)
(* and the checks it has passed hold of it.                                   *)
Settled(m, s) ==
    /\ m.at \in {"params", "post", "decode"} =>
         m.db_rows = db_rows(s.snapshot) /\ m.seed = {s.seed} /\ m.row < db_rows(s.snapshot)
    /\ m.at \in {"post", "decode"} => m.c1 = {s}
    /\ m.at = "decode" => m.answer = {s}
    /\ m.seed = {s.seed} => Right(m, s)

ClientOK(m) ==
    /\ m \in ClientStates
    /\ Asked(m)
    /\ \A s \in server : m.quiet => Settled(m, s)

IInv ==
    /\ ServerOK
    /\ client \in [Clients -> ClientStates]
    /\ \A c \in Clients : ClientOK(client[c])

-----------------------------------------------------------------------------
(* Arithmetic of rows and blocks. *)
LEMMA DivMod ==
    ASSUME NEW x \in Nat, NEW k \in Nat \ {0}
    PROVE  /\ x \div k \in Nat /\ x % k \in 0..(k - 1)
           /\ (x \div k) * k + (x % k) = x
OBVIOUS

(* Rounding up to a multiple loses nothing. *)
LEMMA RoundsUp ==
    ASSUME NEW n \in Nat, NEW k \in Nat \ {0}
    PROVE  /\ (n + k - 1) \div k \in Nat
           /\ ((n + k - 1) \div k) * k \in Nat
           /\ ((n + k - 1) \div k) * k >= n
<1>1. n + k - 1 \in Nat
  OBVIOUS
<1> DEFINE q == (n + k - 1) \div k
           r == (n + k - 1) % k
<1>2. q \in Nat /\ r \in 0..(k - 1) /\ q * k + r = n + k - 1
  BY <1>1, DivMod
<1> HIDE DEF q, r
<1>3. q * k \in Nat
  BY <1>2
<1>4. q * k >= n
  BY <1>2, <1>3
<1> QED BY <1>2, <1>3, <1>4 DEF q

LEMMA LessByFactor ==
    ASSUME NEW a \in Nat, NEW b \in Nat, NEW k \in Nat \ {0}, a * k < b * k
    PROVE  a < b
<1> SUFFICES ASSUME a >= b PROVE FALSE
  OBVIOUS
<1>1. PICK d \in Nat : a = b + d
  <2>1. a - b \in Nat /\ a = b + (a - b)
    OBVIOUS
  <2> QED BY <2>1
<1>2. (b + d) * k = b * k + d * k
  OBVIOUS
<1>3. d * k \in Nat /\ b * k \in Nat
  OBVIOUS
<1> QED BY <1>1, <1>2, <1>3

LEMMA SnapshotLen == ASSUME NEW s \in Snapshots \union {<<>>} PROVE Len(s) \in Nat
<1>1. CASE s = <<>>
  BY <1>1
<1>2. CASE s \in Snapshots
  <2>1. s \in Seq(Nullifiers)
    BY <1>2, QueryConstants
  <2> QED BY <2>1
<1> QED BY <1>1, <1>2

LEMMA RowCounts ==
    ASSUME NEW s \in Snapshots \union {<<>>}
    PROVE  /\ pir_row_count(s) \in Nat /\ db_rows(s) \in Nat
           /\ pir_row_count(s) * RowRecords >= Len(s) /\ db_rows(s) >= pir_row_count(s)
<1>1. Len(s) \in Nat
  BY SnapshotLen
<1>2. pir_row_count(s) \in Nat /\ pir_row_count(s) * RowRecords >= Len(s)
  BY <1>1, RoundsUp, QueryConstants DEF pir_row_count
<1>3. db_rows(s) \in Nat /\ db_rows(s) >= pir_row_count(s)
  BY <1>2, RoundsUp, QueryConstants DEF db_rows
<1> QED BY <1>2, <1>3

(* A record's row lies in the database. *)
LEMMA HeldInDatabase ==
    ASSUME NEW s \in Snapshots \union {<<>>}, NEW row \in Nat, NEW offset \in 0..(RowRecords - 1),
           NEW x, Holds(s, row, offset, x)
    PROVE  row < db_rows(s)
<1>1. row * RowRecords + offset + 1 <= Len(s)
  BY DEF Holds
<1>2. row * RowRecords \in Nat /\ Len(s) \in Nat /\ RowRecords \in Nat \ {0}
  BY SnapshotLen, QueryConstants
<1>3. pir_row_count(s) * RowRecords \in Nat
  BY <1>2, RowCounts
<1>4. row * RowRecords < pir_row_count(s) * RowRecords
  BY <1>1, <1>2, <1>3, RowCounts
<1>5. row < pir_row_count(s)
  BY <1>2, <1>4, RowCounts, LessByFactor
<1> QED BY <1>5, RowCounts

(* find_nullifier with nullifier_row and nullifier_offset gives the place. *)
LEMMA FoundIsHeld ==
    ASSUME NEW s \in Snapshots, NEW x, NEW index \in find_nullifier(s, x)
    PROVE  /\ nullifier_row(index) \in Nat /\ nullifier_offset(index) \in 0..(RowRecords - 1)
           /\ Holds(s, nullifier_row(index), nullifier_offset(index), x)
<1>1. index \in Nat /\ index + 1 <= Len(s) /\ s[index + 1] = x
  BY SnapshotLen DEF find_nullifier
<1>2. /\ nullifier_row(index) \in Nat /\ nullifier_offset(index) \in 0..(RowRecords - 1)
      /\ nullifier_row(index) * RowRecords + nullifier_offset(index) = index
  BY <1>1, DivMod, QueryConstants DEF nullifier_row, nullifier_offset
<1> QED BY <1>1, <1>2 DEF Holds

(* Reading a row at an offset is reading the snapshot at the place. *)
LEMMA RowHolds ==
    ASSUME NEW s, NEW row \in Nat, NEW offset \in 0..(RowRecords - 1), NEW x
    PROVE  /\ Holds(s, row, offset, x) => Row(s, row)[offset] = x
           /\ Row(s, row)[offset] = x /\ x # Zero => Holds(s, row, offset, x)
BY DEF Holds, Row

(* DecodedRow when c1 and answer are of one server with the client's seed. *)
LEMMA DecodesServed ==
    ASSUME NEW m, NEW s, m.answer = {s}, m.c1 = {s}, m.seed = {s.seed}
    PROVE  DecodedRow(m) = Row(s.snapshot, m.row)
BY DEF DecodedRow

(* Noise holds no nullifier: a row that does was decoded from the answer. *)
LEMMA DecodedFromAnswer ==
    ASSUME NEW m, NEW s, m.answer = {s}, NEW offset \in 0..(RowRecords - 1),
           DecodedRow(m)[offset] \in Nullifiers
    PROVE  DecodedRow(m) = Row(s.snapshot, m.row)
<1>1. GarbageRow[offset] = Garbage /\ Garbage \notin Nullifiers
  BY QueryConstants DEF GarbageRow
<1>2. DecodedRow(m) # GarbageRow
  BY <1>1
<1> QED BY <1>2 DEF DecodedRow

-----------------------------------------------------------------------------
LEMMA InServers == ASSUME ServerOK, NEW s \in server PROVE s \in Servers /\ s.snapshot \in Snapshots
BY DEF ServerOK, Servers

(* One client moves, the server stays. *)
LEMMA ClientMoves ==
    ASSUME IInv, NEW c \in Clients, NEW m, client' = [client EXCEPT ![c] = m], server' = server,
           ClientOK(m)
    PROVE  IInv'
<1>1. client' \in [Clients -> ClientStates]
  BY DEF IInv, ClientOK
<1>2. ASSUME NEW a \in Clients PROVE ClientOK(client[a])'
  <2>1. CASE a = c
    <3>1. client'[a] = m
      BY <2>1 DEF IInv
    <3> QED BY <3>1 DEF ClientOK
  <2>2. CASE a # c
    <3>1. client'[a] = client[a] /\ ClientOK(client[a])
      BY <2>2 DEF IInv
    <3> QED BY <3>1 DEF ClientOK
  <2> QED BY <2>1, <2>2
<1> QED BY <1>1, <1>2 DEF IInv, ServerOK

(* The server goes or comes: nobody is quiet any more. *)
LEMMA ServerMoves == ASSUME IInv, Unsettle, ServerOK' PROVE IInv'
<1>1. ASSUME NEW c \in Clients
      PROVE  /\ client'[c] \in ClientStates /\ ~client'[c].quiet /\ Asked(client[c])'
  <2>1. client'[c] = [client[c] EXCEPT !.quiet = FALSE] /\ client[c] \in ClientStates /\ Asked(client[c])
    BY DEF Unsettle, IInv, ClientOK
  <2>2. client'[c] \in ClientStates /\ ~client'[c].quiet
    BY <2>1 DEF ClientStates
  <2>3. /\ client'[c].at = client[c].at /\ client'[c].local = client[c].local
        /\ client'[c].target = client[c].target /\ client'[c].absent = client[c].absent
        /\ client'[c].row = client[c].row /\ client'[c].offset = client[c].offset
        /\ client'[c].answer = client[c].answer
    BY <2>1 DEF ClientStates
  <2> QED BY <2>1, <2>2, <2>3 DEF Asked
<1>2. client' \in [Clients -> ClientStates]
  BY <1>1 DEF Unsettle
<1> QED BY <1>1, <1>2 DEF IInv, ClientOK

LEMMA BeginKeeps ==
    ASSUME IInv, NEW c \in Clients, NEW local \in Snapshots, NEW target \in Nullifiers, NEW seed \in Seeds,
           Begin(c, local, target, seed)
    PROVE  IInv'
<1> PICK index \in find_nullifier(local, target) :
      client' = [client EXCEPT ![c] =
        [Idle EXCEPT !.at = "meta", !.local = local, !.target = target,
                     !.row = nullifier_row(index), !.offset = nullifier_offset(index),
                     !.seed = {seed}, !.quiet = server # {}]]
  BY DEF Begin
<1> DEFINE m == [Idle EXCEPT !.at = "meta", !.local = local, !.target = target,
                     !.row = nullifier_row(index), !.offset = nullifier_offset(index),
                     !.seed = {seed}, !.quiet = server # {}]
<1>1. /\ nullifier_row(index) \in Nat /\ nullifier_offset(index) \in 0..(RowRecords - 1)
      /\ Holds(local, nullifier_row(index), nullifier_offset(index), target)
  BY FoundIsHeld
<1>2. (server # {}) \in BOOLEAN
  OBVIOUS
<1>3. m \in ClientStates
  BY <1>1, <1>2, QueryConstants DEF Idle, ClientStates
<1>4. /\ m.at = "meta" /\ m.local = local /\ m.target = target /\ m.absent = FALSE
      /\ m.row = nullifier_row(index) /\ m.offset = nullifier_offset(index)
  BY DEF Idle
<1> HIDE DEF m
<1>5. Asked(m)
  BY <1>1, <1>4 DEF Asked
<1>6. \A s \in server : Settled(m, s)
  BY <1>4 DEF Settled, Right
<1>7. server' = server /\ client' = [client EXCEPT ![c] = m]
  BY DEF Begin, m
<1> QED BY <1>3, <1>5, <1>6, <1>7, ClientMoves DEF ClientOK

LEMMA BeginAbsentKeeps ==
    ASSUME IInv, NEW c \in Clients, NEW local \in Snapshots, NEW target \in Nullifiers, NEW seed \in Seeds,
           NEW probe \in ProbeRows, BeginAbsent(c, local, target, seed, probe)
    PROVE  IInv'
<1> DEFINE m == [Idle EXCEPT !.at = "meta", !.local = local, !.target = target, !.absent = TRUE,
                      !.row = probe, !.seed = {seed}, !.quiet = server # {}]
<1>1. (server # {}) \in BOOLEAN
  OBVIOUS
<1>2. m \in ClientStates
  <2>1. probe \in Nat /\ 0 \in 0..(RowRecords - 1)
    BY QueryConstants
  <2> QED BY <1>1, <2>1 DEF Idle, ClientStates
<1>3. m.at = "meta" /\ m.absent = TRUE
  BY DEF Idle
<1>4. server' = server /\ client' = [client EXCEPT ![c] = m]
  BY DEF BeginAbsent
<1> HIDE DEF m
<1>5. Asked(m) /\ \A s \in server : Settled(m, s)
  BY <1>3 DEF Asked, Settled, Right
<1> QED BY <1>2, <1>4, <1>5, ClientMoves DEF ClientOK

(* Fields that Becomes and the requests leave alone. *)
SameQuestion(m, n) ==
    /\ m.local = n.local /\ m.target = n.target /\ m.absent = n.absent
    /\ m.row = n.row /\ m.offset = n.offset /\ m.seed = n.seed /\ m.quiet = n.quiet

LEMMA BecomesIs ==
    ASSUME IInv, NEW c \in Clients, NEW where, Becomes(c, where),
           where \in {"verified", "absent", "failed", "unreachable"}
    PROVE  \E m \in ClientStates :
             /\ client' = [client EXCEPT ![c] = m]
             /\ m.at = where /\ SameQuestion(m, client[c]) /\ m.answer = client[c].answer
<1>1. client[c] \in ClientStates /\ client \in [Clients -> ClientStates]
  BY DEF IInv
<1> DEFINE m == [client[c] EXCEPT !.at = where]
<1>2. m \in ClientStates /\ m.at = where /\ SameQuestion(m, client[c]) /\ m.answer = client[c].answer
  BY <1>1 DEF ClientStates, SameQuestion
<1>3. client' = [client EXCEPT ![c] = m]
  BY <1>1 DEF Becomes
<1> QED BY <1>2, <1>3

LEMMA GetMetaKeeps == ASSUME IInv, NEW c \in Clients, GetMeta(c) PROVE IInv'
<1> PICK s \in server :
      /\ client[c].at = "meta"
      /\ IF {s.seed} = client[c].seed /\ client[c].row < db_rows(s.snapshot)
         THEN client' = [client EXCEPT ![c].at = "params", ![c].db_rows = db_rows(s.snapshot)]
         ELSE Becomes(c, "failed")
      /\ UNCHANGED server
  BY DEF GetMeta
<1>1. /\ client[c] \in ClientStates /\ client \in [Clients -> ClientStates] /\ ClientOK(client[c])
      /\ \A t \in server : t = s
      /\ s.snapshot \in Snapshots /\ db_rows(s.snapshot) \in Nat
  BY InServers, RowCounts DEF IInv, ServerOK
<1>2. CASE {s.seed} = client[c].seed /\ client[c].row < db_rows(s.snapshot)
  <2> DEFINE m == [client[c] EXCEPT !.at = "params", !.db_rows = db_rows(s.snapshot)]
  <2>1. /\ m \in ClientStates /\ m.at = "params" /\ SameQuestion(m, client[c])
        /\ m.db_rows = db_rows(s.snapshot)
    BY <1>1 DEF ClientStates, SameQuestion
  <2>2. client' = [client EXCEPT ![c] = m]
    BY <1>1, <1>2
  <2> HIDE DEF m
  <2>3. Asked(m)
    BY <1>1, <2>1 DEF ClientOK, Asked, SameQuestion
  <2>4. \A t \in server : Settled(m, t)
    BY <1>1, <1>2, <2>1 DEF Settled, Right, SameQuestion
  <2> QED BY <2>1, <2>2, <2>3, <2>4, ClientMoves DEF ClientOK
<1>3. CASE ~({s.seed} = client[c].seed /\ client[c].row < db_rows(s.snapshot))
  <2>1. PICK m \in ClientStates :
          /\ client' = [client EXCEPT ![c] = m]
          /\ m.at = "failed" /\ SameQuestion(m, client[c])
    BY <1>3, BecomesIs
  <2>2. Asked(m)
    BY <1>1, <2>1 DEF ClientOK, Asked, SameQuestion
  <2>3. ASSUME m.seed = {s.seed} PROVE Right(m, s)
    <3>1. m.row \in Nat /\ m.row >= db_rows(s.snapshot)
      BY <1>1, <1>3, <2>1, <2>3 DEF SameQuestion, ClientStates
    <3>2. ASSUME ~m.absent PROVE m.local # s.snapshot
      <4>1. Holds(m.local, m.row, m.offset, m.target)
        BY <2>1, <2>2, <3>2 DEF Asked
      <4>2. m.local \in Snapshots \union {<<>>} /\ m.offset \in 0..(RowRecords - 1)
        BY DEF ClientStates
      <4>3. m.row < db_rows(m.local) /\ db_rows(m.local) \in Nat
        BY <3>1, <4>1, <4>2, HeldInDatabase, RowCounts
      <4> QED BY <3>1, <4>3
    <3> QED BY <2>1, <3>1, <3>2 DEF Right
  <2>4. \A t \in server : Settled(m, t)
    BY <1>1, <2>1, <2>3 DEF Settled
  <2> QED BY <2>1, <2>2, <2>4, ClientMoves DEF ClientOK
<1> QED BY <1>2, <1>3

LEMMA GetPublicParamsKeeps == ASSUME IInv, NEW c \in Clients, GetPublicParams(c) PROVE IInv'
<1> PICK s \in server :
      /\ client[c].at = "params"
      /\ client' = [client EXCEPT ![c].at = "post", ![c].c1 = {s}]
      /\ UNCHANGED server
  BY DEF GetPublicParams
<1>1. /\ client[c] \in ClientStates /\ client \in [Clients -> ClientStates] /\ ClientOK(client[c])
      /\ s \in Servers /\ \A t \in server : t = s
  BY InServers DEF IInv, ServerOK
<1> DEFINE m == [client[c] EXCEPT !.at = "post", !.c1 = {s}]
<1>2. /\ m \in ClientStates /\ m.at = "post" /\ SameQuestion(m, client[c])
      /\ m.c1 = {s} /\ m.db_rows = client[c].db_rows
  BY <1>1 DEF ClientStates, SameQuestion
<1>3. client' = [client EXCEPT ![c] = m]
  BY <1>1
<1> HIDE DEF m
<1>4. Asked(m)
  BY <1>1, <1>2 DEF ClientOK, Asked, SameQuestion
<1>5. \A t \in server : m.quiet => Settled(m, t)
  BY <1>1, <1>2 DEF ClientOK, Settled, Right, SameQuestion
<1> QED BY <1>2, <1>3, <1>4, <1>5, ClientMoves DEF ClientOK

LEMMA PostQueryKeeps == ASSUME IInv, NEW c \in Clients, PostQuery(c) PROVE IInv'
<1> PICK s \in server :
      /\ client[c].at = "post"
      /\ IF client[c].db_rows = db_rows(s.snapshot)
         THEN client' = [client EXCEPT ![c].at = "decode", ![c].answer = {s}]
         ELSE Becomes(c, "failed")
      /\ UNCHANGED server
  BY DEF PostQuery
<1>1. /\ client[c] \in ClientStates /\ client \in [Clients -> ClientStates] /\ ClientOK(client[c])
      /\ s \in Servers /\ \A t \in server : t = s
  BY InServers DEF IInv, ServerOK
<1>2. CASE client[c].db_rows = db_rows(s.snapshot)
  <2> DEFINE m == [client[c] EXCEPT !.at = "decode", !.answer = {s}]
  <2>1. /\ m \in ClientStates /\ m.at = "decode" /\ SameQuestion(m, client[c])
        /\ m.answer = {s} /\ m.c1 = client[c].c1 /\ m.db_rows = client[c].db_rows
    BY <1>1 DEF ClientStates, SameQuestion
  <2>2. client' = [client EXCEPT ![c] = m]
    BY <1>1, <1>2
  <2> HIDE DEF m
  <2>3. Asked(m)
    BY <1>1, <2>1 DEF ClientOK, Asked, SameQuestion
  <2>4. \A t \in server : m.quiet => Settled(m, t)
    BY <1>1, <2>1 DEF ClientOK, Settled, Right, SameQuestion
  <2> QED BY <2>1, <2>2, <2>3, <2>4, ClientMoves DEF ClientOK
<1>3. CASE client[c].db_rows # db_rows(s.snapshot)
  <2>1. PICK m \in ClientStates :
          /\ client' = [client EXCEPT ![c] = m]
          /\ m.at = "failed" /\ SameQuestion(m, client[c])
    BY <1>3, BecomesIs
  <2>2. Asked(m)
    BY <1>1, <2>1 DEF ClientOK, Asked, SameQuestion
  <2>3. ~m.quiet
    BY <1>1, <1>3, <2>1 DEF ClientOK, Settled, SameQuestion
  <2> QED BY <2>1, <2>2, <2>3, ClientMoves DEF ClientOK
<1> QED BY <1>2, <1>3

LEMMA DecodeKeeps == ASSUME IInv, NEW c \in Clients, Decode(c) PROVE IInv'
<1> DEFINE o == client[c]
           row == DecodedRow(o)
<1>1. /\ o \in ClientStates /\ ClientOK(o) /\ o.at = "decode" /\ server' = server
      /\ o.offset \in 0..(RowRecords - 1) /\ o.row \in Nat /\ o.target \in Nullifiers
  BY DEF IInv, Decode, ClientStates
<1>2. PICK where \in {"verified", "absent", "failed"} :
        /\ Becomes(c, where)
        /\ where = "verified" => ~o.absent /\ row[o.offset] = o.target
        /\ where = "absent" => o.absent /\ ~Contains(row, o.target)
        /\ where = "failed" => IF o.absent THEN Contains(row, o.target) ELSE row[o.offset] # o.target
  BY DEF Decode
<1>3. PICK m \in ClientStates :
        /\ client' = [client EXCEPT ![c] = m]
        /\ m.at = where /\ SameQuestion(m, o) /\ m.answer = o.answer
  BY <1>2, BecomesIs
<1> HIDE DEF row
<1>4. Asked(m)
  <2>1. PICK s \in Servers : o.answer = {s}
    BY <1>1 DEF ClientOK, Asked
  <2>2. ASSUME where = "verified", o.target # Zero PROVE Holds(s.snapshot, o.row, o.offset, o.target)
    <3>1. row = Row(s.snapshot, o.row)
      BY <1>1, <1>2, <2>1, <2>2, DecodedFromAnswer DEF row
    <3> QED BY <1>1, <1>2, <2>2, <3>1, RowHolds
  <2> QED BY <1>1, <1>3, <2>1, <2>2 DEF ClientOK, Asked, SameQuestion
<1>5. ASSUME NEW s \in server, m.quiet PROVE Settled(m, s)
  <2>1. o.answer = {s} /\ o.c1 = {s} /\ o.seed = {s.seed} /\ o.row < db_rows(s.snapshot)
    BY <1>1, <1>3, <1>5 DEF ClientOK, Settled, SameQuestion
  <2>2. row = Row(s.snapshot, o.row)
    BY <2>1, DecodesServed DEF row
  <2>3. Holds(o.local, o.row, o.offset, o.target) /\ o.local = s.snapshot => row[o.offset] = o.target
    BY <1>1, <2>2, RowHolds
  <2>4. ~o.absent => Holds(o.local, o.row, o.offset, o.target)
    BY <1>1 DEF ClientOK, Asked
  <2>5. Right(m, s)
    BY <1>2, <1>3, <2>2, <2>3, <2>4 DEF Right, SameQuestion
  <2> QED BY <1>2, <1>3, <2>5 DEF Settled
<1> QED BY <1>1, <1>3, <1>4, <1>5, ClientMoves DEF ClientOK

LEMMA UnreachableKeeps == ASSUME IInv, NEW c \in Clients, Unreachable(c) PROVE IInv'
<1>1. /\ client[c].at \in {"meta", "params", "post"} /\ Becomes(c, "unreachable") /\ server' = server
      /\ ClientOK(client[c])
  BY DEF Unreachable, IInv
<1>2. PICK m \in ClientStates :
        /\ client' = [client EXCEPT ![c] = m]
        /\ m.at = "unreachable" /\ SameQuestion(m, client[c])
  BY <1>1, BecomesIs
<1>3. Asked(m) /\ \A s \in server : Settled(m, s)
  BY <1>1, <1>2 DEF ClientOK, Asked, Settled, Right, SameQuestion
<1> QED BY <1>1, <1>2, <1>3, ClientMoves DEF ClientOK

-----------------------------------------------------------------------------
LEMMA InitIInv == Init => IInv
<1> SUFFICES ASSUME Init PROVE IInv
  OBVIOUS
<1>1. Idle \in ClientStates
  BY QueryConstants DEF Idle, ClientStates
<1>2. Idle.at = "idle"
  BY DEF Idle
<1>3. Asked(Idle)
  BY <1>2 DEF Asked
<1> QED BY <1>1, <1>3 DEF Init, IInv, ServerOK, ClientOK

LEMMA StepKeepsIInv == ASSUME IInv, [Next]_vars PROVE IInv'
<1>1. CASE UNCHANGED vars
  BY <1>1 DEF vars, IInv, ServerOK, ClientOK
<1>2. ASSUME NEW s \in Snapshots, NEW seed \in Seeds, prepare(s, seed) PROVE IInv'
  <2>1. ServerOK'
    BY <1>2 DEF prepare, ServerOK, Servers
  <2> QED BY <1>2, <2>1, ServerMoves DEF prepare
<1>3. CASE Stop
  BY <1>3, ServerMoves DEF Stop, ServerOK
<1>4. ASSUME NEW c \in Clients, ClientStep(c) PROVE IInv'
  BY <1>4, GetMetaKeeps, GetPublicParamsKeeps, PostQueryKeeps, DecodeKeeps, UnreachableKeeps
     DEF ClientStep
<1>5. ASSUME NEW c \in Clients, Commands(c) PROVE IInv'
  BY <1>5, BeginKeeps, BeginAbsentKeeps DEF Commands
<1> QED BY <1>1, <1>2, <1>3, <1>4, <1>5 DEF Next

(* The `query` command never claims a nullifier that the answering server     *)
(* does not hold at that place, whatever restarts fall between its requests.  *)
THEOREM VerifiedNullifiersAreHeld == Spec => []VerifiedIsHeld
<1>1. IInv => VerifiedIsHeld
  BY DEF IInv, ClientOK, Asked, VerifiedIsHeld
<1> QED BY <1>1, InitIInv, StepKeepsIInv, PTL DEF Spec

(* Against one running server the `query` command gives the right report: for *)
(* every snapshot, row size, block size, target and probe row.                *)
THEOREM QuietQueriesAreRight == Spec => []QuietQueryIsRight
<1>1. IInv => QuietQueryIsRight
  BY DEF IInv, ClientOK, Settled, Right, QuietQueryIsRight
<1> QED BY <1>1, InitIInv, StepKeepsIInv, PTL DEF Spec

------------------------------------------------------------------------------
(* The snapshot store *)

JobStates ==
    [at : {"idle", "get", "create", "stream", "rename", "verify",
           "open", "hash", "load", "reading", "listening"},
     serving : BOOLEAN, response : Responses \union {NoResponse}, got : Nat,
     fd : Inodes \union {NoFile}, size : Nat, sum : SUBSET Seq(Chunks),
     rows : Seq(Chunks), replaced : BOOLEAN]

(* Whoever looks the snapshot up finds one. *)
Opened(m) ==
    /\ m.at \in {"verify", "open", "hash", "load"} => output # NoFile
    /\ m.at = "reading" => m.fd # NoFile

Types ==
    /\ part \in Inodes \union {NoFile} /\ output \in Inodes \union {NoFile}
    /\ file \in [Inodes -> Seq(Chunks)]
    /\ job \in [Processes -> JobStates]
    /\ overlapped \in BOOLEAN
    /\ \A p \in Processes : Opened(job[p])

Writing(m) == m.at \in {"stream", "rename"}

(* Until two downloads share it, the .part name belongs to one writer or to   *)
(* nobody, and to no reader; it is never the snapshot itself.                 *)
PartIsPrivate ==
    /\ part # NoFile => part # output
    /\ \A p \in Processes : Writing(job[p]) => part # NoFile /\ job[p].fd = part
    /\ \A p \in Processes : part # NoFile /\ job[p].fd = part => Writing(job[p])
    /\ \A p, q \in Processes : Writing(job[p]) /\ Writing(job[q]) => p = q

(* The writer's file is what it has received so far; before the rename it is  *)
(* a snapshot.                                                                *)
Received(m) ==
    /\ m.at \in {"idle", "get", "create"} => m.got = 0
    /\ m.at \in {"create", "stream", "rename"} => m.response \in Responses
    /\ m.at = "stream" => /\ m.got <= Length[m.response.version]
                          /\ file[part] = Body(m.response, m.got)
    /\ m.at = "rename" => SnapshotOf(file[part], m.response)

(* A loading server has the length and the hash of the published file, unless *)
(* it was replaced since; a reading one keeps the inode it opened.            *)
Loading(m) ==
    /\ m.at \notin {"reading", "listening"} => m.rows = <<>>
    /\ m.at \in {"hash", "load"} /\ ~m.replaced => m.size = Len(file[output])
    /\ m.at = "load" /\ ~m.replaced => m.sum \subseteq {file[output]}

Reading(m) ==
    m.at = "reading" =>
        /\ \E r \in Responses : SnapshotOf(file[m.fd], r) /\ m.rows = Body(r, Len(m.rows))
        /\ Len(m.rows) <= m.size
        /\ ~m.replaced => m.size = Len(file[m.fd]) /\ m.sum \subseteq {file[m.fd]}

Served(m) ==
    m.at = "listening" =>
        /\ Len(m.rows) = m.size
        /\ \E r \in Responses : m.rows = Body(r, m.size)
        /\ ~m.replaced => Whole(m.rows) /\ m.sum \subseteq {m.rows}

JobOK(m) == Received(m) /\ Loading(m) /\ Reading(m) /\ Served(m)

Sound ==
    /\ PartIsPrivate
    /\ output # NoFile => Whole(file[output])
    /\ \A p \in Processes : JobOK(job[p])

StoreInv == Types /\ (~overlapped => Sound)

-----------------------------------------------------------------------------
(* The units of a response in order. *)
LEMMA BodyIsSeq ==
    ASSUME NEW r \in Responses, NEW n \in Nat
    PROVE  /\ Body(r, n) \in Seq(Chunks) /\ Len(Body(r, n)) = n
           /\ \A i \in 1..n : Body(r, n)[i] = Unit(r, i)
BY DEF Body, Chunks, Unit

LEMMA BodyEmpty == ASSUME NEW r \in Responses PROVE Body(r, 0) = <<>>
BY DEF Body

LEMMA BodyGrows ==
    ASSUME NEW r \in Responses, NEW n \in Nat
    PROVE  WriteAt(Body(r, n), n + 1, Unit(r, n + 1)) = Body(r, n + 1)
<1>1. Len(Body(r, n)) = n
  BY BodyIsSeq
<1> QED BY <1>1 DEF WriteAt, Body

LEMMA BodyRest ==
    ASSUME NEW r \in Responses, NEW n \in Nat, NEW a \in Nat, NEW b \in Nat, a <= b, b <= n
    PROVE  Body(r, a) \o SubSeq(Body(r, n), a + 1, b) = Body(r, b)
<1> DEFINE rest == SubSeq(Body(r, n), a + 1, b)
           all == Body(r, a) \o rest
<1>1. /\ Body(r, a) \in Seq(Chunks) /\ Len(Body(r, a)) = a
      /\ Body(r, b) \in Seq(Chunks) /\ Len(Body(r, b)) = b
  BY BodyIsSeq
<1>2. \A i \in 1..n : Unit(r, i) \in Chunks
  BY DEF Chunks, Unit
<1>3. \A i \in (a + 1)..b : Body(r, n)[i] = Unit(r, i) /\ Body(r, n)[i] \in Chunks
  BY <1>2, BodyIsSeq
<1>4. /\ rest \in Seq(Chunks) /\ Len(rest) = b - a
      /\ \A i \in 1..(b - a) : rest[i] = Body(r, n)[a + i]
  <2>1. a + 1 \in Int /\ b \in Int
    OBVIOUS
  <2>2. /\ rest \in Seq(Chunks) /\ Len(rest) = IF a + 1 <= b THEN b - (a + 1) + 1 ELSE 0
        /\ \A i \in 1..(b - (a + 1) + 1) : rest[i] = Body(r, n)[(a + 1) + i - 1]
    BY <1>3, <2>1, SubSeqProperties
  <2>3. b - (a + 1) + 1 = b - a /\ \A i \in Int : (a + 1) + i - 1 = a + i
    OBVIOUS
  <2> QED BY <2>2, <2>3
<1> HIDE DEF rest
<1>5. /\ all \in Seq(Chunks) /\ Len(all) = b
      /\ \A i \in 1..b : all[i] = IF i <= a THEN Body(r, a)[i] ELSE rest[i - a]
  <2>1. /\ all \in Seq(Chunks) /\ Len(all) = Len(Body(r, a)) + Len(rest)
        /\ \A i \in 1..(Len(Body(r, a)) + Len(rest)) :
             all[i] = IF i <= Len(Body(r, a)) THEN Body(r, a)[i] ELSE rest[i - Len(Body(r, a))]
    BY <1>1, <1>4, ConcatProperties
  <2>2. Len(Body(r, a)) + Len(rest) = b
    BY <1>1, <1>4
  <2> QED BY <1>1, <2>1, <2>2
<1> HIDE DEF all
<1>6. ASSUME NEW i \in 1..b PROVE all[i] = Body(r, b)[i]
  <2>1. Body(r, b)[i] = Unit(r, i)
    BY BodyIsSeq
  <2>2. CASE i <= a
    BY <1>5, <2>1, <2>2, BodyIsSeq
  <2>3. CASE i > a
    <3>1. i - a \in 1..(b - a) /\ a + (i - a) = i /\ i \in (a + 1)..b
      BY <2>3
    <3>2. rest[i - a] = Unit(r, i)
      BY <1>3, <1>4, <3>1
    <3> QED BY <1>5, <2>1, <2>3, <3>2
  <2> QED BY <2>2, <2>3
<1>7. all = Body(r, b)
  BY <1>1, <1>5, <1>6, SeqEqual
<1> QED BY <1>7 DEF all, rest

LEMMA WriteIsSeq ==
    ASSUME NEW s \in Seq(Chunks), NEW n \in Nat \ {0}, NEW unit \in Chunks
    PROVE  WriteAt(s, n, unit) \in Seq(Chunks)
<1>1. Hole \in Chunks
  BY DEF Hole, Unit, Chunks
<1>2. Len(s) \in Nat /\ \A i \in 1..Len(s) : s[i] \in Chunks
  BY ElementOfSeq
<1> QED BY <1>1, <1>2 DEF WriteAt

-----------------------------------------------------------------------------
(* One process moves; names and files stay.  It does not become the writer,   *)
(* and it does not keep the .part file open when it stops being it.           *)
LEMMA JobMoves ==
    ASSUME StoreInv, NEW p \in Processes, NEW m \in JobStates, job' = [job EXCEPT ![p] = m],
           UNCHANGED <<part, output, file, overlapped>>, Opened(m),
           ~overlapped => /\ Writing(m) => Writing(job[p]) /\ m.fd = job[p].fd
                          /\ part # NoFile /\ m.fd = part => Writing(m)
                          /\ JobOK(m)
    PROVE  StoreInv'
<1>1. /\ job' \in [Processes -> JobStates] /\ job'[p] = m
      /\ \A q \in Processes : q # p => job'[q] = job[q]
  BY DEF StoreInv, Types
<1>2. Types'
  <2>1. ASSUME NEW q \in Processes PROVE Opened(job[q])'
    <3>1. Opened(job'[q])
      BY <1>1 DEF StoreInv, Types
    <3> QED BY <3>1 DEF Opened
  <2> QED BY <1>1, <2>1 DEF StoreInv, Types
<1>3. ASSUME ~overlapped' PROVE Sound'
  <2>1. Sound /\ ~overlapped
    BY <1>3 DEF StoreInv
  <2>2. PartIsPrivate'
    BY <1>1, <2>1 DEF Sound, PartIsPrivate, Writing
  <2>3. ASSUME NEW q \in Processes PROVE JobOK(job[q])'
    <3>1. JobOK(job'[q])
      BY <1>1, <2>1 DEF Sound
    <3> QED BY <3>1 DEF JobOK, Received, Loading, Reading, Served
  <2> QED BY <2>1, <2>2, <2>3 DEF Sound
<1> QED BY <1>2, <1>3 DEF StoreInv

LEMMA IdleFits == IdleJob \in JobStates /\ JobOK(IdleJob) /\ Opened(IdleJob) /\ ~Writing(IdleJob) /\ IdleJob.fd = NoFile
<1>1. IdleJob \in JobStates
  BY DEF IdleJob, JobStates
<1>2. IdleJob.at = "idle" /\ IdleJob.got = 0 /\ IdleJob.rows = <<>> /\ IdleJob.fd = NoFile
  BY DEF IdleJob
<1> QED BY <1>1, <1>2 DEF JobOK, Received, Loading, Reading, Served, Opened, Writing

(* A process that exits, for whatever reason, leaves the files as they are. *)
LEMMA ExitKeeps ==
    ASSUME StoreInv, NEW p \in Processes, Exits(p), UNCHANGED <<part, output, file, overlapped>>
    PROVE  StoreInv'
BY IdleFits, JobMoves DEF Exits

LEMMA JobFacts ==
    ASSUME StoreInv, NEW p \in Processes
    PROVE  /\ job \in [Processes -> JobStates] /\ job[p] \in JobStates /\ Opened(job[p])
           /\ ~overlapped => JobOK(job[p]) /\ PartIsPrivate /\ Sound
           /\ output # NoFile => file[output] \in Seq(Chunks) /\ Len(file[output]) \in Nat
BY DEF StoreInv, Types, Sound

LEMMA StartKeeps ==
    ASSUME StoreInv, NEW p \in Processes, NEW has_url \in BOOLEAN,
           StartDownload(p) \/ StartServe(p, has_url)
    PROVE  StoreInv'
<1>1. /\ At(p, "idle") /\ UNCHANGED <<part, output, file, overlapped>>
      /\ job[p] \in JobStates /\ job \in [Processes -> JobStates]
  BY JobFacts DEF StartDownload, StartServe
<1>2. PICK where \in {"get", "open"}, serving \in BOOLEAN :
        /\ job' = [job EXCEPT ![p] = [job[p] EXCEPT !.at = where, !.serving = serving]]
        /\ where = "open" => output # NoFile
  <2>1. CASE StartDownload(p)
    <3>1. job[p].serving \in BOOLEAN
      BY <1>1 DEF JobStates
    <3>2. job' = [job EXCEPT ![p] = [job[p] EXCEPT !.at = "get", !.serving = job[p].serving]]
      BY <1>1, <2>1 DEF StartDownload, JobStates
    <3> QED BY <3>1, <3>2
  <2>2. CASE StartServe(p, has_url)
    BY <1>1, <2>2 DEF StartServe, JobStates
  <2> QED BY <2>1, <2>2
<1> DEFINE m == [job[p] EXCEPT !.at = where, !.serving = serving]
<1>3. /\ m \in JobStates /\ m.at = where /\ m.got = job[p].got /\ m.rows = job[p].rows
      /\ m.fd = job[p].fd
  BY <1>1 DEF JobStates
<1> HIDE DEF m
<1>4. Opened(m) /\ ~Writing(m)
  BY <1>2, <1>3 DEF Opened, Writing
<1>5. ASSUME ~overlapped PROVE JobOK(m) /\ (part # NoFile => m.fd # part)
  <2>1. JobOK(job[p]) /\ PartIsPrivate
    BY <1>5, JobFacts
  <2>2. JobOK(m)
    BY <1>1, <1>3, <2>1 DEF JobOK, Received, Loading, Reading, Served, At
  <2> QED BY <1>1, <1>3, <2>1, <2>2 DEF PartIsPrivate, Writing, At
<1> QED BY <1>1, <1>2, <1>3, <1>4, <1>5, JobMoves DEF m

LEMMA GetKeeps == ASSUME StoreInv, NEW p \in Processes, NEW r \in Responses, Get(p, r) PROVE StoreInv'
<1>1. /\ job[p].at = "get" /\ UNCHANGED <<part, output, file, overlapped>>
      /\ job[p] \in JobStates /\ job \in [Processes -> JobStates]
  BY JobFacts DEF Get, At
<1> DEFINE m == [job[p] EXCEPT !.at = "create", !.response = r]
<1>2. Exits(p) \/ job' = [job EXCEPT ![p] = m]
  BY <1>1 DEF Get, Checked, JobStates
<1>3. /\ m \in JobStates /\ m.at = "create" /\ m.got = job[p].got /\ m.rows = job[p].rows
      /\ m.fd = job[p].fd /\ m.response = r
  BY <1>1 DEF JobStates
<1> HIDE DEF m
<1>4. Opened(m) /\ ~Writing(m)
  BY <1>3 DEF Opened, Writing
<1>5. ASSUME ~overlapped PROVE JobOK(m) /\ (part # NoFile => m.fd # part)
  <2>1. JobOK(job[p]) /\ PartIsPrivate
    BY <1>5, JobFacts
  <2>2. JobOK(m)
    BY <1>1, <1>3, <2>1 DEF JobOK, Received, Loading, Reading, Served
  <2> QED BY <1>1, <1>3, <2>1, <2>2 DEF PartIsPrivate, Writing
<1> QED BY <1>1, <1>2, <1>3, <1>4, <1>5, JobMoves, ExitKeeps

LEMMA EndOfBodyKeeps == ASSUME StoreInv, NEW p \in Processes, EndOfBody(p) PROVE StoreInv'
<1>1. /\ job[p].at = "stream" /\ UNCHANGED <<part, output, file, overlapped>>
      /\ job[p] \in JobStates /\ job \in [Processes -> JobStates] /\ job[p].got \in Nat
  BY JobFacts DEF EndOfBody, At, JobStates
<1> DEFINE m == [job[p] EXCEPT !.at = "rename"]
<1>2. Exits(p) \/ (job' = [job EXCEPT ![p] = m] /\ validate_snapshot_len(job[p].got))
  BY DEF EndOfBody, Checked
<1>3. /\ m \in JobStates /\ m.at = "rename" /\ m.rows = job[p].rows
      /\ m.fd = job[p].fd /\ m.response = job[p].response
  BY <1>1 DEF JobStates
<1> HIDE DEF m
<1>4. Opened(m) /\ Writing(m)
  BY <1>3 DEF Opened, Writing
<1>5. ASSUME ~overlapped, validate_snapshot_len(job[p].got) PROVE JobOK(m)
  <2>1. JobOK(job[p])
    BY <1>5, JobFacts
  <2>2. /\ job[p].response \in Responses /\ file[part] = Body(job[p].response, job[p].got)
        /\ job[p].got = Length[job[p].response.version] \/ ~job[p].response.sized
    BY <1>1, <2>1 DEF JobOK, Received, EndOfBody
  <2>3. SnapshotOf(file[part], job[p].response)
    BY <1>1, <1>5, <2>2, BodyIsSeq DEF SnapshotOf
  <2> QED BY <1>1, <1>3, <2>1, <2>2, <2>3 DEF JobOK, Received, Loading, Reading, Served
<1>6. Writing(job[p])
  BY <1>1 DEF Writing
<1> QED BY <1>1, <1>2, <1>3, <1>4, <1>5, <1>6, JobMoves, ExitKeeps

LEMMA VerifyKeeps == ASSUME StoreInv, NEW p \in Processes, Verify(p) PROVE StoreInv'
<1>1. job[p].at = "verify" /\ UNCHANGED <<part, output, file, overlapped>> /\ output # NoFile
  BY JobFacts DEF Verify, At, Opened
<1> DEFINE m == [IdleJob EXCEPT !.at = "open", !.serving = TRUE]
<1>2. Exits(p) \/ job' = [job EXCEPT ![p] = m]
  BY DEF Verify, Checked
<1>3. m \in JobStates /\ m.at = "open" /\ m.rows = <<>> /\ m.fd = NoFile
  <2>1. IdleJob \in JobStates /\ IdleJob.rows = <<>> /\ IdleJob.fd = NoFile
    BY IdleFits DEF IdleJob
  <2> QED BY <2>1 DEF JobStates
<1> HIDE DEF m
<1>4. Opened(m) /\ ~Writing(m) /\ JobOK(m)
  BY <1>1, <1>3 DEF Opened, Writing, JobOK, Received, Loading, Reading, Served
<1> QED BY <1>1, <1>2, <1>3, <1>4, JobMoves, ExitKeeps
LEMMA OpenKeeps == ASSUME StoreInv, NEW p \in Processes, Open(p) PROVE StoreInv'
<1>1. /\ job[p].at = "open" /\ UNCHANGED <<part, output, file, overlapped>> /\ output # NoFile
      /\ job[p] \in JobStates /\ Len(file[output]) \in Nat
  BY JobFacts DEF Open, At
<1> DEFINE m == [job[p] EXCEPT !.at = "hash", !.size = Len(file[output])]
<1>2. Exits(p) \/ job' = [job EXCEPT ![p] = m]
  BY DEF Open, Checked
<1>3. /\ m \in JobStates /\ m.at = "hash" /\ m.rows = job[p].rows /\ m.fd = job[p].fd
      /\ m.size = Len(file[output])
  BY <1>1 DEF JobStates
<1> HIDE DEF m
<1>4. Opened(m) /\ ~Writing(m)
  BY <1>1, <1>3 DEF Opened, Writing
<1>5. ASSUME ~overlapped PROVE JobOK(m) /\ (part # NoFile => m.fd # part)
  <2>1. JobOK(job[p]) /\ PartIsPrivate
    BY <1>5, JobFacts
  <2>2. JobOK(m)
    BY <1>1, <1>3, <2>1 DEF JobOK, Received, Loading, Reading, Served
  <2> QED BY <1>1, <1>3, <2>1, <2>2 DEF PartIsPrivate, Writing
<1> QED BY <1>1, <1>2, <1>3, <1>4, <1>5, JobMoves, ExitKeeps

LEMMA HashKeeps ==
    ASSUME StoreInv, NEW p \in Processes, NEW hash_snapshot \in BOOLEAN, Hash(p, hash_snapshot)
    PROVE  StoreInv'
<1>1. /\ job[p].at = "hash" /\ UNCHANGED <<part, output, file, overlapped>> /\ output # NoFile
      /\ job[p] \in JobStates /\ job \in [Processes -> JobStates] /\ file[output] \in Seq(Chunks)
  BY JobFacts DEF Hash, At, Opened
<1>2. PICK sum \in SUBSET {file[output]} :
        job' = [job EXCEPT ![p] = [job[p] EXCEPT !.at = "load", !.sum = sum]]
  BY <1>1 DEF Hash, JobStates
<1> DEFINE m == [job[p] EXCEPT !.at = "load", !.sum = sum]
<1>3. sum \in SUBSET Seq(Chunks)
  BY <1>1
<1>4. /\ m \in JobStates /\ m.at = "load" /\ m.rows = job[p].rows /\ m.fd = job[p].fd
      /\ m.size = job[p].size /\ m.sum = sum /\ m.replaced = job[p].replaced
  BY <1>1, <1>3 DEF JobStates
<1> HIDE DEF m
<1>5. Opened(m) /\ ~Writing(m)
  BY <1>1, <1>4 DEF Opened, Writing
<1>6. ASSUME ~overlapped PROVE JobOK(m) /\ (part # NoFile => m.fd # part)
  <2>1. JobOK(job[p]) /\ PartIsPrivate
    BY <1>6, JobFacts
  <2>2. JobOK(m)
    BY <1>1, <1>4, <2>1 DEF JobOK, Received, Loading, Reading, Served
  <2> QED BY <1>1, <1>4, <2>1, <2>2 DEF PartIsPrivate, Writing
<1> QED BY <1>1, <1>2, <1>4, <1>5, <1>6, JobMoves DEF m

LEMMA coeff_iterKeeps == ASSUME StoreInv, NEW p \in Processes, coeff_iter(p) PROVE StoreInv'
<1>1. /\ job[p].at = "load" /\ UNCHANGED <<part, output, file, overlapped>> /\ output # NoFile
      /\ job[p] \in JobStates /\ job \in [Processes -> JobStates]
      /\ output \in Inodes \union {NoFile} /\ job[p].size \in Nat
  BY JobFacts DEF coeff_iter, At, Opened, StoreInv, Types, JobStates
<1> DEFINE m == [job[p] EXCEPT !.at = "reading", !.fd = output]
<1>2. job' = [job EXCEPT ![p] = m]
  BY <1>1 DEF coeff_iter, JobStates
<1>3. /\ m \in JobStates /\ m.at = "reading" /\ m.rows = job[p].rows /\ m.fd = output
      /\ m.size = job[p].size /\ m.sum = job[p].sum /\ m.replaced = job[p].replaced
  BY <1>1 DEF JobStates
<1> HIDE DEF m
<1>4. Opened(m) /\ ~Writing(m)
  BY <1>1, <1>3 DEF Opened, Writing
<1>5. ASSUME ~overlapped PROVE JobOK(m) /\ (part # NoFile => m.fd # part)
  <2>1. JobOK(job[p]) /\ PartIsPrivate /\ Sound
    BY <1>5, JobFacts
  <2>2. PICK r \in Responses : SnapshotOf(file[output], r)
    BY <1>1, <2>1 DEF Sound, Whole
  <2>3. m.rows = <<>> /\ Len(m.rows) = 0
    BY <1>1, <1>3, <2>1 DEF JobOK, Loading
  <2>4. m.rows = Body(r, Len(m.rows))
    BY <2>3, BodyEmpty
  <2>5. Reading(m)
    BY <1>1, <1>3, <2>1, <2>2, <2>3, <2>4 DEF JobOK, Loading, Reading
  <2>6. JobOK(m)
    BY <1>3, <2>5 DEF JobOK, Received, Loading, Served
  <2> QED BY <1>3, <2>1, <2>6 DEF PartIsPrivate
<1> QED BY <1>1, <1>2, <1>3, <1>4, <1>5, JobMoves

LEMMA load_next_rowKeeps == ASSUME StoreInv, NEW p \in Processes, load_next_row(p) PROVE StoreInv'
<1> DEFINE from == Len(job[p].rows)
           left == job[p].size - from
           to == from + (IF left < RowLen THEN left ELSE RowLen)
           f == file[job[p].fd]
           m == [job[p] EXCEPT !.rows = job[p].rows \o SubSeq(f, from + 1, to)]
<1>1. /\ job[p].at = "reading" /\ UNCHANGED <<part, output, file, overlapped>>
      /\ job[p] \in JobStates /\ job \in [Processes -> JobStates] /\ from < job[p].size
      /\ job[p].fd # NoFile
  BY JobFacts DEF load_next_row, At, Opened
<1>2. /\ f \in Seq(Chunks) /\ Len(f) \in Nat /\ job[p].rows \in Seq(Chunks)
      /\ from \in Nat /\ job[p].size \in Nat
  BY <1>1 DEF StoreInv, Types, JobStates
<1>3. to \in Nat /\ from + 1 <= to /\ to <= job[p].size
  BY <1>1, <1>2, StoreConstants
<1>4. Exits(p) \/ (job' = [job EXCEPT ![p] = m] /\ Len(f) >= to)
  BY <1>1 DEF load_next_row, JobStates
<1> HIDE DEF f, to, from
<1>5. ASSUME Len(f) >= to, job' = [job EXCEPT ![p] = m] PROVE StoreInv'
  <2>1. \A i \in (from + 1)..to : f[i] \in Chunks
    BY <1>2, <1>3, <1>5, ElementOfSeq
  <2>2. SubSeq(f, from + 1, to) \in Seq(Chunks)
    BY <1>2, <1>3, <2>1, SubSeqProperties
  <2>3. job[p].rows \o SubSeq(f, from + 1, to) \in Seq(Chunks)
    BY <1>2, <2>2, ConcatProperties
  <2>4. /\ m \in JobStates /\ m.at = "reading" /\ m.fd = job[p].fd /\ m.size = job[p].size
        /\ m.rows = job[p].rows \o SubSeq(f, from + 1, to)
        /\ m.sum = job[p].sum /\ m.replaced = job[p].replaced
    BY <1>1, <2>3 DEF JobStates
  <2> HIDE DEF m
  <2>5. Opened(m) /\ ~Writing(m)
    BY <1>1, <2>4 DEF Opened, Writing
  <2>6. ASSUME ~overlapped PROVE JobOK(m) /\ (part # NoFile => m.fd # part)
    <3>1. JobOK(job[p]) /\ PartIsPrivate
      BY <2>6, JobFacts
    <3>2. PICK r \in Responses : SnapshotOf(f, r) /\ job[p].rows = Body(r, from)
      BY <1>1, <3>1 DEF JobOK, Reading, f, from
    <3>3. m.rows = Body(r, to)
      <4>1. f = Body(r, Len(f))
        BY <3>2 DEF SnapshotOf
      <4>2. Body(r, from) \o SubSeq(Body(r, Len(f)), from + 1, to) = Body(r, to)
        <5>1. from <= to /\ to <= Len(f)
          BY <1>2, <1>3, <1>5
        <5> QED BY <1>2, <1>3, <5>1, BodyRest
      <4> QED BY <2>4, <3>2, <4>1, <4>2
    <3>4. Len(m.rows) = to
      BY <1>3, <3>3, BodyIsSeq
    <3>5. Reading(m)
      BY <1>1, <1>3, <2>4, <3>1, <3>2, <3>3, <3>4 DEF JobOK, Reading, f
    <3>6. JobOK(m)
      BY <2>4, <3>5 DEF JobOK, Received, Loading, Served
    <3> QED BY <1>1, <2>4, <3>1, <3>6 DEF PartIsPrivate, Writing
  <2> QED BY <1>1, <1>5, <2>4, <2>5, <2>6, JobMoves
<1> QED BY <1>1, <1>4, <1>5, ExitKeeps

LEMMA ListenKeeps == ASSUME StoreInv, NEW p \in Processes, Listen(p) PROVE StoreInv'
<1>1. /\ job[p].at = "reading" /\ UNCHANGED <<part, output, file, overlapped>>
      /\ job[p] \in JobStates /\ job \in [Processes -> JobStates] /\ Len(job[p].rows) = job[p].size
  BY JobFacts DEF Listen, At
<1> DEFINE m == [job[p] EXCEPT !.at = "listening", !.fd = NoFile]
<1>2. job' = [job EXCEPT ![p] = m]
  BY <1>1 DEF Listen, JobStates
<1>3. /\ m \in JobStates /\ m.at = "listening" /\ m.rows = job[p].rows /\ m.fd = NoFile
      /\ m.size = job[p].size /\ m.sum = job[p].sum /\ m.replaced = job[p].replaced
  BY <1>1 DEF JobStates
<1> HIDE DEF m
<1>4. Opened(m) /\ ~Writing(m)
  BY <1>3 DEF Opened, Writing
<1>5. ASSUME ~overlapped PROVE JobOK(m)
  <2>1. Reading(job[p])
    BY <1>5, JobFacts DEF JobOK
  <2>2. PICK r \in Responses :
          SnapshotOf(file[job[p].fd], r) /\ job[p].rows = Body(r, Len(job[p].rows))
    BY <1>1, <2>1 DEF Reading
  <2>3. ASSUME ~m.replaced PROVE Whole(m.rows) /\ m.sum \subseteq {m.rows}
    <3>1. job[p].size = Len(file[job[p].fd]) /\ job[p].sum \subseteq {file[job[p].fd]}
      BY <1>1, <1>3, <2>1, <2>3 DEF Reading
    <3>2. m.rows = file[job[p].fd]
      BY <1>1, <1>3, <2>2, <3>1 DEF SnapshotOf
    <3> QED BY <1>3, <2>2, <3>1, <3>2 DEF Whole
  <2>4. Served(m)
    BY <1>1, <1>3, <2>2, <2>3 DEF Served
  <2> QED BY <1>3, <2>4 DEF JobOK, Received, Loading, Reading
<1> QED BY <1>1, <1>2, <1>3, <1>4, <1>5, JobMoves
-----------------------------------------------------------------------------
(* The three steps that change names or files. *)
LEMMA CreateKeeps == ASSUME StoreInv, NEW p \in Processes, Create(p) PROVE StoreInv'
<1> PICK i \in Inodes :
      /\ At(p, "create")
      /\ IF part # NoFile THEN i = part ELSE Free(i) /\ \A k \in 1..(i - 1) : ~Free(k)
      /\ part' = i
      /\ file' = [file EXCEPT ![i] = <<>>]
      /\ job' = [job EXCEPT ![p].at = "stream", ![p].fd = i]
      /\ overlapped' = (overlapped \/ \E q \in Processes : job[q].fd = i)
      /\ UNCHANGED output
  BY DEF Create
<1>1. /\ job[p].at = "create" /\ job[p] \in JobStates /\ job \in [Processes -> JobStates]
      /\ i # NoFile /\ Types
  BY JobFacts DEF At, Inodes, NoFile, StoreInv
<1> DEFINE m == [job[p] EXCEPT !.at = "stream", !.fd = i]
<1>2. job' = [job EXCEPT ![p] = m]
  BY <1>1 DEF JobStates
<1>3. /\ m \in JobStates /\ m.at = "stream" /\ m.fd = i /\ m.got = job[p].got
      /\ m.rows = job[p].rows /\ m.response = job[p].response
  BY <1>1 DEF JobStates
<1> HIDE DEF m
<1>4. /\ job' \in [Processes -> JobStates] /\ job'[p] = m
      /\ \A q \in Processes : q # p => job'[q] = job[q]
  BY <1>1, <1>2, <1>3
<1>5. file' \in [Inodes -> Seq(Chunks)] /\ overlapped' \in BOOLEAN
  BY <1>1 DEF Types
<1>6. Types'
  <2>1. ASSUME NEW q \in Processes PROVE Opened(job[q])'
    BY <1>1, <1>3, <1>4 DEF Opened, Types
  <2> QED BY <1>1, <1>4, <1>5, <2>1 DEF Types
<1>7. ASSUME ~overlapped' PROVE Sound'
  <2>1. ~overlapped /\ Sound /\ PartIsPrivate /\ \A q \in Processes : job[q].fd # i
    BY <1>7 DEF StoreInv, Sound
  <2>2. i # output
    BY <2>1 DEF PartIsPrivate, Free
  <2>3. \A q \in Processes : ~Writing(job[q])
    BY <2>1 DEF PartIsPrivate
  <2>4. /\ \A j \in Inodes : j # i => file'[j] = file[j]
        /\ file'[i] = <<>>
    BY <1>1 DEF Types
  <2>5. PartIsPrivate'
    <3>1. \A q \in Processes : Writing(job'[q]) <=> q = p
      BY <1>3, <1>4, <2>3 DEF Writing
    <3>2. \A q \in Processes : job'[q].fd = i <=> q = p
      BY <1>3, <1>4, <2>1
    <3>3. \A q \in Processes : Writing(job[q])' <=> q = p
      BY <3>1 DEF Writing
    <3> QED BY <1>1, <2>2, <3>2, <3>3 DEF PartIsPrivate
  <2>6. output' # NoFile => Whole(file[output])'
    <3>1. output # NoFile => file'[output] = file[output]
      BY <1>1, <2>2, <2>4 DEF Types
    <3> QED BY <2>1, <3>1 DEF Sound
  <2>7. ASSUME NEW q \in Processes PROVE JobOK(job[q])'
    <3>1. CASE q = p
      <4>1. job[p].got = 0 /\ job[p].response \in Responses /\ job[p].rows = <<>>
        BY <1>1, <2>1 DEF Sound, JobOK, Received, Loading
      <4>2. Length[job[p].response.version] \in Nat
        BY <4>1, StoreConstants DEF Responses
      <4>3. file'[part'] = Body(m.response, m.got)
        BY <1>3, <2>4, <4>1, BodyEmpty
      <4> QED BY <1>3, <1>4, <3>1, <4>1, <4>2, <4>3 DEF JobOK, Received, Loading, Reading, Served
    <3>2. CASE q # p
      <4>1. job'[q] = job[q] /\ JobOK(job[q]) /\ ~Writing(job[q]) /\ job[q].fd # i
        BY <1>4, <2>1, <2>3, <3>2 DEF Sound
      <4>2. job[q].at = "reading" => file'[job[q].fd] = file[job[q].fd]
        <5>1. job[q] \in JobStates /\ Opened(job[q])
          BY <1>1 DEF Types
        <5>2. job[q].at = "reading" => job[q].fd \in Inodes
          BY <5>1 DEF Opened, JobStates
        <5> QED BY <2>4, <4>1, <5>2
      <4>3. job[q].at \in {"hash", "load"} => file'[output] = file[output]
        <5>1. job[q].at \in {"hash", "load"} => output \in Inodes
          BY <1>1 DEF Types, Opened
        <5> QED BY <2>2, <2>4, <5>1
      <4> QED BY <4>1, <4>2, <4>3 DEF JobOK, Received, Loading, Reading, Served, Writing
    <3> QED BY <3>1, <3>2
  <2> QED BY <2>5, <2>6, <2>7 DEF Sound
<1> QED BY <1>6, <1>7 DEF StoreInv

LEMMA StreamKeeps == ASSUME StoreInv, NEW p \in Processes, Stream(p) PROVE StoreInv'
<1> DEFINE n == job[p].got + 1
           m == [job[p] EXCEPT !.got = n]
           unit == Unit(job[p].response, n)
<1>1. /\ job[p].at = "stream" /\ job[p] \in JobStates /\ job \in [Processes -> JobStates]
      /\ UNCHANGED <<part, output, overlapped>> /\ Types
      /\ n \in Nat \ {0} /\ job[p].got \in Nat /\ unit \in Chunks
      /\ job[p].got < Length[job[p].response.version]
  <2>1. /\ job[p].at = "stream" /\ UNCHANGED <<part, output, overlapped>>
        /\ job[p].got < Length[job[p].response.version]
    BY DEF Stream, At
  <2>2. job[p] \in JobStates /\ job \in [Processes -> JobStates] /\ Types
    BY JobFacts DEF StoreInv
  <2>3. job[p].got \in Nat /\ job[p].response \in Responses \union {NoResponse}
    BY <2>2 DEF JobStates
  <2>4. n \in Nat \ {0}
    BY <2>3
  <2>5. unit \in Chunks
    BY <2>3, <2>4 DEF Unit, Chunks
  <2> QED BY <2>1, <2>2, <2>3, <2>4, <2>5
<1>2. /\ file' = [file EXCEPT ![job[p].fd] = WriteAt(file[job[p].fd], n, unit)]
      /\ job' = [job EXCEPT ![p] = m]
  BY <1>1 DEF Stream, JobStates
<1>3. /\ m \in JobStates /\ m.at = "stream" /\ m.fd = job[p].fd /\ m.got = n
      /\ m.rows = job[p].rows /\ m.response = job[p].response
  BY <1>1 DEF JobStates
<1> HIDE DEF m
<1>4. /\ job' \in [Processes -> JobStates] /\ job'[p] = m
      /\ \A q \in Processes : q # p => job'[q] = job[q]
  BY <1>1, <1>2, <1>3
<1>5. /\ file' \in [Inodes -> Seq(Chunks)]
      /\ \A j \in Inodes : j # job[p].fd => file'[j] = file[j]
      /\ job[p].fd \in Inodes => file'[job[p].fd] = WriteAt(file[job[p].fd], n, unit)
  <2>1. \A j \in Inodes : WriteAt(file[j], n, unit) \in Seq(Chunks)
    BY <1>1, WriteIsSeq DEF Types
  <2> HIDE DEF n, unit
  <2> QED BY <1>1, <1>2, <2>1 DEF Types
<1>6. Types'
  <2>1. ASSUME NEW q \in Processes PROVE Opened(job[q])'
    BY <1>1, <1>3, <1>4 DEF Opened, Types
  <2> QED BY <1>1, <1>4, <1>5, <2>1 DEF Types
<1>7. ASSUME ~overlapped' PROVE Sound'
  <2>1. ~overlapped /\ Sound /\ PartIsPrivate
    BY <1>1, <1>7 DEF StoreInv, Sound
  <2>2. /\ part # NoFile /\ job[p].fd = part /\ part # output /\ part \in Inodes
        /\ \A q \in Processes : q # p => ~Writing(job[q]) /\ job[q].fd # part
    BY <1>1, <2>1 DEF PartIsPrivate, Writing, Types
  <2>3. PartIsPrivate'
    <3>1. \A q \in Processes : Writing(job[q])' <=> q = p
      BY <1>3, <1>4, <2>2 DEF Writing
    <3>2. \A q \in Processes : job'[q].fd = part <=> q = p
      BY <1>3, <1>4, <2>2
    <3> QED BY <1>1, <2>2, <3>1, <3>2 DEF PartIsPrivate
  <2>4. output' # NoFile => Whole(file[output])'
    <3>1. output # NoFile => file'[output] = file[output]
      BY <1>1, <1>5, <2>2 DEF Types
    <3> QED BY <1>1, <2>1, <3>1 DEF Sound
  <2>5. ASSUME NEW q \in Processes PROVE JobOK(job[q])'
    <3>1. CASE q = p
      <4>1. /\ job[p].response \in Responses /\ file[part] = Body(job[p].response, job[p].got)
            /\ job[p].rows = <<>>
        BY <1>1, <2>1 DEF Sound, JobOK, Received, Loading
      <4>2. file'[part] = Body(job[p].response, n)
        BY <1>1, <1>5, <2>2, <4>1, BodyGrows
      <4>3. Length[job[p].response.version] \in Nat
        BY <4>1, StoreConstants DEF Responses
      <4>4. n <= Length[job[p].response.version]
        BY <1>1, <4>3
      <4> QED BY <1>1, <1>3, <1>4, <3>1, <4>1, <4>2, <4>4 DEF JobOK, Received, Loading, Reading, Served
    <3>2. CASE q # p
      <4>1. job'[q] = job[q] /\ JobOK(job[q]) /\ ~Writing(job[q]) /\ job[q].fd # part
        BY <1>4, <2>1, <2>2, <3>2 DEF Sound
      <4>2. job[q].at = "reading" => file'[job[q].fd] = file[job[q].fd]
        <5>1. job[q] \in JobStates /\ Opened(job[q])
          BY <1>1 DEF Types
        <5>2. job[q].at = "reading" => job[q].fd \in Inodes
          BY <5>1 DEF Opened, JobStates
        <5> QED BY <1>5, <2>2, <4>1, <5>2
      <4>3. job[q].at \in {"hash", "load"} => file'[output] = file[output]
        <5>1. job[q].at \in {"hash", "load"} => output \in Inodes
          BY <1>1 DEF Types, Opened
        <5> QED BY <1>5, <2>2, <5>1
      <4> QED BY <1>1, <4>1, <4>2, <4>3 DEF JobOK, Received, Loading, Reading, Served, Writing
    <3> QED BY <3>1, <3>2
  <2> QED BY <2>3, <2>4, <2>5 DEF Sound
<1> QED BY <1>6, <1>7 DEF StoreInv
LEMMA PublishKeeps == ASSUME StoreInv, NEW p \in Processes, Publish(p) PROVE StoreInv'
<1>1. /\ job[p].at = "rename" /\ job[p] \in JobStates /\ job \in [Processes -> JobStates] /\ Types
      /\ part # NoFile /\ output' = part /\ part' = NoFile /\ UNCHANGED <<file, overlapped>>
  BY JobFacts DEF Publish, At, StoreInv
<1>2. ASSUME NEW q \in Processes, q # p
      PROVE  /\ job'[q] \in JobStates
             /\ job'[q].at = job[q].at /\ job'[q].fd = job[q].fd /\ job'[q].size = job[q].size
             /\ job'[q].got = job[q].got /\ job'[q].response = job[q].response
             /\ job'[q].rows = job[q].rows /\ job'[q].sum = job[q].sum
             /\ ~job'[q].replaced => ~job[q].replaced /\ job[q].at \notin {"hash", "load"}
  <2>1. job[q] \in JobStates /\ job[q].replaced \in BOOLEAN
    BY <1>1 DEF JobStates
  <2>2. PICK replaced \in BOOLEAN :
          /\ job'[q] = [job[q] EXCEPT !.replaced = replaced]
          /\ ~replaced => ~job[q].replaced /\ job[q].at \notin {"hash", "load"}
    <3> DEFINE replaced == job[q].replaced \/ job[q].at \in {"hash", "load"}
    <3>1. job'[q] = [job[q] EXCEPT !.replaced = replaced]
      BY <1>2 DEF Publish
    <3>2. replaced \in BOOLEAN
      BY <2>1
    <3> QED BY <3>1, <3>2
  <2> QED BY <2>1, <2>2 DEF JobStates
<1>3. /\ job'[p] \in JobStates /\ job'[p].at = "verify" /\ job'[p].rows = job[p].rows
  BY <1>1 DEF Publish, JobStates
<1>4. job' \in [Processes -> JobStates]
  BY <1>2, <1>3 DEF Publish
<1>5. Types'
  <2>1. ASSUME NEW q \in Processes PROVE Opened(job[q])'
    BY <1>1, <1>2, <1>3 DEF Opened, Types
  <2> QED BY <1>1, <1>4, <2>1 DEF Types
<1>6. ASSUME ~overlapped' PROVE Sound'
  <2>1. ~overlapped /\ Sound /\ PartIsPrivate
    BY <1>1, <1>6 DEF StoreInv, Sound
  <2>2. \A q \in Processes : q # p => ~Writing(job[q])
    BY <1>1, <2>1 DEF PartIsPrivate, Writing
  <2>3. PartIsPrivate'
    <3>1. \A q \in Processes : ~Writing(job[q])'
      BY <1>2, <1>3, <2>2 DEF Writing
    <3> QED BY <1>1, <3>1 DEF PartIsPrivate
  <2>4. Whole(file[output])'
    <3>1. SnapshotOf(file[part], job[p].response) /\ job[p].response \in Responses
      BY <1>1, <2>1 DEF Sound, JobOK, Received
    <3> QED BY <1>1, <3>1 DEF Whole, SnapshotOf
  <2>5. ASSUME NEW q \in Processes PROVE JobOK(job[q])'
    <3>1. JobOK(job[q])
      BY <2>1 DEF Sound
    <3>2. CASE q = p
      <4>1. job'[p].rows = <<>>
        BY <1>1, <1>3, <3>1, <3>2 DEF JobOK, Loading
      <4> QED BY <1>3, <3>2, <4>1 DEF JobOK, Received, Loading, Reading, Served
    <3>3. CASE q # p
      <4>1. Received(job[q])' /\ Loading(job[q])'
        BY <1>2, <2>2, <3>1, <3>3 DEF JobOK, Received, Loading, Writing
      <4>2. Reading(job[q])'
        BY <1>1, <1>2, <3>1, <3>3 DEF JobOK, Reading
      <4>3. Served(job[q])'
        BY <1>2, <3>1, <3>3 DEF JobOK, Served
      <4> QED BY <4>1, <4>2, <4>3 DEF JobOK
    <3> QED BY <3>2, <3>3
  <2> QED BY <2>3, <2>4, <2>5 DEF Sound
<1> QED BY <1>5, <1>6 DEF StoreInv

-----------------------------------------------------------------------------
LEMMA InitStoreInv == StoreInit => StoreInv
<1> SUFFICES ASSUME StoreInit PROVE StoreInv
  OBVIOUS
<1>1. \A p \in Processes : job[p] = IdleJob
  BY DEF StoreInit
<1>2. Types
  <2>1. file \in [Inodes -> Seq(Chunks)]
    BY EmptySeq DEF StoreInit
  <2>2. job \in [Processes -> JobStates]
    BY IdleFits DEF StoreInit
  <2>3. \A p \in Processes : Opened(job[p])
    BY <1>1, IdleFits
  <2> QED BY <2>1, <2>2, <2>3 DEF StoreInit, Types
<1>3. Sound
  <2>1. PartIsPrivate
    BY <1>1 DEF StoreInit, PartIsPrivate, Writing, IdleJob
  <2>2. \A p \in Processes : JobOK(job[p])
    BY <1>1, IdleFits
  <2> QED BY <2>1, <2>2 DEF StoreInit, Sound
<1> QED BY <1>2, <1>3 DEF StoreInv

LEMMA StepKeepsStoreInv == ASSUME StoreInv, [StoreNext]_storevars PROVE StoreInv'
<1>1. CASE UNCHANGED storevars
  BY <1>1 DEF storevars, StoreInv, Types, Opened, Sound, PartIsPrivate, Writing, JobOK, Received, Loading,
              Reading, Served
<1>2. ASSUME NEW p \in Processes, DownloadStep(p) PROVE StoreInv'
  BY <1>2, GetKeeps, CreateKeeps, StreamKeeps, EndOfBodyKeeps, PublishKeeps, VerifyKeeps
     DEF DownloadStep
<1>3. ASSUME NEW p \in Processes, ServeStep(p) PROVE StoreInv'
  BY <1>3, OpenKeeps, HashKeeps, coeff_iterKeeps, load_next_rowKeeps, ListenKeeps DEF ServeStep
<1>4. ASSUME NEW p \in Processes, Command(p) PROVE StoreInv'
  BY <1>4, StartKeeps, ExitKeeps DEF Command, Die
<1> QED BY <1>1, <1>2, <1>3, <1>4 DEF StoreNext

(* Through failed, killed and retried downloads, the snapshot name refers to  *)
(* nothing or to a whole snapshot of one response, as long as no two          *)
(* downloads have written one .part file.                                     *)
THEOREM SnapshotsPublishedWhole == StoreSpec => []PublishedWhole
<1>1. StoreInv => PublishedWhole
  BY DEF StoreInv, Sound, PublishedWhole
<1> QED BY <1>1, InitStoreInv, StepKeepsStoreInv, PTL DEF StoreSpec

(* A server that has come up serves the records of one response in order,     *)
(* although its file may have been replaced at any point of its start.        *)
THEOREM ServersReadOneSnapshot == StoreSpec => []ServedFromOneSnapshot
<1>1. StoreInv => ServedFromOneSnapshot
  BY DEF StoreInv, Sound, JobOK, Served, ServedFromOneSnapshot, At
<1> QED BY <1>1, InitStoreInv, StepKeepsStoreInv, PTL DEF StoreSpec

(* Unless the file was replaced while the server started, it serves all of it *)
(* and reports the hash of what it serves.                                    *)
THEOREM MetaMatchesRows == StoreSpec => []MetaDescribesServed
<1>1. StoreInv => MetaDescribesServed
  BY DEF StoreInv, Sound, JobOK, Served, MetaDescribesServed, At
<1> QED BY <1>1, InitStoreInv, StepKeepsStoreInv, PTL DEF StoreSpec
==============================================================================
