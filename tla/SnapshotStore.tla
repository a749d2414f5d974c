---------------------------- MODULE SnapshotStore ----------------------------
(***************************************************************************)
(* nullifier-pir: the snapshot file, from download_snapshot() to the rows  *)
(* a starting server loads from it.                                        *)
(*                                                                         *)
(* Processes (`download` and `serve` commands on one path) share two names *)
(* in a directory: the snapshot and its .part file.  A name refers to an   *)
(* inode; an open file keeps its inode when the name moves on.  Lengths    *)
(* are counted in units of which RecordLen make a nullifier, so that a     *)
(* body can end inside a record.                                           *)
(***************************************************************************)
EXTENDS Integers, Sequences

CONSTANTS
    Processes,   \* runs of the command line tool
    Versions,    \* contents the URL may serve over time
    NoVersion,   \* not a version
    Length,      \* length of each version
    RecordLen,   \* NULLIFIER_BYTES
    RowLen,      \* ITEM_BYTES
    MaxInode     \* inodes the directory may use (bound)

ASSUME StoreConstants ==
    /\ NoVersion \notin Versions
    /\ Length \in [Versions -> Nat]
    /\ RecordLen \in Nat \ {0} /\ RowLen \in Nat \ {0} /\ RowLen % RecordLen = 0

NoFile == 0
Inodes == 1..MaxInode

(* A response is one GET of the URL; sized when it has a Content-Length, or   *)
(* chunked framing: then the HTTP client reports a body that ends early.      *)
Responses == [version : Versions, sized : BOOLEAN]
NoResponse == [version |-> NoVersion, sized |-> FALSE]
Unit(r, i) == [of |-> r, at |-> i]
Hole == Unit(NoResponse, 0)
Body(r, n) == [i \in 1..n |-> Unit(r, i)]

VARIABLES
    part,        \* inode of the .part name
    output,      \* inode of the snapshot name
    file,        \* what each inode holds
    job,         \* what each process is doing
    overlapped   \* history: a download truncated a file another one was writing

storevars == <<part, output, file, job, overlapped>>

IdleJob == [at |-> "idle", serving |-> FALSE, response |-> NoResponse, got |-> 0,
         fd |-> NoFile, size |-> 0, sum |-> {}, rows |-> <<>>, replaced |-> FALSE]

StoreInit ==
    /\ part = NoFile /\ output = NoFile
    /\ file = [i \in Inodes |-> <<>>]
    /\ job = [p \in Processes |-> IdleJob]
    /\ overlapped = FALSE

validate_snapshot_len(n) == n # 0 /\ n % RecordLen = 0

At(p, where) == job[p].at = where
Exits(p) == job' = [job EXCEPT ![p] = IdleJob]
(* The step goes on only with a valid length; otherwise the command fails. *)
Checked(p, n, next) ==
    IF validate_snapshot_len(n) THEN job' = [job EXCEPT ![p] = next] ELSE Exits(p)

WriteAt(s, n, unit) ==
    [i \in 1..(IF n > Len(s) THEN n ELSE Len(s)) |->
        IF i = n THEN unit ELSE IF i <= Len(s) THEN s[i] ELSE Hole]

-----------------------------------------------------------------------------
(* main(): the two commands; serve downloads only if there is no snapshot.  *)
StartDownload(p) ==
    /\ At(p, "idle")
    /\ job' = [job EXCEPT ![p].at = "get"]
    /\ UNCHANGED <<part, output, file, overlapped>>

StartServe(p, has_url) ==
    /\ At(p, "idle")
    /\ output # NoFile \/ has_url
    /\ job' = [job EXCEPT ![p].at = IF output # NoFile THEN "open" ELSE "get",
                          ![p].serving = TRUE]
    /\ UNCHANGED <<part, output, file, overlapped>>

(* download_snapshot(): the request and the check of a known length. *)
Get(p, r) ==
    /\ At(p, "get")
    /\ IF r.sized
       THEN Checked(p, Length[r.version], [job[p] EXCEPT !.at = "create", !.response = r])
       ELSE job' = [job EXCEPT ![p].at = "create", ![p].response = r]
    /\ UNCHANGED <<part, output, file, overlapped>>

Free(i) == i # part /\ i # output /\ \A q \in Processes : job[q].fd # i

(* Mutation: the download overwrites the snapshot itself. *)
CreateInPlace(p) == \E i \in Inodes :
    /\ At(p, "create")
    /\ IF output # NoFile THEN i = output ELSE Free(i) /\ \A k \in 1..(i - 1) : ~Free(k)
    /\ output' = i
    /\ file' = [file EXCEPT ![i] = <<>>]
    /\ job' = [job EXCEPT ![p].at = "stream", ![p].fd = i]
    /\ UNCHANGED <<part, overlapped>>

(* File::create truncates the file the name refers to, or makes a new one. *)
Create(p) == \E i \in Inodes :
    /\ At(p, "create")
    /\ IF part # NoFile THEN i = part ELSE Free(i) /\ \A k \in 1..(i - 1) : ~Free(k)
    /\ part' = i
    /\ file' = [file EXCEPT ![i] = <<>>]
    /\ job' = [job EXCEPT ![p].at = "stream", ![p].fd = i]
    /\ overlapped' = (overlapped \/ \E q \in Processes : job[q].fd = i)
    /\ UNCHANGED output

Stream(p) ==
    /\ At(p, "stream")
    /\ job[p].got < Length[job[p].response.version]
    /\ LET n == job[p].got + 1 IN
         /\ file' = [file EXCEPT ![job[p].fd] = WriteAt(@, n, Unit(job[p].response, n))]
         /\ job' = [job EXCEPT ![p].got = n]
    /\ UNCHANGED <<part, output, overlapped>>

(* read() returned 0; flush, and check the length that was streamed. *)
EndOfBody(p) ==
    /\ At(p, "stream")
    /\ job[p].got = Length[job[p].response.version] \/ ~job[p].response.sized
    /\ Checked(p, job[p].got, [job[p] EXCEPT !.at = "rename"])
    /\ UNCHANGED <<part, output, file, overlapped>>

(* fs::rename moves whatever the .part name refers to by now.  Servers that   *)
(* looked at the old snapshot and have not loaded it are noted.               *)
Publish(p) ==
    /\ At(p, "rename") /\ part # NoFile
    /\ output' = part /\ part' = NoFile
    /\ job' = [q \in Processes |->
                 IF q = p THEN [job[p] EXCEPT !.at = "verify"]
                 ELSE [job[q] EXCEPT !.replaced = @ \/ job[q].at \in {"hash", "load"}]]
    /\ UNCHANGED <<file, overlapped>>

(* NullifierSnapshot::open(output) and the return; serve goes on to open it. *)
Verify(p) ==
    /\ At(p, "verify")
    /\ IF job[p].serving
       THEN Checked(p, Len(file[output]), [IdleJob EXCEPT !.at = "open", !.serving = TRUE])
       ELSE Exits(p)
    /\ UNCHANGED <<part, output, file, overlapped>>

-----------------------------------------------------------------------------
(* serve: NullifierSnapshot::open, the optional hash, and coeff_iter each   *)
(* look the name up again.                                                  *)
Open(p) ==
    /\ At(p, "open") /\ output # NoFile
    /\ Checked(p, Len(file[output]),
               [job[p] EXCEPT !.at = "hash", !.size = Len(file[output])])
    /\ UNCHANGED <<part, output, file, overlapped>>

Hash(p, hash_snapshot) ==
    /\ At(p, "hash")
    /\ job' = [job EXCEPT ![p].at = "load",
                          ![p].sum = IF hash_snapshot THEN {file[output]} ELSE {}]
    /\ UNCHANGED <<part, output, file, overlapped>>

coeff_iter(p) ==
    /\ At(p, "load")
    /\ job' = [job EXCEPT ![p].at = "reading", ![p].fd = output]
    /\ UNCHANGED <<part, output, file, overlapped>>

(* Mutation: each row opens the snapshot by name again. *)
load_row_by_name(p) ==
    /\ At(p, "reading") /\ Len(job[p].rows) < job[p].size
    /\ LET from == Len(job[p].rows)
           left == job[p].size - from
           to == from + (IF left < RowLen THEN left ELSE RowLen)
       IN IF Len(file[output]) >= to
          THEN job' = [job EXCEPT ![p].rows = @ \o SubSeq(file[output], from + 1, to)]
          ELSE Exits(p)
    /\ UNCHANGED <<part, output, file, overlapped>>

(* load_next_row(): a row of what is left of the length seen by open.  A      *)
(* short read panics (and the process is gone).                               *)
load_next_row(p) ==
    /\ At(p, "reading") /\ Len(job[p].rows) < job[p].size
    /\ LET from == Len(job[p].rows)
           left == job[p].size - from
           to == from + (IF left < RowLen THEN left ELSE RowLen)
       IN IF Len(file[job[p].fd]) >= to
          THEN job' = [job EXCEPT ![p].rows = @ \o SubSeq(file[job[p].fd], from + 1, to)]
          ELSE Exits(p)
    /\ UNCHANGED <<part, output, file, overlapped>>

(* Mutation: a partly filled last row is dropped. *)
ListenDropsShortRow(p) ==
    /\ At(p, "reading") /\ job[p].size - Len(job[p].rows) < RowLen
    /\ job' = [job EXCEPT ![p].at = "listening", ![p].fd = NoFile]
    /\ UNCHANGED <<part, output, file, overlapped>>

Listen(p) ==
    /\ At(p, "reading") /\ Len(job[p].rows) = job[p].size
    /\ job' = [job EXCEPT ![p].at = "listening", ![p].fd = NoFile]
    /\ UNCHANGED <<part, output, file, overlapped>>

(* An I/O or network error, or a crash: the process is gone, its files stay. *)
Die(p) ==
    /\ ~At(p, "idle")
    /\ Exits(p)
    /\ UNCHANGED <<part, output, file, overlapped>>

DownloadStep(p) ==
    \/ \E r \in Responses : Get(p, r)
    \/ Create(p) \/ Stream(p) \/ EndOfBody(p) \/ Publish(p) \/ Verify(p)
ServeStep(p) ==
    \/ Open(p) \/ \E hash_snapshot \in BOOLEAN : Hash(p, hash_snapshot)
    \/ coeff_iter(p) \/ load_next_row(p) \/ Listen(p)
Command(p) ==
    \/ StartDownload(p) \/ \E has_url \in BOOLEAN : StartServe(p, has_url)
    \/ Die(p)

StoreNext == \E p \in Processes : DownloadStep(p) \/ ServeStep(p) \/ Command(p)

StoreSpec == StoreInit /\ [][StoreNext]_storevars

-----------------------------------------------------------------------------
Chunks == [of : Responses \union {NoResponse}, at : Nat]

StoreOK ==
    /\ part \in Inodes \union {NoFile} /\ output \in Inodes \union {NoFile}
    /\ file \in [Inodes -> Seq(Chunks)]
    /\ \A p \in Processes :
         /\ job[p].at \in {"idle", "get", "create", "stream", "rename", "verify",
                           "open", "hash", "load", "reading", "listening"}
         /\ job[p].response \in Responses \union {NoResponse}
         /\ job[p].got \in 0..(IF job[p].response = NoResponse THEN 0
                               ELSE Length[job[p].response.version])
         /\ job[p].size \in Nat
         /\ job[p].fd \in Inodes \union {NoFile}
         /\ job[p].rows \in Seq(Chunks) /\ Len(job[p].rows) <= job[p].size
         /\ job[p].serving \in BOOLEAN /\ job[p].replaced \in BOOLEAN
    /\ overlapped \in BOOLEAN

(* The first n units of one response, a whole number of records; all of it    *)
(* when the transport delimits the body.                                      *)
SnapshotOf(s, r) ==
    /\ s = Body(r, Len(s)) /\ validate_snapshot_len(Len(s))
    /\ r.sized => Len(s) = Length[r.version]
Whole(s) == \E r \in Responses : SnapshotOf(s, r)

(* Write to .part, then rename: unless two downloads wrote one .part file,    *)
(* the snapshot name only ever refers to a whole snapshot, through failed     *)
(* and killed downloads, left-over .part files, and retries over them.        *)
PublishedWhole == output # NoFile /\ ~overlapped => Whole(file[output])

(* A server that came up serves rows of one snapshot, never a mixture, even   *)
(* when a download replaced the file while it started: as many records as     *)
(* open() counted, in file order.                                             *)
ServedFromOneSnapshot == \A p \in Processes :
    At(p, "listening") /\ ~overlapped =>
        /\ Len(job[p].rows) = job[p].size
        /\ \E r \in Responses : job[p].rows = Body(r, job[p].size)

(* If no download replaced the file between stat and load, the server serves  *)
(* every record of it, and the hash /meta reports is the hash of those rows.  *)
MetaDescribesServed == \A p \in Processes :
    At(p, "listening") /\ ~overlapped /\ ~job[p].replaced =>
        Whole(job[p].rows) /\ job[p].sum \subseteq {job[p].rows}
=============================================================================
