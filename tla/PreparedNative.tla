--------------------------- MODULE PreparedNative ---------------------------
(***************************************************************************)
(* reinspiring/src/prepared_native.rs: preprocessing written to a file and *)
(* served by another process that maps it.  A file is a sequence of        *)
(* half words (4 bytes); a magic, and a setup identifier, count as one.    *)
(* The caller authenticates the file, so what is at stake is its shape:    *)
(* files that end early or late, that belong to another setup, or that     *)
(* hold another number of blocks.                                          *)
(***************************************************************************)
EXTENDS NativePacking, SequencesExt

CONSTANT HalfBits    \* bits of a half word (32)

VARIABLE origin      \* of the blocks served: "built" here, or of a "whole" or "damaged" file; those written to it

Past == -1           \* what a read beyond the end gives

NativeId(p) == <<p.bits, p.ell, p.w, p.v>>

-----------------------------------------------------------------------------
HalfWords(x) == <<x % 2^HalfBits, (x \div 2^HalfBits) % 2^HalfBits>>
WordsOf(seq) == FlattenSeq([n \in DOMAIN seq |-> HalfWords(seq[n])])
PolyWords(poly) == WordsOf([i \in 1..D |-> poly[i - 1]])

(* The compiled matrix by rows, the limbs side by side. *)
Entries(block) == [n \in 1..(D * D * job.ell) |->
    LET col == (n - 1) % (D * job.ell)
    IN  centered(block.h[(col \div D) + 1][(n - 1) \div (D * job.ell)][col % D])]
Narrow(entries) == \A n \in DOMAIN entries : entries[n] >= -(2^(HalfBits - 1)) /\ entries[n] < 2^(HalfBits - 1)

MatrixWords(entries) ==
    IF Narrow(entries) THEN HalfWords(4) \o [n \in DOMAIN entries |-> entries[n] % 2^HalfBits]
    ELSE HalfWords(8) \o WordsOf(entries)

LeftoverWords(leftover) ==
    IF leftover = <<>> THEN <<>>
    ELSE WordsOf(<<Len(leftover.transforms), IF leftover.sum_fits_two THEN 1 ELSE 0>>) \o
         FlattenSeq([l \in DOMAIN leftover.transforms |->
             HalfWords(Len(leftover.transforms[l])) \o
             FlattenSeq([j \in DOMAIN leftover.transforms[l] |-> PolyWords(leftover.transforms[l][j])])])

write(blocks, id) ==
    <<IF blocks[1].a_other # <<>> THEN "RNMAP002" ELSE "RNMAP001">> \o HalfWords(Len(blocks)) \o
    FlattenSeq([b \in DOMAIN blocks |->
        <<id>> \o PolyWords(blocks[b].a) \o
        (IF blocks[b].a_other = <<>> THEN <<>> ELSE PolyWords(blocks[b].a_other)) \o
        MatrixWords(Entries(blocks[b])) \o LeftoverWords(blocks[b].leftover)])

-----------------------------------------------------------------------------
(* The reader goes through the file once; at is a position. *)

TwoMask(file) == file[1] = "RNMAP002"
FileWord(file, at) == IF at + 1 > Len(file) THEN Past ELSE file[at] + file[at + 1] * 2^HalfBits
PolyAt(file, at) == [i \in Index |-> FileWord(file, at + 2 * i)]
Below(poly, bound) == \A i \in Index : poly[i] \in 0..(bound - 1)
SignedWord(x, bits) == IF x >= 2^(bits - 1) THEN x - 2^bits ELSE x

TagAt(file, at) == at + 1 + 2 * D * (IF TwoMask(file) THEN 2 ELSE 1)
EntryCount == D * D * job.ell
EntryWidth(file, at) == IF FileWord(file, TagAt(file, at)) = 4 THEN 1 ELSE 2
EntryAt(file, at, n) ==
    LET from == TagAt(file, at) + 2 + n * EntryWidth(file, at)
    IN  IF EntryWidth(file, at) = 1 THEN SignedWord(file[from], HalfBits)
        ELSE SignedWord(FileWord(file, from), 2 * HalfBits)
EntriesEnd(file, at) == TagAt(file, at) + 2 + EntryCount * EntryWidth(file, at)

(* The limbs follow two words; each says how many primes it keeps. *)
LimbAt(file, at) ==
    LET start[l \in 1..(job.ell + 1)] ==
            IF l = 1 THEN EntriesEnd(file, at) + 4
            ELSE start[l - 1] + 2 + (2 * D * FileWord(file, start[l - 1]))
    IN  start
BlockEnd(file, at) == IF TwoMask(file) THEN EntriesEnd(file, at) ELSE LimbAt(file, at)[job.ell + 1]

LeftoverAt(file, at) ==
    [transforms |-> [l \in 1..job.ell |->
         [j \in 1..FileWord(file, LimbAt(file, at)[l]) |-> PolyAt(file, LimbAt(file, at)[l] + 2 + (2 * D * (j - 1)))]],
     sum_fits_two |-> FileWord(file, EntriesEnd(file, at) + 2) = 1]

LeftoverValid(file, at) ==
    /\ FileWord(file, EntriesEnd(file, at)) = job.ell
    /\ FileWord(file, EntriesEnd(file, at) + 2) \in {0, 1}
    /\ \A l \in 1..job.ell :
        /\ FileWord(file, LimbAt(file, at)[l]) \in 2..3
        /\ \A j \in DOMAIN LeftoverAt(file, at).transforms[l] :
             Below(LeftoverAt(file, at).transforms[l][j], LiftPrimes[j])

BlockValid(file, at) ==
    /\ at <= Len(file) /\ file[at] = NativeId(job)
    /\ Below(PolyAt(file, at + 1), Q)
    /\ TwoMask(file) => Below(PolyAt(file, at + 1 + 2 * D), Q)
    /\ FileWord(file, TagAt(file, at)) \in {4, 8}
    /\ EntriesEnd(file, at) <= Len(file) + 1
    /\ EntryWidth(file, at) = 2 => \A n \in 0..(EntryCount - 1) : Abs(EntryAt(file, at, n)) <= Q \div 2
    /\ TwoMask(file) \/ LeftoverValid(file, at)

BlockAt(file, at) ==
    [a |-> PolyAt(file, at + 1),
     a_other |-> IF TwoMask(file) THEN PolyAt(file, at + 1 + 2 * D) ELSE <<>>,
     h |-> [l \in 1..job.ell |-> [r \in Index |-> [c \in Index |->
              EntryAt(file, at, (r * D * job.ell) + ((l - 1) * D) + c) % Q]]],
     leftover |-> IF TwoMask(file) THEN <<>> ELSE LeftoverAt(file, at)]

(* Mutation: what follows the last block is not looked at. *)
Ends_open(file, at) == at <= Len(file) + 1
Ends(file, at) == at = Len(file) + 1

read(file, count) ==
    LET start[b \in 1..(count + 1)] == IF b = 1 THEN 4 ELSE BlockEnd(file, start[b - 1])
        valid == /\ count \in 1..16 /\ file[1] \in {"RNMAP001", "RNMAP002"} /\ FileWord(file, 2) = count
                 /\ \A b \in 1..count : BlockValid(file, start[b])
                 /\ Ends(file, start[count + 1])
    IN  IF valid THEN [b \in 1..count |-> BlockAt(file, start[b])] ELSE <<>>

-----------------------------------------------------------------------------
(* Files a process may be started on: the whole file of the blocks, one that  *)
(* is cut or has something appended, one of another setup, and one with more  *)
(* or fewer blocks than the process expects.                                  *)
Files ==
    LET n == Len(pres)
        whole == write(pres, NativeId(job))
        file(kind, data, count) == [kind |-> kind, data |-> data, count |-> count]
    IN  {file("whole", whole, n)}
        \union {file("damaged", SubSeq(whole, 1, Len(whole) - cut), n) : cut \in {1, 2, D}}
        \union {file("damaged", whole \o <<0>>, n), file("damaged", whole \o SubSeq(whole, 4, Len(whole)), n)}
        \union {file("damaged", write(pres, NativeId(p)), n) : p \in {x \in PackJobs : NativeId(x) # NativeId(job)}}
        \union {file("damaged", whole, n + 1), file("damaged", write(Append(pres, npre), NativeId(job)), n)}

(* A process without state of its own serves what it reads. *)
Load ==
    /\ nstage = "ready" /\ origin.kind = "built" /\ keys = <<>> /\ scan = <<>> /\ products = <<>>
    /\ \E f \in Files :
        LET blocks == read(f.data, f.count)
        IN  /\ f.kind = "whole" \/ blocks # <<>>
            /\ pres' = blocks
            /\ npre' = IF blocks = <<>> THEN npre ELSE blocks[1]
            /\ nstage' = IF blocks = <<>> THEN "refused" ELSE nstage
            /\ origin' = [kind |-> f.kind, written |-> pres]
    /\ UNCHANGED <<job, nblock, layer, agg, halves, digits, fft, public_w, servevars>>

PreparedInit == PackInit /\ origin = [kind |-> "built", written |-> <<>>]
PreparedNext == Load \/ (PackNext /\ UNCHANGED origin)

(* A complete file of the setup is accepted, and no other is; whoever maps it *)
(* serves exactly the blocks that were traced and compiled, in their order:   *)
(* masks, matrix at either width, and the transforms of the leftover digits   *)
(* with the number of primes they were built for (prepared_native.rs:138,     *)
(* "The trusted setup fixes all large shapes").                               *)
MappedIsBuilt ==
    /\ origin.kind # "damaged"
    /\ origin.kind = "whole" => nstage = "ready" /\ pres = origin.written
=============================================================================
