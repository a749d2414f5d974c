# Verification of ipir-sp

TLA+ specifications, TLC configurations and TLAPS proofs for the parts of
`ipir-sp` whose correctness depends on the order in which things happen or on
arithmetic at the edge of a word: the native request/response protocol, the
retrieval of a database row end to end, both ring packings and the dot-product
kernels under their parallel schedules, codecs and samplers, reusable query
batches, the nullifier snapshot and query service, and the pool of leased Cargo
target directories. Paths below are relative to the repository root.

## The system

| Part | Source | State it keeps | Operations |
|---|---|---|---|
| Native profile builder | `ipir-native-client/src/lib.rs` | a `NativeProfile`: packing parameters, shape, transport widths, output mode | `new`, `with_kh_bits`, `with_two_mask_output`, `with_published_mask_bits`, `with_dithered_query_bits`, `with_response_bits`; `NativePublicSetup::new` hashes the result |
| Native client | `ipir-native-client/src/lib.rs` | parsed masks, prepared masks, requests with their secret and optional decoding state | `NativeRequest::generate`, `prepare_decode`, `decode`, `decode_prepared`; `NativePublished::from_bytes`, `prepare` |
| Native evaluator | `ipir-sp/src/native.rs` | one setup, its database and preprocessing | `NativeServer::build`, `published`, `respond` |
| Snapshot store | `nullifier-pir/src/snapshot.rs`, `main.rs` | `nullifiers.bin`, `nullifiers.part`, a JSON sidecar | `download_snapshot`, `NullifierSnapshot::open`, `sha256_file`, `coeff_iter` |
| Query service | `nullifier-pir/src/{main,backend,http,encoding}.rs` | a prepared backend, immutable while it runs | `GET /meta`, `GET /public-params`, `POST /query`; the `query` command |
| Target lease pool | `scripts/dev.py` | lock files, launcher, detached supervisor, Cargo's process group | `Lease.__enter__`, `execute`, `supervise`, `group_alive` |
| SimplePIR client/server | `ipir-sp/src/{params,server,client,pack_backend,serialize}.rs` | database matrix, hint, published `c1`, per-query secrets | parameters, ingest, offline precomputation, query generation, online computation, decoding |
| Codecs and samplers | `ipir-native-client/src/{bits,wire}.rs`, `ipir-sp/src/{modulus_switch,sampling}.rs` | none | bit packing, canonical decoding, rounding, dithering, rejection sampling |
| Reusable batches | `ipir-sp/src/reusable.rs` | a batch's secret and its next slot | `start_batch`, `next_query` |
| First-dimension kernels | `simplepir-kernel/src/` | none (CPU); uploaded database and scratch (CUDA) | `multiply_query`, `try_prepare` |
| InspiRING packing | `inspiring/src/` | preprocessing of a CRS block, key images | `build`, `bind_keys`, `pack`, `pack_b`, batched packing |
| ReinspiRING packing | `reinspiring/src/{compile,matrix,preprocess,pack}.rs` | compiled matrix of a block | compile, multiply, pack |
| Prepared files | `inspiring/src/prepared.rs`, `prepared/mapped.rs`, `reinspiring/src/prepared_native.rs` | a file of preprocessed blocks | write, read, map, pack from the map |
| Native packing | `reinspiring/src/{native,lift_ntt,native_matrix,native_kernel}.rs` | preprocessing of a block, prepared keys, stored matrices | preprocess, `prepare_keys`, `prepare_pack`, `finish`, decode; products modulo a power of two |

Clients and evaluators share no memory; they exchange byte strings that carry a
setup identifier. The nullifier server and the `download` command share a
directory. `dev.py` processes share lock files and signals.

What is hard to test here:

* masks, prepared masks, requests and responses of different snapshots coexist
  while replicas are rebuilt, and the application may combine any of them;
* builder methods check widths against an output mode that a later call changes;
* a download may die at any byte, leave a `.part` file behind, and be retried
  while a server is starting on the same path;
* a server may be restarted on another snapshot between the three requests that
  make up one query;
* delayed reductions are exact only while every accumulator stays below its
  width, for every shape, element bound and requested window;
* parallel tasks (bands of columns, CUDA threads, the two packing cascades, the
  partial sums of a batch) finish in any order;
* products modulo 2^k are rebuilt from two primes where a bound says three are
  not needed, keys prepared from one block serve another, words are split into
  signed digits, lanes and packed widths; each is wrong only for rare inputs;
* the same answer is promised by two packing backends and several code paths;
* rounded and dithered words travel in bytes whose padding must not vary, and
  random words must be rejected exactly where uniformity asks for it;
* a CUDA stream goes on running operations of a call that has already failed;
* a query matrix must not be used twice under one secret, whatever call fails;
* launcher, supervisor and Cargo may each die, fork, or be signalled at any
  point, and the lock must outlive exactly the right ones.

`PROJECT.json` lists every hazard at its line with the properties that cover it.

## Modules

**NativeProfile** models one caller's chain of builder calls: `held[b]` is `{}`
before `new` and after an error, otherwise the one profile the caller owns (the
methods consume `self`). One action per method; guards are the methods' range
checks; `floors` is the table of certified transport floors. Moduli are kept as
their base-2 logarithms. `SetupId` is the tuple of fields
`NativePublicSetup::new` feeds to SHA-256, which is taken to be injective.

* `CertifiedTransport`: in whatever order methods are called, all widths are in
  the accepted range of the output mode the profile ends up with.
* `WidthsFitModulus`: no width exceeds log2 q, so the shifts of `wire.rs` do not
  underflow.
* `SetupIdBindsProfile`: equal identifiers mean equal profiles, although the
  hash omits the K_h width in two-mask mode and the exact mask width.

**NativeSession** models clients and evaluators. Each object records the setup
it carries (its identifier) and, separately, the setup its data came from;
`Decrypt` yields the row only if masks, body and secret come from one setup and
the body answers this request, and `Garbage` otherwise. So the checks in
`from_bytes`, `prepare`, `respond`, `decode` and `decode_prepared` are all that
keeps `DecodedRowIsRequested` true. Responses form a set that only grows: any
of them may be delivered late, repeatedly or never. `Retrieval` is the abstract
specification (a query names a row of a snapshot and yields only that row);
`RetrievalSpec` states that the session implements it.

**SnapshotStore** models the directory with names, inodes and descriptors,
because the guarantees rest on `rename` and on which inode an open file keeps.
A process runs `download` or `serve`; each system call that can interleave is
an action, and `Die` covers every error return and crash. File contents record
which response each unit came from, so that a mixture is visible. `overlapped`
(two downloads wrote one `.part` inode) and `replaced` (a rename fell between
a server's stat and its load) are history variables used in the properties.

**NullifierQuery** models the `query` command step by step against a server
that is stopped and prepared again at will. A server is its snapshot and seed.
`POST /query` checks only the body length, that is `db_rows`; decoding is right
if query, `c1` and answer agree, and noise otherwise. Noise is assumed never to
equal a nullifier somebody asks for.

**TargetLease** models `dev.py`: the lock belongs to the open file description,
so it is held while `holders[j]` is not empty. Cargo's group forks, closes
descriptors and exits at any time; `ps` is a walk over the process table in
order of process identifiers. Its assumptions are those the repository states:
reliable `flock` and `ps`, no `setsid` in children. Identifier wrap-around is
not modelled.

**FirstDimKernel** models the CPU kernels row by row: tasks over bands of
columns, windows of delayed reduction, the AVX512 window rules and its scalar
tail, the power-of-two path. Word sizes are parameters (`Limb`), additions wrap.
`NoOverflow` says no accumulator ever wraps, `ProductExact` that the output is
the product modulo q, `Terminates` that a window of zero rows does not hang.

**CudaMatvec** models the two device kernels thread by thread, with shared
memory that holds stale values when a block starts and barriers that all
threads of a block must reach. `MatvecExact` covers moduli of more than half a
word.

**CudaKernel** models the host side: preparation, the mutex, one asynchronous
stream, failures of any driver call and of the device. A result is the pair of
the query and the database it was computed from. `ResultIsOwnProduct`: a call
that succeeds returns the product of its own query with the database of the
last successful preparation. `NoWriteAfterReturn`: while a copy into a caller's
slice is queued on a live stream, that caller is still waiting. `CallsReturn`:
every call ends, although the device may fail while one waits for it with the
mutex held. An empty product, and a context that cannot be bound, end a call
right after it takes the mutex.

**QueryBatch** models pools and batches: a body is its batch, matrix, row and
noise. `OneBodyPerMatrix` and `ExhaustedWhenAllTried` hold although rows are
refused, encryption may unwind after the slot was taken, and batches are
dropped. The history variable `abandoned` keeps the bodies a panic threw away:
their slots stay used, so no matrix gets a second noise under the same secret
even then.

**Negacyclic** has what both packings share: polynomials by coefficients,
automorphisms and the ring FFT of `compile.rs`. **RlweRing** and **Packing**
model InspiRING packing on a small ring with real
arithmetic: polynomials, their values at the roots of unity (NTT form),
automorphisms as slot permutations found by probing, balanced gadget digits,
key switching. NTT, ring operations and the coefficient automorphism belong to
`spiral-rs` and are external; the order of NTT slots is arbitrary there and
here. Preprocessing aggregates the public rows by the two-transform method of
`build_a_agg` and collapses both halves concurrently (`rayon::join`); packing a
batch sums the terms of the schedule in chunks whose partial sums are combined
as they finish, or step by step if the accumulator is too narrow. A chunk runs
on one thread, takes its accumulators from the few that thread keeps, and the
thread that drops one keeps it if there is room and it is not too large. The second
way to pack, with complete keys (`bind_keys` and `pack`), starts from
`transform` and `aggregate`, the direct definition, and is what the first is
compared with.

* `MaskPhaseKept`: at every point of the concurrent cascades the slots left and
  the digits recorded stand exactly for the inner products of the rows with the
  secret.
* `PackedDecodes`: each request of a batch decrypts to its own messages.
* `SumsAreOwn`: the sum of a chunk, or of chunks already joined, is the exact sum
  of this request's own terms, whatever buffers earlier chunks and requests left
  on the threads that ran it.

**Reinspiring** adds the second backend for odd moduli: the recorded digits are
compiled by a ring FFT, one layer of butterflies per action, and packing is a
product with the compiled matrix.

* `CompileExact`: the FFT yields the matrix of the naive compilation.
* `BackendsAgree`: fused, stepwise and compiled packing, packing from a mapped
  file and packing with complete keys agree bit for bit; what is read from a
  file of prepared blocks is what was written, and spoiled files are refused, as
  are scalars and keys that are not reduced.

**Prepared** models the file form of InspiRING preprocessing word by word
(header, residues of the blocks, images of the fixed masks, automorphism
tables), the reader's checks of length, header, canonical residues and
permutations, and packing from the mapped words. It lies between Packing and
Reinspiring.

**SimplePir** composes Packing, Reinspiring and ModulusSwitch into the retrieval
of a row: parameters from a profile and a shape, ingest by rows (tiles that need
not divide the database, scattered to columns) or by columns, the hint, its CRS
blocks (made from hint columns or cut out of the
full hint) preprocessed one after another, published `c1`, query generation with
keys from a seed, upload at reduced precision, the first-dimension product,
packing block by block with either backend, the switched response, and decoding
with a secret drawn again from the seed. Refusals and panics of the code lead to
a phase of their own. ChaCha20 is external: a seed stands for what is drawn from
it. In phase `direct` Packing runs by itself with blocks and batches of its own.

* `RowDecoded`: the decoded row is the row that was ingested, for both backends,
  both precisions, several queries of one snapshot; the phase error reported is
  below the threshold.

**LiftNtt** models products of polynomials modulo a power of two through two or
three auxiliary primes and the Chinese remainder theorem, on every path that
picks the number of primes. **NativePacking** uses it for the native packing:
integer aggregation with its narrow and wide stages, two halves collapsed side
by side, compilation, keys prepared before the scan has an answer, one and two
masks, and both ways to decode. The blocks of a database are built and then
served one after another (`StartBlock`, `FinishBlock`, `NextBlock`), all with the
keys the first one prepared: a first block of padding has leftover digits that
fit two primes where a later block needs three.

* `LiftExact`: every product that is returned is the negacyclic product.
* `AggregateExact`: the aggregated masks are those of the definition, divided
  as integers.
* `PendingSameAsPack`: the prepared path gives bit for bit what `pack` gives and
  refuses no honest request.
* `NativeDecodes`: both decoders return the messages.

**PreparedNative** writes the preprocessing of a native block to a file, with
the matrix at the narrow or the wide width and the transforms of the leftover
digits over two or three primes, and lets another process serve from what it
maps. Files may be whole, cut, extended, of another setup or of another number
of blocks. `MappedIsBuilt`: only whole files are accepted, and the block served
is the one that was built.

**NativeKernel** and **NativeMatrix** model the dot products and stored matrices
of the native evaluator with scaled widths: signed digits, lanes flushed after a
chunk of rows, vector bodies and scalar tails, packed, narrow and wide storage,
tiles in any order. `DotExact` and `MatrixExact` compare with the sum of
products modulo q.

**Rounding** holds the integer conversions of the modulus switches, and **Bits**,
**ModulusSwitch** and **Transport** model the codecs byte by byte. A message arrives whole, with one bit changed, cut or extended.
`HonestWithinRounding`: a whole message is accepted and each coefficient is the
one sent up to the rounding of its path. `OneEncoding`: a damaged message is
refused or decodes to other words. (`from_packed_bytes` compares the count of all
words it unpacks with the count expected, so with a modulus of fewer than eight
bits the padding would make it refuse an honest query; the deployed moduli are
far larger and the `full` channel keeps to nine bits and more.)

**Sampling** runs the rejection sampler and the dithered rounding over every
value of a random word. `ExactlyUniform`: every residue is accepted equally
often and at most half of the words are rejected. `DitherUnbiased`: the average
of the dithered coefficient is the coefficient.

**MC_Native** holds the native parts that have no state in common: the variable
`part` says which of them a behaviour runs, the others stay parked. **MC_Cuda**
(device kernels and host side) and **MC_Nullifier** (snapshot store and queries)
are built in the same way.

The modules of stateful components define a type invariant, the base of the
proofs where there are any; the runs list the deeper invariants only.

Definitions whose comment starts with "Mutation" are deliberate errors. Each is
substituted for the definition that follows it to confirm that a property
notices; they are not part of the specifications.

## Runs

| Run | Bounds | Shows |
|---|---|---|
| `native` | 2 builders, 5 packing sets, 9 widths, 4 dimensions; degree 8, q = 4096, primes 593, 641, 673; 6 packing jobs of 1 and 2 blocks; words of 6 and 14 bits, file half words of 6 bits | the three profile properties, `LiftExact`, `AggregateExact`, `PendingSameAsPack`, `NativeDecodes`, `MappedIsBuilt`, `DotExact`, `MatrixExact`, `HonestWithinRounding`, `OneEncoding`, `ExactlyUniform`, `DitherUnbiased` |
| `simple_pir` | degree 8, q = 4001, p = 4, 4 digits of 3 bits, 3 blocks, batches of 1 and 2, 4 accumulator widths; databases of 1 and 2 row blocks and output blocks, 2 seeds, rows 0 and 9, tiles of 5 and 6 | `MaskPhaseKept`, `PackedDecodes`, `CompileExact`, `BackendsAgree`, `RowDecoded` |
| `packing` | degree 4, q = 113, 7 digits of 1 bit, 2 blocks, 2 threads that keep up to 4 buffers, 2 accumulator widths, batches of 1 and 2, repeated requests | `SumsAreOwn` |
| `native_session` | 1 evaluator rebuilt at will, 2 profiles (one per output mode), 2 snapshots, 1 row, 2 queries | `DecodedRowIsRequested`, refinement of `Retrieval` |
| `native_session_replicas` | 2 evaluators rebuilt at will, 2 profiles, 2 snapshots, 1 row, 1 query | `ServedRequestsDecode` |
| `target_lease` | 2 jobs, 2 slots, 2 processes per group | `ExclusiveTarget`, `LeaseRecovers`, `SentSignalArrives` |
| `target_lease_signals` | 1 job | `SignalsForwarded` fails (finding) |
| `nullifier` | 2 processes, objects of 3 and 6 units, records of 2, rows of 4, 3 inodes; 1 client, 5 snapshots, 3 seeds, 4 probe rows | `PublishedWhole`, `ServedFromOneSnapshot`, `MetaDescribesServed`, `VerifiedIsHeld`, `QuietQueryIsRight` |
| `nullifier_query_absent` | the same | `AbsentIsAbsent` fails (finding) |
| `first_dim_kernel` | 3-bit limbs, 5 rows, 2 and 3 columns, 2 threads | `NoOverflow`, `ProductExact`, `Terminates` |
| `cuda` | 4-bit limbs, 4 threads, tiles of 8, 11 rows, 4 moduli; 2 workers with 2 calls each, 2 preparations, 3 databases of 2 shapes | `MatvecExact`, `ResultIsOwnProduct`, `NoWriteAfterReturn`, `CallsReturn` |
| `query_batch` | 2 batches, 4 matrices, 2 valid rows and 1 invalid | `OneBodyPerMatrix`, `ExhaustedWhenAllTried` |

Bounds. Profile checks compare widths with a floor, 54, 64 or log2 q, so the
nine widths lie on both sides of every threshold. Two snapshots, profiles and
queries are what a confusion of one with another needs; published masks and
responses are never forgotten, so for the safety properties one evaluator
rebuilt at will produces every set of them that several would, and the proofs
cover any number. Progress is checked with two, of which one may be rebuilt for
ever while the other serves. Two processes
let a child outlive Cargo and be forked during the walk; the proof covers any
number. The long object has one full and
one partial row, the short one ends inside a record. Three inodes suffice for
two processes: the snapshot, the `.part` file, and an old snapshot still open.
The `nullifier` run stops expanding states after an overlap, where nothing is
claimed, and its view hides the contents of inodes nothing refers to. Query
snapshots have full and partial last rows, one and two blocks, and one is too
small to serve. Limbs of three and four bits make windows of 1, 3 and 4 rows
and moduli near a whole word reachable, with windows, bands and tiles that do
not divide the shape. Two workers and two preparations let one call fail with
operations queued while another takes the mutex on a replaced database. Degree
8 gives three switches per half and four chunks on one thread; the widths are
the exact bound of the fused path, one less, the bound without the gadget
factor, and one that forces a reduction after each product. Four digits of three
bits leave so little room above q that carries run into the top digit and make it
the base itself. `packing` has two threads and a cap of four buffers that its
chunks reach. The databases of
`simple_pir` need two blocks in each direction, so that the order of hints, keys
and `c1` matters, with a precision below and equal to the modulus; the refused
shapes end at once. The narrow words of native aggregation end below q*D/2, so
that the last stage must be wide; the masks include those with the largest
aggregate, and the operands of `LiftNtt` lie on both sides of the two-prime
bound. Kernel rows end before, at and after a chunk and a vector; the matrix
entries lie on both sides of each stored width. With half words of 6 bits the
jobs give files with narrow and with wide matrices in both mask modes. Codec
widths leave none, one or several surplus words in the last byte. Rows, masks,
secrets and errors of both packings are fixed samples, so the runs show the identities for them and for
every schedule, not for every ring element.

Deadlock is not checked for `TargetLease`, the host part of `CudaKernel`, `QueryBatch` and the
native parts: jobs end, bounded calls are used up, batches are exhausted and
dropped, and a computation stops when it has its result.

Fairness. `target_lease` assumes weak fairness of started Python processes
(the launcher's and the supervisor's own steps) and none of Cargo's group.
`native_session_replicas` assumes an application that keeps resending and keeps
offering what arrived to `decode`, and an evaluator that answers; nothing is
assumed of rebuilds, `prepare` or `generate`. `first_dim_kernel` assumes that
the thread pool runs a task that can run. `cuda` assumes that the stream
runs its operations or fails, that an unlocked mutex is taken, and that host
threads go on; nothing is assumed of preparations or new calls.

## Findings

* `SignalsForwarded`: `execute()` starts the detached supervisor
  (`scripts/dev.py:112`) before it installs its handlers (line 123). A signal in
  between ends the launcher; Cargo runs on and is never told, although
  `README.md:288` says signals are forwarded to its group.
* `AbsentIsAbsent`: the `query` command decodes with `c1` rows fetched by a
  separate request. If the server is restarted in between, the decoded row is
  noise, and `--expect-absent` reports success for a nullifier the server holds.

## Proofs

All theorems hold for every value of the constants allowed by the named
assumptions in the component modules.

* `Native_proofs`, profiles: `ProfilesCertified`, `ProfilesFitModulus` and
  `SetupIdsBindProfiles`. `ProfileOK /\ CertifiedTransport` is inductive: the
  interesting step is `with_two_mask_output`, where a width accepted under the
  one-mask floors must be accepted under the two-mask floors. The other two
  follow from it.
* `Native_proofs`, sessions: `DecodesRequestedRow` and `ImplementsRetrieval`. The
  invariant adds that masks come from the setup they are labelled with, that
  a response's body comes from the setup it is labelled with, and that
  precomputed decoding state comes from the request's setup.
* `Native_proofs`, sampling: `SamplersAreUniform` and `DitheringIsUnbiased`, for
  every width of a word, every nonzero bound and every power-of-two modulus of
  which at most a word is rounded away. `Drawing` gives the tally of the sampler
  in closed form: the words accepted for residue r are a run of `Kept(bound)`
  words that starts at `First(bound, r)`. `Dithering` does the same for the sum
  of what was rounded (`Lifted`).
* `Native_proofs`, kernels: `KernelsAreExact`, for every width of bytes, lanes and
  words, every chunk whose products fit a lane (`KernelConstants`), every layout,
  vector unit, query and database. `KernelInv` says that between two chunks
  every column is congruent modulo q to the sum of the rows taken, and equal to the
  whole sum modulo q once masked; for that the prepared query must decompose the
  words (`Decomposed`: the digits kept, with the weights of the ones skipped, rebuild
  each word modulo q, and the weight above the last is a multiple of q, which is
  why the tiled kernel may leave that plane out) and every layout must read back
  as the database (`BytesOK`, from `LayoutReads`). `LaneExact` is where the chunk
  length matters: no lane wraps between two flushes. `ChunkExact` exchanges the sum
  over digits with the sum over rows; `VectorDot` is the scalar and vector code.
* `Native_proofs`, matrices: `MatricesAreExact`, for every width, list of compiled
  blocks, modulus, query and host (`MatrixConstants`: a read covers a word at any
  shift, groups of columns fill whole bytes, and a row of limb products fits a
  word). `MatrixInv` says the store is `from_blocks` of the task and a row written
  is the expected one, so the work is in what the store holds. `FlattenPlaces` gives
  each piece of a concatenation its place; `PackedIn` sees packed storage as one
  stream of bits with zeros behind, of which each byte is eight bits, so an
  unaligned read, wherever it starts, is a slice of it (`ValueSlice`), and sign
  extension gives the centred entry back (`PackedRead`, `WordsRead`). A lane of
  `packed_rows_512` starts at the byte `read_packed` starts at (`LaneOffset`). For an
  odd modulus `LimbExact` shows that no signed sum of limb products wraps, and
  `LimbsJoin` exchanges the sums over limbs and columns.
* `Arithmetic` proves what several of these proofs need of the integers:
  division, remainders, and powers of two, whose laws the provers do not know
  and which come from counting the subsets of a finite set (`PowerDoubles`). It
  also has the laws of the sums of module `Summation`, which the models share:
  they exist and unfold, split, shift, scale, exchange, and respect bounds and
  congruence. `SetInduction`, from the well-foundedness of the naturals, is
  the induction all of these use.
* `FirstDimKernel_proofs`: `AccumulatorsNeverOverflow`, for every limb size,
  vector width, window request, shape, element bound, query and database.
  `NoOverflow` looks one addition ahead and is not inductive; `WindowFits` says
  the window's rows times the largest term fit a word, and `SumsBounded` that
  each accumulator is at most that term times the rows of the window read.
  `KernelsComputeTheProduct` adds what the output holds in the middle of a call:
  `Exact` says that a column the band has passed holds the product of the rows
  up to the window's end, the others up to its start, and that the accumulators
  of the column in hand hold the difference; `Plan` says how windows follow each
  other. Bands write disjoint columns (`BandsDisjoint`), so a step of one leaves
  the others' sums alone. The prefix sums are recursive functions, unfolded by
  `SumsDef`.
* `Packing_proofs`: `SumsStayOwn` and `FusedIsStepwise`, for every ring, gadget,
  batch, number of threads, pool and chunk size (`RingConstants`, `PackingConstants`; that
  the automorphism tables exist is `TablesFound`). `FusedOK` carries the argument:
  the tasks are neighbouring stretches of the schedule, and the accumulators of a
  task hold exactly the terms of the key switches it has done, which stay below
  the bound of `fused_accumulator_fits`, so the lazy additions never wrap and two
  reduced neighbours are one stretch. That is `SumsAreOwn`, whatever the pools
  hold: a buffer is cleared when it is taken (`ScratchZero`). The types of these sums come from the
  collapse (`SlotsOK`, `DigitsOK`) and from the upload (`InputsOK`, `KeysOK`).
* `QueryBatch_proofs`: `MatricesUsedOnce`. `SlotsBehind` says the slots of all
  issued and abandoned bodies lie behind the counter, and strictly behind the slot that a
  call in progress has reserved. `ExhaustionIsComplete` needs `Tried`: the
  counter of a batch is the number of its calls with a valid row, finished or in
  progress.
* `Cuda_proofs`, host: `NoLateWrites` and `ResultsAreOwnProducts`, for any number
  of threads and databases and any operation failing. An evaluation that failed
  leaves operations on the stream, so what the scratch buffers hold when the
  mutex is taken is unknown. `OwnWork` says that the operations of the thread
  that holds the mutex are the last of the stream in the order of the code, and
  what those that have run left in the buffers; `PrepareAlone` that nothing
  evaluates while a database is replaced.
* `Cuda_proofs`, device: `MatvecIsExact`, for every block size that is a power of
  two and at least 2, every tile size for which the bound in `tile_products`
  holds (`DeviceConstants`), every shape, modulus, query and database. `MatvecExact`
  speaks of the end of a block only; `Reduction` says what is in registers and
  shared memory before it: a thread that sums rows holds the terms of the rows
  congruent to its number up to the row it has reached, and in the round of
  stride s an entry holds the rows congruent to it modulo 2s, or modulo s once
  its thread has added the upper half. That every part of a tile's sum fits a word
  (`PartFits`) makes the wrapping additions exact; `Stored` says what finished
  blocks and columns hold. Sums over rows are recursive functions: `SumStep`
  unfolds them, and closed forms show that the loops `Doubled` and `TilesOf`
  compute a shift and a sum modulo q.
* `Nullifier_proofs`, queries: `VerifiedNullifiersAreHeld` and `QuietQueriesAreRight`,
  for every snapshot, row and block size. `Asked` relates the row and offset a
  client computed to its own snapshot; `Settled` says what a client that has met
  one server only has seen of it. The rest is arithmetic of rows and blocks: the
  place of a record lies inside the padded database, and padding reads as zero.
* `Nullifier_proofs`, snapshots: `SnapshotsPublishedWhole`, `ServersReadOneSnapshot` and
  `MetaMatchesRows`, for any processes, responses and crashes. Until two
  downloads overlap the `.part` name belongs to one writer or to nobody
  (`PartIsPrivate`), a writer's file is what it has received (`Received`), and
  an inode a server has open keeps the contents it had when it was opened.
* `TargetLease_proofs`: `TargetsAreExclusive`. `ExclusiveTarget` is not
  inductive. `JobInv` adds who holds the descriptor in each phase and, for the
  `ps` walk, that every process the walk has passed is dead and that processes
  not yet forked have higher numbers; `LockExclusive` says held leases are on
  different slots. `StepKeepsIInv` reduces each action to its own job.

Only model-checked are:

* liveness (`ServedRequestsDecode`, `LeaseRecovers`, `SentSignalArrives`,
  `Terminates`, `CallsReturn`), which the prover does not handle;
* `LiftExact`, `AggregateExact`, `CompileExact`, `MaskPhaseKept`, `PackedDecodes`,
  `NativeDecodes`, `RowDecoded`, `PendingSameAsPack` and the part of `BackendsAgree`
  that is not `FusedIsStepwise`: they rest on the theory of the ring (transforms
  invert, automorphisms compose, residues lift), which would have to be built first;
* `HonestWithinRounding` and `OneEncoding`: the bit streams of `Bits` are recursive
  operators with bitwise operations, neither of which the prover accepts;
* `MappedIsBuilt`: streams of words concatenated over all parts of a prepared file
  and taken apart again by position.

## Not modelled

* Gaussian sampling, noise estimates, the screening of native setups by noise
  and the rounding-residual report: statements about probability and floating
  point.
* Of prepared files, the alignment of the mapping and the caller's prefix before
  the words; their digest is checked by the caller.
* Erasure of secrets on drop and timing.
* Power-of-two row padding and experimental parameters of SimplePIR.
* The JSON sidecar of a snapshot, written and never read, and two downloads that
  write one `.part` inode, after which the store promises nothing.
* The `ypir-artifact` feature (an external reference implementation), benchmarks,
  examples and Python oracles.

## Plan

What would be worth proving next is `CompileExact` and `AggregateExact`, by an
invariant that says what every entry of a ring FFT holds after a layer. After
them `MappedIsBuilt`, with the lemmas on concatenation that `MatricesAreExact` uses.
