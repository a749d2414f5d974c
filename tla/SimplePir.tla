----------------------------- MODULE SimplePir ------------------------------
(***************************************************************************)
(* ipir-sp/src/{params,server,client,pack_backend,serialize}.rs: private   *)
(* retrieval of one database row, from the choice of parameters to the     *)
(* decoded row.                                                            *)
(*                                                                         *)
(* The server stores the database by columns, multiplies every column with *)
(* the public query polynomials (the hint, which is the CRS of packing),   *)
(* preprocesses it block by block and publishes c1.  A client encrypts the *)
(* selection of a row, uploads it at reduced precision with its packing    *)
(* keys, and decodes the packed, switched answer with a secret it draws    *)
(* again from its seed.                                                    *)
(*                                                                         *)
(* ChaCha20 is external: a setup seed stands for the polynomials drawn     *)
(* from it, Draw(seed, n) is the n-th Gaussian sample of a client's stream.*)
(* In phase "direct" Packing runs by itself, on blocks and batches of its  *)
(* own.                                                                    *)
(***************************************************************************)
EXTENDS Reinspiring, ModulusSwitch

CONSTANTS
    Profiles,         \* plaintext_bits and minimum_query_bits of each profile
    Shapes,           \* num_items, item_size_bits, profile
    Q_PRIME_1,        \* the modulus of responses
    Databases, Item(_, _, _), \* contents, by name: the item at a row and column
    Setups,           \* sequences of query polynomials, one per setup seed
    Seeds, Draw(_, _), \* client seeds and their samples
    Targets,          \* rows asked for
    Backends,         \* "inspiring", "reinspiring"
    INGEST_ROW_TILE, INGEST_COL_TILE, HINT_TILE

ASSUME PirConstants ==
    /\ INGEST_ROW_TILE > 0 /\ INGEST_COL_TILE > 0 /\ HINT_TILE > 0
    /\ \A f \in DOMAIN Profiles : 2^(Profiles[f].plaintext_bits) = P

VARIABLES
    phase,
    ypir,      \* YpirSchemeParams
    server,    \* the stored database
    hint,      \* hint columns
    pres,      \* per output block: its preprocessing and compiled matrix (and its rows)
    setup,     \* the query polynomials
    backend,
    client,    \* the client's query, before and after it is uploaded
    request,   \* what the server has read, and the intermediate values
    packed,    \* the blocks packed so far
    answer     \* published c1, the response, the decoded row

pirvars == <<phase, ypir, server, hint, pres, setup, backend, client, request, packed, answer>>
allvars == <<vars, revars, pirvars>>

-----------------------------------------------------------------------------
(* Parameters *)

(* The smallest k with 2^k at least 64 * p^2 * sqrt(db_rows), clamped. *)
query_modulus_bits(db_rows) ==
    LET enough == {k \in 1..14 : 4^k >= 4096 * P^4 * db_rows}
    IN  IF enough = {} THEN modulus_bits(Q) ELSE Smaller(Min(enough), modulus_bits(Q))

RowsFor(num_items) == ((num_items + D - 1) \div D) * D
InstancesFor(item_size_bits, profile) == CeilDiv(item_size_bits, D * Profiles[profile].plaintext_bits)
query_bits_for(num_items, profile) ==
    Max({query_modulus_bits(RowsFor(num_items)), Profiles[profile].minimum_query_bits})

Supported(shape) ==
    /\ shape.item_size_bits >= D * Profiles[shape.profile].plaintext_bits
    /\ shape.num_items >= D

build_simplepir_params(shape) ==
    [num_items |-> shape.num_items, item_size_bits |-> shape.item_size_bits,
     instances |-> InstancesFor(shape.item_size_bits, shape.profile),
     db_rows |-> RowsFor(shape.num_items),
     db_cols |-> InstancesFor(shape.item_size_bits, shape.profile) * D,
     q_prime_1 |-> Q_PRIME_1,
     query_bits |-> query_bits_for(shape.num_items, shape.profile)]

(* validate_profile_parts derives the shape again from what it describes. *)
validate_profile_parts(params, profile) ==
    /\ params = build_simplepir_params([num_items |-> params.num_items, profile |-> profile,
                                        item_size_bits |-> params.item_size_bits])
    /\ Supported([num_items |-> params.num_items, item_size_bits |-> params.item_size_bits,
                  profile |-> profile])
    /\ params.db_rows % D = 0 /\ params.db_cols % D = 0

Rows == 0..(ypir.db_rows - 1)
Cols == 0..(ypir.db_cols - 1)
OutputBlocks == ypir.db_cols \div D
RowBlocks == ypir.db_rows \div D
Cell(row, col) == col * ypir.db_rows + row

(* An operation that returns an error, or panics, ends the behaviour. *)
Refuse(why) ==
    /\ phase' = why
    /\ UNCHANGED <<ypir, server, hint, pres, setup, backend, client, request, packed, answer>>

ProductionParams(shape) ==
    /\ phase = "configure"
    /\ IF Supported(shape) /\ validate_profile_parts(build_simplepir_params(shape), shape.profile)
       THEN /\ phase' = "load" /\ ypir' = build_simplepir_params(shape)
            /\ UNCHANGED <<server, hint, pres, setup, backend, client, request, packed, answer>>
       ELSE Refuse("refused")
    /\ UNCHANGED <<vars, revars>>

-----------------------------------------------------------------------------
(* The server's database *)

StartLoad(name, items) ==
    /\ phase = "load" /\ server = <<>>
    /\ server' = [name |-> name, items |-> items, row_base |-> 0, element_max |-> 0,
                  stored |-> [i \in 0..(ypir.db_rows * ypir.db_cols - 1) |-> 0]]
    /\ UNCHANGED <<vars, revars, phase, ypir, hint, pres, setup, backend, client, request, packed, answer>>

Largest(values) == Max(values \union {server.element_max})

(* input_is_transposed: the items come by columns. *)
LoadColumns ==
    /\ phase = "load" /\ server # <<>> /\ server.row_base = 0
    /\ IF server.items < ypir.db_rows * ypir.db_cols THEN Refuse("panicked")
       ELSE /\ server' = [server EXCEPT
                  !.stored = [i \in DOMAIN @ |-> Item(server.name, i % ypir.db_rows, i \div ypir.db_rows)],
                  !.row_base = ypir.db_rows,
                  !.element_max = Largest({Item(server.name, r, c) : r \in Rows, c \in Cols})]
            /\ UNCHANGED <<phase, ypir, hint, pres, setup, backend, client, request, packed, answer>>
    /\ UNCHANGED <<vars, revars>>

(* ingest_row_major: a tile of rows is staged in the order the items come and *)
(* scattered to the columns, a tile of columns at a time.                     *)
TileRows == Smaller(INGEST_ROW_TILE, ypir.db_rows - server.row_base)
staging(i) == Item(server.name, server.row_base + (i \div ypir.db_cols), i % ypir.db_cols)

(* Mutation: a tile is staged with its full height. *)
staging_index_full(offset, col) == col * INGEST_ROW_TILE + offset
staging_index(offset, col) == offset * ypir.db_cols + col

ScatterTile(stored) ==
    [i \in DOMAIN stored |->
        LET row == i % ypir.db_rows
            col == i \div ypir.db_rows
            offset == row - server.row_base
            col_base == (col \div INGEST_COL_TILE) * INGEST_COL_TILE
        IN  IF /\ offset \in 0..(TileRows - 1)
               /\ col \in col_base..(Smaller(col_base + INGEST_COL_TILE, ypir.db_cols) - 1)
            THEN staging(staging_index(offset, col)) ELSE stored[i]]

IngestTile ==
    /\ phase = "load" /\ server # <<>> /\ server.row_base < ypir.db_rows
    /\ IF server.items < (server.row_base + TileRows) * ypir.db_cols THEN Refuse("panicked")
       ELSE /\ server' = [server EXCEPT
                  !.stored = ScatterTile(@), !.row_base = @ + TileRows,
                  !.element_max = Largest({staging(i) : i \in 0..(TileRows * ypir.db_cols - 1)})]
            /\ UNCHANGED <<phase, ypir, hint, pres, setup, backend, client, request, packed, answer>>
    /\ UNCHANGED <<vars, revars>>

Loaded == server # <<>> /\ server.row_base = ypir.db_rows
get_elem_row_col(row, col) == server.stored[Cell(row, col)]

-----------------------------------------------------------------------------
(* The hint *)

invert(poly) == [i \in Index |-> IF i = 0 THEN poly[0] ELSE neg(poly[D - i])]

verify_query_masks_distinct_from_key_masks(polys) ==
    /\ \A g, k \in Columns : MaskW[g] # MaskV[k]
    /\ \A n \in DOMAIN polys : \A k \in Columns :
         {polys[n], negate(polys[n]), invert(polys[n]), negate(invert(polys[n]))}
             \intersect {MaskW[k], MaskV[k]} = {}

(* The accumulator stays in NTT form over the row blocks. *)
generate_hint_column(polys, col) ==
    from_ntt([i \in Index |->
        SumMod(LAMBDA b : (ntt(polys[b])[i]
                   * ntt([k \in Index |-> server.stored[Cell((b - 1) * D + k, col)]])[i]) % Q,
               1, RowBlocks + 1)])

generate_hint_columns(polys) == [col \in Cols |-> generate_hint_column(polys, col)]

(* Elements enter the transform without being reduced. *)
validate_query_polys(polys) == server.element_max < Q /\ Len(polys) = RowBlocks

Offline(polys, how) ==
    /\ phase = "load" /\ Loaded
    /\ IF ~verify_query_masks_distinct_from_key_masks(polys) \/ ~validate_query_polys(polys)
       THEN Refuse("panicked")
       ELSE /\ hint' = generate_hint_columns(polys)
            /\ setup' = polys /\ backend' = how /\ phase' = "preprocess"
            /\ UNCHANGED <<ypir, server, pres, client, request, packed, answer>>
    /\ UNCHANGED <<vars, revars>>

(* The hint in YPIR's layout, transposed by tiles, and cut into blocks again. *)
generate_hint_from_query_polys == [i \in 0..(D * ypir.db_cols - 1) |->
    LET coeff == i \div ypir.db_cols
        col == i % ypir.db_cols
        col_base == (col \div HINT_TILE) * HINT_TILE
        offset == col - col_base
    IN  hint[col_base + offset][coeff]]
extract_crs_block(hint_0, block) == [row \in Index |-> [coeff \in Index |->
    hint_0[coeff * ypir.db_cols + block * D + row] % Q]]

CrsBlock(block) == [row \in Index |-> hint[block * D + row]]

(* build_pack_preprocessed_blocks, one block after the other: each is built   *)
(* by Packing, and compiled if the backend wants it.  The rows are the hint's *)
(* columns, or come out of hint_0 (offline_precompute_from_hint).             *)
BuildBlock ==
    /\ phase = "preprocess" /\ stage = "idle" /\ Len(pres) < OutputBlocks
    /\ \/ crs' = CrsBlock(Len(pres))
       \/ crs' = extract_crs_block(generate_hint_from_query_polys, Len(pres))
    /\ stage' = "public"
    /\ UNCHANGED <<batch, width, slots, digits, pre, keys, tasks, pool, out, cascade, revars, pirvars>>

BlockBuilt ==
    /\ phase = "preprocess" /\ stage = "bind" /\ fft = <<>>
    /\ backend = "reinspiring" => compiled # <<>>
    /\ pres' = Append(pres, [crs |-> crs, pre |-> pre, compiled |-> compiled])
    /\ stage' = "idle" /\ pre' = <<>> /\ compiled' = <<>>
    /\ UNCHANGED <<crs, batch, width, slots, digits, keys, tasks, pool, out, cascade, fft, partial,
                   phase, ypir, server, hint, setup, backend, client, request, packed, answer>>

AsSeq(p) == [i \in 1..D |-> p[i - 1]]
AsPoly(seq) == [i \in Index |-> seq[i + 1]]

(* published_c1_rows: at full precision, once per snapshot. *)
Publish ==
    /\ phase = "preprocess" /\ stage = "idle" /\ Len(pres) = OutputBlocks
    /\ answer' = [c1 |-> [b \in 1..OutputBlocks |->
                     u64s_to_contiguous_bytes(AsSeq(from_ntt(pres[b].pre.a_final)), modulus_bits(Q))]]
    /\ phase' = "online" /\ hint' = <<>>
    /\ UNCHANGED <<vars, revars, ypir, server, pres, setup, backend, client, request, packed>>

recover_published_c1(b) == AsPoly(truncate(contiguous_bytes_to_u64s(answer.c1[b], modulus_bits(Q)), D))

-----------------------------------------------------------------------------
(* The client's query.  Its stream is drawn in order: the secret, the errors  *)
(* of K_g and K_h, the errors of the selection.                               *)

sample_gaussian(seed, from) == [i \in Index |-> Draw(seed, from + i) % Q]
KeyErrors(seed, from) == [k \in Columns |-> sample_gaussian(seed, from + k * D)]
secret_from_seed(seed) == sample_gaussian(seed, 0)

(* <a * X^j, s> for every j: the coefficients of a(X^-1) * s. *)
query_inner_products(poly, s) == schoolbook_negacyclic(invert(poly), s)

encrypted_selection_query(polys, s, target, seed, from) == [n \in 1..ypir.db_rows |->
    LET row == n - 1
        error == Draw(seed, from + row) % Q
        noised == ((IF row = target THEN delta ELSE 0) + error) % Q
    IN  (noised - query_inner_products(polys[(row \div D) + 1], s)[row % D]) % Q]

generate_fresh_query(seed, target) ==
    LET s == sample_gaussian(seed, 0)
        bodies == generate_full(s, KeyErrors(seed, D), KeyErrors(seed, (1 + ell) * D))
    IN  [seed |-> seed, target |-> target, s |-> s, kg |-> bodies.kg, kh |-> bodies.kh,
         first_dim |-> encrypted_selection_query(setup, s, target, seed, (1 + 2 * ell) * D)]

GenerateQuery(seed, target) ==
    /\ phase = "online" /\ client = <<>> /\ target < ypir.db_rows
    /\ client' = generate_fresh_query(seed, target)
    /\ UNCHANGED <<vars, revars, phase, ypir, server, hint, pres, setup, backend, request, packed, answer>>

(* Key bodies travel in NTT form, K_g first. *)
KeyWords(kg, kh) == [n \in 1..(2 * ell * D) |->
    LET body == IF n <= ell * D THEN kg ELSE kh
        m == (n - 1) % (ell * D)
    IN  body[m \div D][m % D]]
serialize_packing_keys(kg, kh) == u64s_to_contiguous_bytes(KeyWords(kg, kh), modulus_bits(Q))
key_body_from_coeffs(words, first) == [k \in Columns |-> [i \in Index |-> words[first + k * D + i]]]

Upload ==
    /\ phase = "online" /\ client # <<>>
    /\ request' = [keys |-> serialize_packing_keys(client.kg, client.kh),
                   query |-> to_switched_bytes(client.first_dim, Q, ypir.query_bits)]
    /\ phase' = "receive"
    /\ UNCHANGED <<vars, revars, ypir, server, hint, pres, setup, backend, client, packed, answer>>

-----------------------------------------------------------------------------
(* The server's answer *)

(* The lengths are right for what the client sent; a key coefficient at or    *)
(* above Q would be refused.                                                  *)
Receive ==
    /\ phase = "receive"
    /\ LET words == contiguous_bytes_to_u64s(request.keys, modulus_bits(Q))
           first_dim == from_switched_bytes(request.query, ypir.db_rows, Q, ypir.query_bits)
       IN  IF first_dim = Refused \/ \E n \in 1..(2 * ell * D) : words[n] >= Q
           THEN Refuse("refused")
           ELSE /\ request' = [kg |-> key_body_from_coeffs(words, 1),
                               kh |-> key_body_from_coeffs(words, ell * D + 1), first_dim |-> first_dim]
                /\ phase' = "multiply"
                /\ UNCHANGED <<ypir, server, hint, pres, setup, backend, client, packed, answer>>
    /\ UNCHANGED <<vars, revars>>

MultiplyQuery ==
    /\ phase = "multiply"
    /\ request' = [kg |-> request.kg, kh |-> request.kh,
                   intermediate |-> [col \in Cols |->
                       SumMod(LAMBDA row : (request.first_dim[row + 1] * get_elem_row_col(row, col)) % Q, 0, ypir.db_rows)]]
    /\ phase' = "pack"
    /\ UNCHANGED <<vars, revars, ypir, server, hint, pres, setup, backend, client, packed, answer>>

(* pack_intermediate_blocks_with_backend: the k-th block of intermediate      *)
(* values with the k-th preprocessing.                                        *)
PackBlock ==
    /\ phase = "pack" /\ stage = "idle" /\ Len(packed) < OutputBlocks
    /\ LET k == Len(packed)
       IN  /\ batch' = <<[s |-> client.s, kg |-> request.kg, kh |-> request.kh,
                          b |-> [i \in Index |-> request.intermediate[k * D + i]],
                          m |-> [i \in Index |-> get_elem_row_col(client.target, k * D + i)]]>>
           /\ crs' = pres[k + 1].crs /\ pre' = pres[k + 1].pre /\ compiled' = pres[k + 1].compiled
    /\ stage' = "bind"
    /\ UNCHANGED <<width, slots, digits, keys, tasks, pool, out, cascade, fft, partial, pirvars>>

BlockPacked ==
    /\ phase = "pack" /\ stage = "done"
    /\ packed' = Append(packed, out[1])
    /\ stage' = "idle" /\ batch' = <<>> /\ pre' = <<>> /\ keys' = <<>> /\ out' = <<>> /\ compiled' = <<>>
    /\ UNCHANGED <<crs, width, slots, digits, tasks, pool, cascade, fft, partial,
                   phase, ypir, server, hint, pres, setup, backend, client, request, answer>>

Respond ==
    /\ phase = "pack" /\ stage = "idle" /\ Len(packed) = OutputBlocks
    /\ answer' = [c1 |-> answer.c1,
                  response |-> [b \in 1..OutputBlocks |->
                      serialize_rlwe_response_body(AsSeq(from_ntt(packed[b])), Q, ypir.q_prime_1)]]
    /\ packed' = <<>> /\ request' = <<>> /\ phase' = "decode"
    /\ UNCHANGED <<vars, revars, ypir, server, hint, pres, setup, backend, client>>

-----------------------------------------------------------------------------
(* Decoding, with the phase error against the row that was asked for. *)

phase_of(c1, c2, s) == add(c2, schoolbook_negacyclic(c1, s))
decode_coeff(x) == ((x + (delta \div 2)) \div delta) % P
Expected(n) == get_elem_row_col(client.target, n - 1)
CircularDistance(x, y) == LET d == IF x >= y THEN x - y ELSE y - x IN Smaller(d, Q - d)

PhaseOf(b, s) == phase_of(recover_published_c1(b),
                          AsPoly(recover_response_body(answer.response[b], D, ypir.q_prime_1, Q)), s)

Decode ==
    /\ phase = "decode"
    /\ LET s == secret_from_seed(client.seed)
           ph(n) == PhaseOf(((n - 1) \div D) + 1, s)[(n - 1) % D]
       IN  answer' = [c1 |-> answer.c1,
                      decoded |-> [n \in 1..ypir.db_cols |-> decode_coeff(ph(n))],
                      max_distance |-> Max({CircularDistance(ph(n), Expected(n) * delta) : n \in 1..ypir.db_cols})]
    /\ phase' = "decoded"
    /\ UNCHANGED <<vars, revars, ypir, server, hint, pres, setup, backend, client, request, packed>>

NextQuery ==
    /\ phase = "decoded"
    /\ answer' = [c1 |-> answer.c1] /\ client' = <<>> /\ phase' = "online"
    /\ UNCHANGED <<vars, revars, ypir, server, hint, pres, setup, backend, request, packed>>

Stopped == phase \in {"refused", "panicked"} /\ UNCHANGED allvars

-----------------------------------------------------------------------------
NoPirState ==
    /\ ypir = <<>> /\ server = <<>> /\ hint = <<>> /\ pres = <<>> /\ setup = <<>>
    /\ backend = "inspiring" /\ client = <<>> /\ request = <<>> /\ packed = <<>> /\ answer = <<>>
    /\ fft = <<>> /\ compiled = <<>> /\ partial = <<>>

PirInit ==
    /\ NoPirState
    /\ \/ phase = "direct" /\ Init
       \/ /\ phase = "configure"
          /\ crs = [k \in Index |-> zero] /\ batch = <<>> /\ width \in Widths
          /\ stage = "idle"
          /\ slots = [side \in Sides |-> <<>>] /\ digits = [side \in Sides |-> <<>>]
          /\ pre = <<>> /\ keys = <<>> /\ tasks = <<>> /\ pool = [t \in 1..Threads |-> <<>>]
          /\ out = <<>> /\ cascade = <<>>

Preprocessing ==
    /\ phase = "preprocess"
    /\ \/ /\ PublicBuild \/ (\E side \in Sides : collapse_half(side)) \/ JoinHalves
          /\ UNCHANGED revars
       \/ backend = "reinspiring" /\ (StartCompile \/ RingFft \/ FinishCompile)
    /\ UNCHANGED pirvars

PackingBlock ==
    /\ phase = "pack"
    /\ \/ /\ backend = "inspiring"
          /\ \/ StartPack \/ FinishStepwise
             \/ \E t \in 1..Threads :
                  FinishFused(t) \/ \E c \in DOMAIN tasks : Accumulate(c, t) \/ Reduce(c, t)
          /\ UNCHANGED revars
       \/ backend = "reinspiring" /\ (MultiplyMatrix \/ reinspiring_pack)
    /\ UNCHANGED pirvars

PirNext ==
    \/ phase = "direct" /\ Next /\ UNCHANGED <<revars, pirvars>>
    \/ \E shape \in Shapes : ProductionParams(shape)
    \/ \E name \in Databases : \E short \in {0, 1} :
         phase = "load" /\ StartLoad(name, ypir.db_rows * ypir.db_cols - short)
    \/ LoadColumns \/ IngestTile
    \/ \E polys \in Setups : \E how \in Backends :
         phase = "load" /\ Loaded /\ Offline(SubSeq(polys, 1, RowBlocks), how)
    \/ BuildBlock \/ Preprocessing \/ BlockBuilt \/ Publish
    \/ \E seed \in Seeds : \E target \in Targets : GenerateQuery(seed, target)
    \/ Upload \/ Receive \/ MultiplyQuery
    \/ PackBlock \/ PackingBlock \/ BlockPacked \/ Respond
    \/ Decode \/ NextQuery \/ Stopped

PirSpec == PirInit /\ [][PirNext]_allvars

-----------------------------------------------------------------------------
(* A client decodes the row it asked for, as it was given to the server: by   *)
(* rows through tiles that do not divide the database, or by columns; through *)
(* the selection encrypted under a fresh secret, the query's reduced          *)
(* precision, either packing backend and the switched response; in every      *)
(* query of a snapshot and with nothing kept but the seed.  The phase error   *)
(* reported for the known row is below the threshold.                         *)
RowDecoded == phase = "decoded" =>
    /\ \A n \in 1..ypir.db_cols : answer.decoded[n] = Item(server.name, client.target, n - 1)
    /\ answer.max_distance < delta \div 2
=============================================================================
