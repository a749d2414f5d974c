---------------------------- MODULE NativePacking ----------------------------
(***************************************************************************)
(* reinspiring/src/native.rs: packing D LWE bodies into one RLWE           *)
(* ciphertext over the native modulus Q, a power of two.  Offline, the     *)
(* server aggregates the D mask rows over the integers, divides by D,      *)
(* collapses the two halves of the images side by side, and compiles the   *)
(* digits into a matrix, for each block of D columns.  Online it prepares  *)
(* a client's keys once, and with them each block before the scan of the   *)
(* database has an answer; the blocks share nothing else, and the model    *)
(* takes them one after the other.  In two-mask mode the last key switch   *)
(* is left to the client.  Dropped objects erase their secrets; that,      *)
(* timing and noise analysis are not modelled.                             *)
(***************************************************************************)
EXTENDS LiftNtt

CONSTANTS
    PackP,        \* plaintext modulus, a power of two
    NarrowMax,    \* the largest value of the narrow integers (i64::MAX)
    Support,      \* the largest secret coefficient the sampler draws
    PackJobs      \* records [bits, ell, two, blocks, w, v, secret, noise]; a block is [masks, msgs]

VARIABLES
    job,                  \* profile, setup, client secret, and the blocks with their messages
    nblock, pres,         \* the block in work, and the NativePreprocessed of those built
    nstage,               \* "aggregate", "trace", "compile", "ready"
    layer,                \* next FFT length
    agg,                  \* the rows inside the integer FFT
    halves, digits,       \* per half: images not collapsed yet, digits of each step
    fft,                  \* per limb: the rows inside the compiling FFT
    public_w,             \* prepared masks of K_g
    npre,                 \* NativePreprocessed of the block in work, <<>> before
    keys, prepared,       \* uploaded keys, and what prepare_keys made of them
    scan, pending,        \* the bodies of the scan, and the body of prepare_pack
    cipher,               \* the finished ciphertext
    products, decoded     \* the client's mask products and messages

npvars == <<job, nblock, pres, nstage, layer, agg, halves, digits, fft, public_w, npre, keys, prepared,
            scan, pending, cipher, products, decoded>>
jobvars == <<job, nblock, pres>>
buildvars == <<nstage, layer, agg, halves, digits, fft, public_w, npre>>
servevars == <<keys, prepared, scan, pending, cipher, products, decoded>>

LogQ == CHOOSE k \in 1..30 : 2^k = Q
dropped(p) == IF p.bits * p.ell < LogQ THEN LogQ - p.bits * p.ell ELSE 0
DigitBound(p) == Min({2^(p.bits - 1), Q \div 2})
Delta == Q \div PackP
Failed == << <<>> >>      \* the call returned an error

(* Mutation: the weight of a limb ignores the bits dropped by rounding. *)
factor_full(p, j) == IF p.bits * j >= LogQ THEN 0 ELSE 2^(p.bits * j)
factor(p, j) == LET shift == dropped(p) + p.bits * j IN IF shift >= LogQ THEN 0 ELSE 2^shift

(* Nearest rounding drops the low bits, then signed digits, least first. *)
decompose(a, p) ==
    LET z == 2^p.bits
        digit(x) == ((x + (z \div 2)) % z) - (z \div 2)
        rest(x) == LET r[n \in 1..p.ell] == IF n = 1 THEN x ELSE (r[n - 1] - digit(r[n - 1])) \div z IN r
        rounded(x) == IF dropped(p) = 0 THEN x ELSE (x + 2^(dropped(p) - 1)) \div 2^dropped(p)
    IN  [l \in 1..p.ell |-> [i \in Index |-> digit(rest(rounded(a[i]))[l]) % Q]]

-----------------------------------------------------------------------------
(* The client: encryption of messages and of the two automorphism keys.      *)
(* Noise is drawn afresh for every word; the job fixes the draws.            *)

Current == job.blocks[nblock]
encrypt_lwe(p, k) ==
    ((Current.msgs[k] * Delta + p.noise[k]) - SumMod(LAMBDA i : (Current.masks[k][i] * p.secret[i]) % Q, 0, D)) % Q

KeyBodies(p, mask, g) ==
    LET from == tau_coeffs(p.secret, g)
    IN  [j \in DOMAIN mask |->
            LET ws == multiply(mask[j], p.secret)
            IN  [i \in Index |-> ((from[i] * factor(p, j - 1) + p.noise[(i + j) % D]) - ws[i]) % Q]]

generate_internal(p, one_key) ==
    [kg |-> KeyBodies(p, p.w, G % (2 * D)),
     kh |-> IF one_key THEN <<>> ELSE KeyBodies(p, p.v, h)]

phase(p, ct) == AddPolys(<<multiply(ct.a, p.secret), ct.b>>)
phase_two_mask(p, ct) ==
    AddPolys(<<multiply(ct.a, p.secret), multiply(ct.a_other, tau_coeffs(p.secret, h)), ct.b>>)
Rounded(ph) == [i \in Index |-> ((ph[i] + (Delta \div 2)) \div Delta) % PackP]
decrypt(p, ct) == Rounded(IF p.two THEN phase_two_mask(p, ct) ELSE phase(p, ct))

-----------------------------------------------------------------------------
(* aggregate_masks: row k holds coefficient k of every LWE row, as a          *)
(* polynomial; the FFT over the integers keeps what the division drops.       *)

AggregateInput(masks) == [n \in Index |->
    LET k == bit_reverse(n)
        c(j) == IF k = 0 THEN masks[j][0] ELSE -masks[j][D - k]
    IN  [i \in Index |-> LET j == (i - k) % D IN IF j + k >= D THEN -c(j) ELSE c(j)]]

(* Mutation: the bound of the previous stage decides. *)
NarrowFits_late(len) == (len \div 2) * (Q - 1) <= NarrowMax
(* After the stage of length len a coefficient is at most len * (Q - 1). *)
NarrowFits(len) == len * (Q - 1) <= NarrowMax
WrapNarrow(x) == ((x + NarrowMax + 1) % (2 * (NarrowMax + 1))) - (NarrowMax + 1)

integer_ring_fft_layer(a, len) == [n \in Index |->
    LET half == len \div 2
        upper == n % len < half
        rot == 2 * (D \div len) * (n % half)
        u == IF upper THEN a[n] ELSE a[n - half]
        v == IF upper THEN a[n + half] ELSE a[n]
        turned(i) == IF i < rot THEN -v[(i + D) - rot] ELSE v[i - rot]
        exact(i) == IF upper THEN u[i] + turned(i) ELSE u[i] - turned(i)
    IN  [i \in Index |-> IF NarrowFits(len) THEN WrapNarrow(exact(i)) ELSE exact(i)]]

(* An arithmetic shift, then reduction. *)
FloorDivided(row) == [i \in Index |-> (row[i] \div D) % Q]

(* Left powers of 5, then their negatives. *)
Slots(a) == [half \in 1..2 |-> [n \in 0..(Half - 1) |->
    LET g == tau_g_pow(n)
    IN  FloorDivided(a[((IF half = 1 THEN g ELSE (2 * D) - g) - 1) \div 2])]]

Aggregate ==
    /\ nstage = "aggregate" /\ layer <= D
    /\ agg' = integer_ring_fft_layer(agg, layer)
    /\ layer' = 2 * layer
    /\ UNCHANGED <<jobvars, nstage, halves, digits, fft, public_w, npre, servevars>>

StartTrace ==
    /\ nstage = "aggregate" /\ layer > D
    /\ halves' = Slots(agg)
    /\ public_w' = prepare_public_dot(job.w, DigitBound(job))
    /\ nstage' = IF public_w' = <<>> THEN "refused" ELSE "trace"
    /\ UNCHANGED <<jobvars, layer, agg, digits, fft, npre, servevars>>

-----------------------------------------------------------------------------
(* trace_half: the highest image of a half is decomposed and switched to the  *)
(* image below.  ds * tau(w) = tau(tau^-1(ds) * w), so the transforms of w    *)
(* serve every step.  Both halves run side by side.                           *)

KgExponent(half, step) == collapse_kg_exponents[IF half = 1 THEN step ELSE (Half - 1) + step]

TraceStep(half) ==
    LET step == Len(digits[half]) + 1
        idx == Half - step
        e == KgExponent(half, step)
        inverse == CHOOSE x \in 1..(2 * D - 1) : (x * e) % (2 * D) = 1
        ds == decompose(halves[half][idx], job)
        update == public_dot(public_w, [l \in DOMAIN ds |-> tau_coeffs(ds[l], inverse)])
    IN  /\ nstage = "trace" /\ idx >= 1
        /\ IF update = <<>> THEN nstage' = "refused" /\ UNCHANGED <<halves, digits>>
           ELSE /\ halves' = [halves EXCEPT ![half][idx - 1] = add(@, tau_coeffs(update, e))]
                /\ digits' = [digits EXCEPT ![half] = Append(@, ds)]
                /\ UNCHANGED nstage
        /\ UNCHANGED <<jobvars, layer, agg, fft, public_w, npre, servevars>>

(* Both halves are joined: the last key switch, left out with two masks. *)
TracedBlock ==
    LET last == decompose(halves[2][0], job)
        update == public_dot(prepare_public_dot(job.v, DigitBound(job)), last)
    IN  IF job.two THEN [a |-> halves[1][0], a_other |-> halves[2][0], h |-> <<>>, leftover |-> <<>>]
        ELSE [a |-> add(halves[1][0], update), a_other |-> <<>>, h |-> <<>>, leftover |-> prepare_public(last)]

(* Then the compiling FFTs. *)
StartCompile ==
    LET all == digits[1] \o digits[2]
    IN  /\ nstage = "trace" /\ \A half \in 1..2 : Len(digits[half]) = Half - 1
        /\ npre' = TracedBlock
        /\ fft' = [l \in 1..job.ell |-> FftInput([n \in KgSteps |-> all[n][l]])]
        /\ nstage' = "compile" /\ layer' = 2
        /\ UNCHANGED <<jobvars, agg, halves, digits, public_w, servevars>>

CompiledMatrix == [l \in DOMAIN fft |-> FftColumns(fft[l])]

Compile ==
    /\ nstage = "compile" /\ layer <= D
    /\ fft' = [l \in DOMAIN fft |-> ring_fft_layer(fft[l], layer)]
    /\ layer' = 2 * layer
    /\ UNCHANGED <<jobvars, nstage, agg, halves, digits, public_w, npre, servevars>>

(* The next block starts from its own masks; after the last one requests are  *)
(* served, from the first block on.                                           *)
StartBlock(b) ==
    /\ nblock' = b /\ nstage' = "aggregate" /\ layer' = 2
    /\ agg' = AggregateInput(job.blocks[b].masks)
    /\ digits' = [half \in 1..2 |-> <<>>]
    /\ halves' = <<>> /\ fft' = <<>> /\ public_w' = <<>> /\ npre' = <<>>

FinishBlock ==
    /\ nstage = "compile" /\ layer > D
    /\ pres' = Append(pres, [npre EXCEPT !.h = CompiledMatrix])
    /\ \/ nblock < Len(job.blocks) /\ StartBlock(nblock + 1)
       \/ /\ nblock = Len(job.blocks)
          /\ nblock' = 1 /\ npre' = pres'[1] /\ nstage' = "ready"
          /\ UNCHANGED <<layer, agg, halves, digits, fft, public_w>>
    /\ UNCHANGED <<job, servevars>>

-----------------------------------------------------------------------------
(* Online *)

matrix_product(kg) == [r \in Index |->
    FoldFunction(LAMBDA x, y : (x + y) % Q, 0,
        [l \in DOMAIN kg |-> SumMod(LAMBDA c : (npre.h[l][r][c] * kg[l][c]) % Q, 0, D)])]

KeysFit(k) == Len(k.kg) = job.ell /\ Len(k.kh) = (IF job.two THEN 0 ELSE job.ell)

(* The reference: pack and pack_two_mask with everything at hand. *)
PackBody(b, k) == AddPolys(<<matrix_product(k.kg), b>> \o
                           (IF job.two THEN <<>> ELSE <<sum_prepared(npre.leftover, k.kh)>>))
pack(b, k) == IF ~KeysFit(k) THEN <<>> ELSE [a |-> npre.a, a_other |-> npre.a_other, b |-> PackBody(b, k)]

(* Requests are served once preprocessing is done.  Either kind of key may be *)
(* uploaded; a retry may replace refused keys.                                *)
Upload ==
    /\ job # <<>> /\ nstage = "ready" /\ prepared = <<>>
    /\ \E one_key \in BOOLEAN :
        /\ keys' = generate_internal(job, one_key)
        /\ keys' # keys
    /\ UNCHANGED <<jobvars, buildvars, prepared, scan, pending, cipher, products, decoded>>

(* Mutation: the keys keep the primes that the first block's leftover needs. *)
RightBound_first(p) ==
    IF \A l \in DOMAIN npre.leftover.transforms : Len(npre.leftover.transforms[l]) = 2 THEN 0 ELSE DigitBound(p)
RightBound(p) == DigitBound(p)

(* Once for all blocks, by the preprocessing of the first one. *)
prepare_keys ==
    /\ nstage = "ready" /\ keys # <<>> /\ prepared = <<>> /\ KeysFit(keys)
    /\ prepared' = [y |-> keys.kg,
                    kh |-> IF job.two THEN <<>> ELSE prepare_bounded_right(keys.kh, RightBound(job))]
    /\ UNCHANGED <<jobvars, buildvars, keys, scan, pending, cipher, products, decoded>>

(* prepare_pack, before or after the scan. *)
prepare_pack ==
    /\ prepared # <<>> /\ pending = <<>>
    /\ LET product == sum_cached(npre.leftover, prepared.kh)
           y == matrix_product(prepared.y)
       IN  pending' = IF job.two THEN <<y>> ELSE IF product = <<>> THEN Failed ELSE <<AddPolys(<<y, product>>)>>
    /\ UNCHANGED <<jobvars, buildvars, keys, prepared, scan, cipher, products, decoded>>

Scan ==
    /\ job # <<>> /\ nstage = "ready" /\ scan = <<>>
    /\ scan' = <<[k \in Index |-> encrypt_lwe(job, k)]>>
    /\ UNCHANGED <<jobvars, buildvars, keys, prepared, pending, cipher, products, decoded>>

(* finish and finish_two_mask consume the pending body. *)
finish ==
    /\ pending # <<>> /\ pending # Failed /\ scan # <<>> /\ cipher = <<>>
    /\ cipher' = <<[a |-> npre.a, a_other |-> npre.a_other, b |-> add(pending[1], scan[1])]>>
    /\ UNCHANGED <<jobvars, buildvars, keys, prepared, scan, pending, products, decoded>>

(* NativeDecoder: the masks are public, so the products can be made early. *)
prepare_request ==
    /\ nstage = "ready" /\ products = <<>>
    /\ LET masks == prepare_decode_masks(IF job.two THEN <<npre.a, npre.a_other>> ELSE <<npre.a>>, Support)
       IN  products' = IF masks = <<>> THEN Failed
                       ELSE <<sum_cached(masks, prepare_decode_secret(job.secret, job.two))>>
    /\ UNCHANGED <<jobvars, buildvars, keys, prepared, scan, pending, cipher, decoded>>

Decode ==
    /\ products # <<>> /\ products # Failed /\ cipher # <<>> /\ decoded = <<>>
    /\ decoded' = <<Rounded(add(products[1], cipher[1].b))>>
    /\ UNCHANGED <<jobvars, buildvars, keys, prepared, scan, pending, cipher, products>>

NextBlock ==
    /\ decoded # <<>> /\ nblock < Len(pres)
    /\ nblock' = nblock + 1 /\ npre' = pres[nblock + 1]
    /\ scan' = <<>> /\ pending' = <<>> /\ cipher' = <<>> /\ products' = <<>> /\ decoded' = <<>>
    /\ UNCHANGED <<job, pres, nstage, layer, agg, halves, digits, fft, public_w, keys, prepared>>

PackInit ==
    /\ job \in PackJobs /\ nstage = "aggregate" /\ layer = 2 /\ nblock = 1 /\ pres = <<>>
    /\ agg = AggregateInput(Current.masks)
    /\ digits = [half \in 1..2 |-> <<>>]
    /\ halves = <<>> /\ fft = <<>> /\ public_w = <<>> /\ npre = <<>> /\ keys = <<>> /\ prepared = <<>>
    /\ scan = <<>> /\ pending = <<>> /\ cipher = <<>> /\ products = <<>> /\ decoded = <<>>

PackNext ==
    \/ Aggregate \/ StartTrace \/ (\E half \in 1..2 : TraceStep(half)) \/ StartCompile \/ Compile \/ FinishBlock
    \/ Upload \/ prepare_keys \/ prepare_pack \/ Scan \/ finish \/ prepare_request \/ Decode \/ NextBlock

-----------------------------------------------------------------------------
(* Coefficient c of the sum over the rows j of X^j * tau_e(A_j), where A_j is *)
(* the polynomial whose product with the secret has the LWE product of row j  *)
(* as constant term.                                                          *)
AggregateAt(masks, e, c) ==
    MapThenSumSet(LAMBDA jk :
        LET j == jk[1]
            k == jk[2]
            x == IF k = 0 THEN masks[j][0] ELSE -masks[j][D - k]
            at == (j + k * e) % (2 * D)
        IN  IF at = c THEN x ELSE IF at = c + D THEN -x ELSE 0, Index \X Index)

(* The integer FFT yields the aggregated masks and divides the integers, not  *)
(* their residues: no stage overflows the narrow words (native.rs:1176).      *)
AggregateExact ==
    (nstage = "trace" /\ \A half \in 1..2 : digits[half] = <<>>) =>
    \A half \in 1..2 : \A n \in 0..(Half - 1) : \A c \in Index :
        LET g == tau_g_pow(n)
            e == IF half = 1 THEN g ELSE (2 * D) - g
        IN  halves[half][n][c] = (AggregateAt(Current.masks, e, c) \div D) % Q

(* Preparing keys and body ahead of the scan gives, bit for bit, what pack    *)
(* gives, and no profile's honest request is refused on the way: the primes   *)
(* kept for the keys cover every block's leftover digits (native.rs:727).     *)
PendingSameAsPack ==
    /\ nstage # "refused"
    /\ pending # Failed /\ products # Failed
    /\ cipher # <<>> => cipher[1] = pack(scan[1], keys)

(* The prepared decoder and the secret's own decryption both return the       *)
(* messages of every block, with one mask and with two (native.rs:268, 404).  *)
NativeDecodes == decoded # <<>> =>
    /\ decoded[1] = Current.msgs
    /\ decrypt(job, cipher[1]) = Current.msgs
=============================================================================
