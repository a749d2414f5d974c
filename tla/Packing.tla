------------------------------ MODULE Packing -------------------------------
(***************************************************************************)
(* inspiring/src/{preprocess,preprocess_reuse,intermediate,collapse,pack}  *)
(* .rs: D LWE ciphertexts with public rows (the CRS block) become one RLWE *)
(* ciphertext.                                                             *)
(*                                                                         *)
(* Preprocessing sees only the public rows: it aggregates them into D      *)
(* slots and collapses the two halves of the slots in two concurrent       *)
(* tasks, recording the gadget digits of every key switch.  Packing        *)
(* multiplies the recorded digits with the key bodies of each request of a *)
(* batch, in parallel tasks whose unreduced sums are then combined.        *)
(***************************************************************************)
EXTENDS RlweRing, SequencesExt

CONSTANTS
    MaskW, MaskV,  \* the fixed masks of K_g and K_h: ell polynomials each
    Blocks,        \* the CRS blocks preprocessing is given
    Batches,       \* sequences of requests packed together
    Widths,        \* the largest value an accumulator holds (2^128 - 1)
    Threads,       \* rayon's number of threads
    PoolCap,       \* the buffers a thread keeps (4)
    LaneCap        \* the lanes of the largest buffer it keeps (16384)

ASSUME PackingConstants ==
    /\ MaskW \in [Columns -> [Index -> Coeff]] /\ MaskV \in [Columns -> [Index -> Coeff]]
    /\ Blocks \subseteq [Index -> [Index -> Coeff]]
    /\ \A given \in Batches : given \in Seq(
         [s : [Index -> Coeff], eg : [Columns -> [Index -> Coeff]], eh : [Columns -> [Index -> Coeff]],
          m : [Index -> 0..(P - 1)], e : [Index -> Coeff]])
    /\ Threads \in Nat \ {0} /\ PoolCap \in Nat /\ LaneCap \in Nat /\ Widths \subseteq Nat
    /\ \A w \in Widths : w >= (Q - 1) * (Q - 1) + Q - 1

VARIABLES
    crs,      \* the rows of this block
    batch,    \* the requests
    width,
    stage,    \* "idle" between blocks, "public", "collapse", "bind", "fused", "stepwise", "done", "affine", "bound"
    slots,    \* slots[side]: the slots this half still has
    digits,   \* digits[side]: what it has recorded, in order
    pre,      \* QueryPackPreprocessed: c1 and all digits
    keys,     \* the key bodies uploaded with the batch
    tasks,    \* stretches of the schedule: next and last term, thread (0: none yet), sums per request
    pool,     \* PACKING_SCRATCH: the buffers each thread keeps
    out,      \* the final c2 of each request
    cascade   \* the state of a collapse with complete keys

vars == <<crs, batch, width, stage, slots, digits, pre, keys, tasks, pool, out, cascade>>

Sides == {"left", "right"}

-----------------------------------------------------------------------------
(* A request carries its two key bodies kg and kh, the scalars b of the LWE   *)
(* ciphertexts it packs, and, for the properties, its secret s and messages.  *)
(* Batches gives secrets, errors eg and eh of the key bodies, messages m and  *)
(* LWE errors e.                                                              *)

reference_mask_top(mask) == [k \in Columns |-> negate(ntt(mask[k]))]

generate_reference_body(s, t, mask, error) == [k \in Columns |->
    add(add(mul(ntt(s), ntt(mask[k])), ntt(error[k])),
        mul(ntt(tau_raw(s, t)), ntt([i \in Index |-> IF i = 0 THEN 2^(bits_per * k) % Q ELSE 0])))]

generate_full(s, eg, eh) ==
    [kg |-> generate_reference_body(s, tau_g_pow(1), MaskW, eg),
     kh |-> generate_reference_body(s, h, MaskV, eh)]

inner(a, s) == SumMod(LAMBDA i : (a[i] * s[i]) % Q, 0, D)
Encrypt(rows, g) ==
    LET bodies == generate_full(g.s, g.eg, g.eh)
    IN  [s |-> g.s, m |-> g.m, kg |-> bodies.kg, kh |-> bodies.kh,
         b |-> [k \in Index |-> (delta * g.m[k] + g.e[k] + Q - inner(rows[k], g.s)) % Q]]
EncryptBatch(rows, given) == [r \in DOMAIN given |-> Encrypt(rows, given[r])]

-----------------------------------------------------------------------------
(* Public preprocessing *)

Init ==
    /\ crs \in Blocks /\ width \in Widths
    /\ \E given \in Batches : batch = EncryptBatch(crs, given)
    /\ stage = "public"
    /\ slots = [side \in Sides |-> <<>>] /\ digits = [side \in Sides |-> <<>>]
    /\ pre = <<>> /\ keys = <<>> /\ tasks = <<>> /\ pool = [t \in 1..Threads |-> <<>>]
    /\ out = <<>> /\ cascade = <<>>

a_tilde_coeffs(a) == [i \in Index |-> IF i = 0 THEN a[0] ELSE neg(a[D - i])]

(* Slot e at s is E[table_e[s]][s] / D, where E[v] is the transform of the    *)
(* v-th entries of the transformed rows.                                      *)
build_a_agg(rows) ==
    LET a_hat == [j \in Index |-> ntt(a_tilde_coeffs(rows[j]))]
        e_table == [v \in Index |-> ntt([j \in Index |-> a_hat[j][v]])]
        slot(table) == [s \in Index |-> (e_table[table[s]][s] * d_inv) % Q]
    IN  [side \in Sides |-> [j \in 1..Half |->
            slot(IF side = "left" THEN LeftTables[j - 1] ELSE RightTables[j - 1])]]

PublicBuild ==
    /\ stage = "public"
    /\ slots' = build_a_agg(crs)
    /\ stage' = "collapse"
    /\ UNCHANGED <<crs, batch, width, digits, pre, keys, tasks, pool, out, cascade>>

Tables(side) == IF side = "left" THEN LeftTables ELSE RightTables
kg_top(side, image) == apply_tau_row(reference_mask_top(MaskW), Tables(side)[image])
kh_top == reference_mask_top(MaskV)

(* One turn of the loop of preprocess_reuse::collapse_half: the last slot is  *)
(* switched into the one before it.                                           *)
collapse_half(side) ==
    /\ stage = "collapse" /\ Len(slots[side]) > 1
    /\ LET n == Len(slots[side])
           next == ks_digits_ntt_from_c1(slots[side][n])
           sum == add(slots[side][n - 1], multiply(kg_top(side, n - 2), next))
       IN  /\ slots' = [slots EXCEPT ![side] = Append(SubSeq(@, 1, n - 2), sum)]
           /\ digits' = [digits EXCEPT ![side] = Append(@, next)]
    /\ UNCHANGED <<crs, batch, width, stage, pre, keys, tasks, pool, out, cascade>>

(* Mutation: the digits are joined in the order the halves finish, right first. *)
JoinHalvesSwapped ==
    /\ stage = "collapse" /\ \A side \in Sides : Len(slots[side]) = 1
    /\ LET final == ks_digits_ntt_from_c1(slots["right"][1])
       IN  pre' = [a_final |-> add(slots["left"][1], multiply(kh_top, final)),
                   digits  |-> digits["right"] \o digits["left"] \o <<final>>]
    /\ stage' = "bind"
    /\ slots' = [side \in Sides |-> <<>>] /\ digits' = [side \in Sides |-> <<>>]
    /\ UNCHANGED <<crs, batch, width, keys, tasks, pool, out, cascade>>

(* Both halves have returned from rayon::join; the K_h switch follows.        *)
JoinHalves ==
    /\ stage = "collapse" /\ \A side \in Sides : Len(slots[side]) = 1
    /\ LET final == ks_digits_ntt_from_c1(slots["right"][1])
       IN  pre' = [a_final |-> add(slots["left"][1], multiply(kh_top, final)),
                   digits  |-> digits["left"] \o digits["right"] \o <<final>>]
    /\ stage' = "bind"
    /\ slots' = [side \in Sides |-> <<>>] /\ digits' = [side \in Sides |-> <<>>]
    /\ UNCHANGED <<crs, batch, width, keys, tasks, pool, out, cascade>>

-----------------------------------------------------------------------------
(* Packing a batch *)

(* Mutation: one product per key switch is counted instead of ell. *)
fused_accumulator_fits_steps == (Q - 1) * (Q - 1) * Steps <= width
fused_accumulator_fits == (Q - 1) * (Q - 1) * Steps * ell <= width

collapse_steps_per_task ==
    LET workers == Threads * 4 IN Max({1, (Steps + workers - 1) \div workers})
Chunks == 1..((Steps + collapse_steps_per_task - 1) \div collapse_steps_per_task)
ChunkFirst(c) == (c - 1) * collapse_steps_per_task + 1
ChunkLast(c) == Min({c * collapse_steps_per_task, Steps})

(* The order in which the cascade ran: the images of a half downwards. *)
Table(n) == IF n < Half THEN LeftTables[Half - 1 - n] ELSE RightTables[Steps - 1 - n]
Image(n, kg, kh) == IF n = Steps THEN kh ELSE apply_tau_row(kg, Table(n))

(* PackingScratch: a thread's buffer is cleared before it is used and again   *)
(* when it is dropped; the thread that drops it keeps it, if it has few and   *)
(* the buffer is small.  A batch of several requests allocates its own.       *)
Pooled == Len(batch) = 1

(* Mutation: only the lanes that resize adds are cleared. *)
fill_grown(buffer) == buffer
fill(buffer) == [i \in Index |-> 0]
new_scratch(buffers) == IF buffers = <<>> THEN zero ELSE fill(Last(buffers))
taken(buffers) == IF buffers = <<>> THEN buffers ELSE Front(buffers)
drop(buffers, buffer) ==
    IF Len(buffers) < PoolCap /\ D <= LaneCap THEN Append(buffers, fill(buffer)) ELSE buffers

(* The key bodies of the requests are bound; the tasks of the schedule wait   *)
(* to be run.                                                                 *)
StartPack ==
    /\ stage = "bind"
    /\ keys' = [r \in DOMAIN batch |-> [kg |-> batch[r].kg, kh |-> batch[r].kh]]
    /\ IF fused_accumulator_fits
       THEN /\ stage' = "fused"
            /\ tasks' = [c \in Chunks |-> [next |-> ChunkFirst(c), last |-> ChunkLast(c), by |-> 0, acc |-> <<>>]]
       ELSE stage' = "stepwise" /\ tasks' = tasks
    /\ UNCHANGED <<crs, batch, width, slots, digits, pre, pool, out, cascade>>

(* Sums are not reduced; they wrap at the width of the accumulator. *)
accumulate_collapse_term(acc, body, term) == [i \in Index |->
    (acc[i] + SumOf([k \in Columns |-> body[k][i] * term[k][i]], 0, ell)) % (width + 1)]

Summed(c) == tasks[c].next > tasks[c].last
Busy(t) == \E c \in DOMAIN tasks : tasks[c].by = t /\ ~Summed(c)

(* A thread runs a chunk to its end.  It takes two buffers first, the         *)
(* identity of the reduction and the chunk's accumulator, and drops the       *)
(* second when the first has its sums: what counts is what both add up to.    *)
Accumulate(c, t) ==
    /\ stage = "fused" /\ ~Summed(c)
    /\ tasks[c].by = t \/ (tasks[c].by = 0 /\ ~Busy(t))
    /\ LET n == tasks[c].next
           starts == tasks[c].acc = <<>>
           identity == new_scratch(pool[t])
           scratch == new_scratch(taken(pool[t]))
           acc(r) == IF ~starts THEN tasks[c].acc[r]
                     ELSE IF Pooled THEN [i \in Index |-> identity[i] + scratch[i]] ELSE zero
           sums == [r \in DOMAIN batch |->
                      accumulate_collapse_term(acc(r), Image(n, keys[r].kg, keys[r].kh), pre.digits[n])]
           left == IF starts THEN taken(taken(pool[t])) ELSE pool[t]
       IN  /\ tasks' = [tasks EXCEPT ![c] = [next |-> n + 1, last |-> @.last, by |-> t, acc |-> sums]]
           /\ pool' = IF ~Pooled THEN pool
                      ELSE [pool EXCEPT ![t] = IF n = tasks[c].last THEN drop(left, sums[1]) ELSE left]
    /\ UNCHANGED <<crs, batch, width, stage, slots, digits, pre, keys, out, cascade>>

(* A free thread combines neighbouring sums that are ready, and drops one.    *)
Reduce(c, t) ==
    /\ stage = "fused" /\ c + 1 \in DOMAIN tasks /\ Summed(c) /\ Summed(c + 1) /\ ~Busy(t)
    /\ LET both == [tasks[c + 1] EXCEPT !.acc = [r \in DOMAIN batch |-> [i \in Index |->
                       (tasks[c].acc[r][i] + tasks[c + 1].acc[r][i]) % (width + 1)]]]
       IN  tasks' = SubSeq(tasks, 1, c - 1) \o <<both>> \o SubSeq(tasks, c + 2, Len(tasks))
    /\ pool' = IF Pooled THEN [pool EXCEPT ![t] = drop(@, tasks[c + 1].acc[1])] ELSE pool
    /\ UNCHANGED <<crs, batch, width, stage, slots, digits, pre, keys, out, cascade>>

(* barrett_reduction_u128 of each lane, added to the transformed b. *)
FinishFused(t) ==
    /\ stage = "fused" /\ Len(tasks) = 1 /\ Summed(1)
    /\ out' = [r \in DOMAIN batch |->
           add(ntt(batch[r].b), [i \in Index |-> tasks[1].acc[r][i] % Q])]
    /\ stage' = "done" /\ tasks' = <<>>
    /\ pool' = IF Pooled THEN [pool EXCEPT ![t] = drop(@, tasks[1].acc[1])] ELSE pool
    /\ UNCHANGED <<crs, batch, width, slots, digits, pre, keys, cascade>>

(* One product of the fallback, reduced once if ell products fit, and after   *)
(* every product otherwise.                                                   *)
multiply_permuted_body_by_digits(body, term) ==
    LET can_reduce_once == (Q - 1) * (Q - 1) * ell <= width
        lane(i) == LET acc[k \in Columns] ==
                           LET sum == (IF k = 0 THEN 0 ELSE acc[k - 1]) + body[k][i] * term[k][i]
                           IN  IF can_reduce_once THEN sum % (width + 1)
                               ELSE (sum % (width + 1)) % Q
                   IN  acc[ell - 1] % Q
    IN  [i \in Index |-> lane(i)]

(* collapse_uploaded_body_b_stepwise, on one thread. *)
stepwise(r) ==
    LET term(n) == IF n = Steps THEN multiply(keys[r].kh, pre.digits[n])
                   ELSE multiply_permuted_body_by_digits(Image(n, keys[r].kg, keys[r].kh), pre.digits[n])
        b[n \in 0..Steps] == IF n = 0 THEN ntt(batch[r].b) ELSE add(term(n), b[n - 1])
    IN  b[Steps]

FinishStepwise ==
    /\ stage = "stepwise"
    /\ out' = [r \in DOMAIN batch |-> stepwise(r)]
    /\ stage' = "done"
    /\ UNCHANGED <<crs, batch, width, slots, digits, pre, keys, tasks, pool, cascade>>

-----------------------------------------------------------------------------
(* The other way to pack a request: the complete keys are bound to the block  *)
(* (PackPreprocessed), which runs the whole cascade with b = 0, and pack adds *)
(* b to the result.                                                           *)

(* Mutation: both keys get the mask of K_g. *)
to_key_pair_one_seed(key) ==
    [kg |-> [top |-> reference_mask_top(MaskW), body |-> key.kg],
     kh |-> [top |-> reference_mask_top(MaskW), body |-> key.kh]]
to_key_pair(key) ==
    [kg |-> [top |-> reference_mask_top(MaskW), body |-> key.kg],
     kh |-> [top |-> kh_top, body |-> key.kh]]

(* The exponents of the slots, left half first. *)
Exponent(j) == IF j < Half THEN tau_g_pow(j) ELSE (tau_g_pow(j - Half) * h) % (2 * D)
transform(a) == [j \in Index |->
    ntt([i \in Index |-> (tau_raw(a_tilde_coeffs(a), Exponent(j))[i] * d_inv) % Q])]

monomial(k) == ntt([i \in Index |-> IF i = k THEN 1 ELSE 0])
aggregate(ctx) == [j \in Index |->
    LET sum[k \in Index] == LET term == mul(ctx[k][j], monomial(k))
                            IN  IF k = 0 THEN term ELSE add(sum[k - 1], term)
    IN  sum[D - 1]]

BindKeys(r) ==
    /\ stage = "done"
    /\ LET a_agg == aggregate([k \in Index |-> transform(crs[k])])
       IN  cascade' = [left |-> [j \in 1..Half |-> a_agg[j - 1]],
                       right |-> [j \in 1..Half |-> a_agg[Half + j - 1]],
                       b |-> zero, for |-> r]
    /\ stage' = "affine"
    /\ UNCHANGED <<crs, batch, width, slots, digits, pre, keys, tasks, pool, out>>

(* collapse: the left half, then the right half, then K_h. *)
collapse_one(side) ==
    /\ stage = "affine" /\ Len(cascade[side]) > 1
    /\ side = "right" => Len(cascade.left) = 1
    /\ LET n == Len(cascade[side])
           key == automorphic_image(to_key_pair(keys[cascade.for]).kg, Tables(side)[n - 2])
           switched == ks_switch(key, cascade[side][n], cascade.b)
       IN  cascade' = [cascade EXCEPT
               ![side] = Append(SubSeq(@, 1, n - 2), add(@[n - 1], switched[1])),
               !.b = switched[2]]
    /\ UNCHANGED <<crs, batch, width, stage, slots, digits, pre, keys, tasks, pool, out>>

collapse_final ==
    /\ stage = "affine" /\ Len(cascade.left) = 1 /\ Len(cascade.right) = 1
    /\ LET switched == ks_switch(to_key_pair(keys[cascade.for]).kh, cascade.right[1], cascade.b)
       IN  cascade' = [cascade EXCEPT !.left = <<add(@[1], switched[1])>>, !.right = <<>>,
                                      !.b = switched[2]]
    /\ stage' = "bound"
    /\ UNCHANGED <<crs, batch, width, slots, digits, pre, keys, tasks, pool, out>>

pack(r) == [c1 |-> cascade.left[1], c2 |-> add(ntt(batch[r].b), cascade.b)]

(* The caller goes on to another batch of the same block. *)
Again ==
    /\ stage \in {"done", "bound"}
    /\ \E given \in Batches : batch' = EncryptBatch(crs, given)
    /\ stage' = "bind" /\ out' = <<>> /\ keys' = <<>> /\ cascade' = <<>>
    /\ UNCHANGED <<crs, width, slots, digits, pre, tasks, pool>>

Next ==
    \/ PublicBuild \/ (\E side \in Sides : collapse_half(side)) \/ JoinHalves
    \/ StartPack \/ FinishStepwise \/ Again
    \/ \E t \in 1..Threads : FinishFused(t) \/ \E c \in DOMAIN tasks : Accumulate(c, t) \/ Reduce(c, t)
    \/ \E r \in DOMAIN batch : BindKeys(r)
    \/ (\E side \in Sides : collapse_one(side)) \/ collapse_final

Spec == Init /\ [][Next]_vars

-----------------------------------------------------------------------------
TypeOK ==
    /\ crs \in [Index -> [Index -> Coeff]] /\ width \in Widths
    /\ \A r \in DOMAIN batch : batch[r].b \in [Index -> Coeff]
    /\ stage \in {"idle", "public", "collapse", "bind", "fused", "stepwise", "done", "affine", "bound"}
    /\ \A side \in Sides :
         /\ \A j \in DOMAIN slots[side] : slots[side][j] \in [Index -> Coeff]
         /\ stage = "collapse" => Len(slots[side]) + Len(digits[side]) = Half
    /\ (pre = <<>>) = (stage \in {"idle", "public", "collapse"})
    /\ pre # <<>> => Len(pre.digits) = Steps
    /\ \A c \in DOMAIN tasks : \A r \in DOMAIN tasks[c].acc : \A i \in Index : tasks[c].acc[r][i] \in 0..width
    /\ \A r \in DOMAIN out : \A i \in Index : out[r][i] \in Coeff

(* What the digits recorded so far stand for in c2 once a request's keys are  *)
(* known, leaving out the errors of those keys.                               *)
NoError == [k \in Columns |-> zero]
Recorded(s) ==
    LET kg == generate_full(s, NoError, NoError).kg
        kh == generate_full(s, NoError, NoError).kh
        term(n) == IF stage # "collapse" THEN multiply(Image(n, kg, kh), pre.digits[n])
                   ELSE IF n < Half
                   THEN IF n <= Len(digits["left"]) THEN multiply(Image(n, kg, kh), digits["left"][n]) ELSE zero
                   ELSE IF n - Half + 1 <= Len(digits["right"])
                        THEN multiply(Image(n, kg, kh), digits["right"][n - Half + 1]) ELSE zero
        sum[n \in 0..Steps] == IF n = 0 THEN zero ELSE add(sum[n - 1], term(n))
    IN  sum[Steps]

(* What is left of the masks, under the images of the secret. *)
Remaining(s) ==
    LET slot(j) == IF stage # "collapse" THEN IF j = 0 THEN pre.a_final ELSE zero
                   ELSE IF j < Half
                   THEN IF j < Len(slots["left"]) THEN slots["left"][j + 1] ELSE zero
                   ELSE IF j - Half < Len(slots["right"]) THEN slots["right"][j - Half + 1] ELSE zero
        sum[j \in -1..(D - 1)] ==
            IF j = -1 THEN zero ELSE add(sum[j - 1], mul(slot(j), ntt(tau_raw(s, Exponent(j)))))
    IN  sum[D - 1]

(* At every point of the two concurrent cascades of preprocess_reuse::build,  *)
(* the slots left and the digits recorded stand, under every secret, for the  *)
(* inner products of the public rows with that secret: coefficient k is row   *)
(* k's, exactly.  So no schedule of the halves loses or misplaces a mask.     *)
MaskPhaseKept == stage \in {"collapse", "bind"} => \A r \in DOMAIN batch :
    add(Remaining(batch[r].s), Recorded(batch[r].s))
        = ntt([k \in Index |-> inner(crs[k], batch[r].s)])

(* Each request of a batch gets the ciphertext of its own messages, whatever  *)
(* the batch, the order of the tasks and the path the accumulator's width     *)
(* selects.                                                                   *)
Decoded(s, c1, c2) == LET phase == from_ntt(add(mul(c1, ntt(s)), c2))
                      IN  [k \in Index |-> ((phase[k] * P + Q \div 2) \div Q) % P]
PackedDecodes == stage = "done" => \A r \in DOMAIN batch :
    Decoded(batch[r].s, pre.a_final, out[r]) = batch[r].m

(* However the tasks of the fused path are scheduled and combined, and        *)
(* whatever the width of an accumulator allows, a request's c2 is the one of  *)
(* the fallback that runs one key switch at a time.                           *)
PathsAgree == stage = "done" => \A r \in DOMAIN batch : out[r] = stepwise(r)

(* The term that key switch n adds to slot i of request r's sums. *)
Added(r, n, i) == SumOf([k \in Columns |->
    Image(n, keys[r].kg, keys[r].kh)[k][i] * pre.digits[n][k][i]], 0, ell)
First(ts, c) == IF c = 1 THEN 1 ELSE ts[c - 1].last + 1

(* preprocess.rs:688 clears a buffer before it is used: however the threads   *)
(* run, join and drop the chunks of one request after the other, in whatever  *)
(* buffers earlier chunks and requests left, a chunk's or a joined sum is the *)
(* exact sum of this request's own terms, of no other and without wrapping.   *)
SumsAreOwn == stage = "fused" => \A c \in DOMAIN tasks : tasks[c].acc # <<>> =>
    \A r \in DOMAIN batch, i \in Index :
        tasks[c].acc[r][i] = SumOf([n \in 1..Steps |-> Added(r, n, i)], First(tasks, c), tasks[c].next)
=============================================================================
