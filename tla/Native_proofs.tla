---------------------------- MODULE Native_proofs ----------------------------
(***************************************************************************)
(* Proofs about the native protocol: profiles, sessions, the samplers and  *)
(* randomised rounding it uses, the kernels of its dot products and the    *)
(* packed matrices they multiply.                                          *)
(***************************************************************************)
EXTENDS NativeProfile, NativeSession, Sampling, NativeMatrix, Arithmetic

-----------------------------------------------------------------------------
(* Profiles: every one a chain of builder calls can produce, for any packing  *)
(* parameters, any widths and any number of builders, is certified for its    *)
(* output mode, fits its modulus and is determined by its setup identifier.   *)

(* What the proofs need of the floor table: two-mask floors never exceed the  *)
(* one-mask floors, and the narrowed response floor is a real range.          *)
LEMMA FloorFacts ==
    ASSUME NEW k \in Pack
    PROVE  /\ floors(k).query1 \in Nat /\ floors(k).query2 \in Nat
           /\ floors(k).mask1 \in Nat /\ floors(k).mask2 \in Nat
           /\ floors(k).response2 \in Nat /\ default_response_bits(k) \in Nat
           /\ floors(k).query2 <= floors(k).query1
           /\ floors(k).mask2 <= floors(k).mask1
           /\ floors(k).response2 <= default_response_bits(k)
           /\ default_response_bits(k) <= k.qbits
<1>1. /\ default_response_bits(k) \in Nat
      /\ default_response_bits(k) <= k.qbits
      /\ k.pbits = 8 => default_response_bits(k) = 14
  BY DEF default_response_bits, AtMost, Pack
<1>2. CASE k.pbits = 16 /\ k.gbits = 19 /\ k.ell = 2
  <2>1. floors(k) = [query2 |-> 43, query1 |-> 43, mask2 |-> 27, mask1 |-> 28,
                     response2 |-> default_response_bits(k)]
    BY <1>2 DEF floors, Pack
  <2> QED BY <1>1, <2>1
<1>3. CASE k.pbits = 8 /\ <<k.gbits, k.ell>> \in {<<19, 2>>, <<27, 1>>}
  <2>1. floors(k) = [query2 |-> 28, query1 |-> 49, mask2 |-> 22, mask1 |-> 33,
                     response2 |-> 10]
    BY <1>3 DEF floors, Pack
  <2> QED BY <1>1, <1>3, <2>1
<1>4. CASE /\ ~(k.pbits = 16 /\ k.gbits = 19 /\ k.ell = 2)
           /\ ~(k.pbits = 8 /\ <<k.gbits, k.ell>> \in {<<19, 2>>, <<27, 1>>})
  <2>1. floors(k) = [query2 |-> 49, query1 |-> 49, mask2 |-> 33, mask1 |-> 33,
                     response2 |-> default_response_bits(k)]
    BY <1>4 DEF floors, Pack
  <2> QED BY <1>1, <2>1
<1> QED BY <1>2, <1>3, <1>4

LEMMA LowerFloor ==
    ASSUME NEW low \in Nat, NEW high \in Nat, low <= high,
           NEW x \in Nat, NEW top \in Nat, x \in high..top
    PROVE  x \in low..top
  OBVIOUS

(* The certified profiles, as a set: what every builder step maps to itself. *)
Good == {p \in Profile : Certified(p)}

LEMMA PackOfProfile == ASSUME NEW p \in Profile PROVE p.pack \in Pack
  BY ConstantTypes DEF Profile

(* new returns a certified profile. *)
LEMMA NewGood ==
    ASSUME NEW k \in Packs, NEW rows \in Dims, NEW cols \in Dims
    PROVE  [pack |-> k, rows |-> rows, cols |-> cols,
            query |-> AtMost(49, k.qbits), response |-> default_response_bits(k),
            kh |-> k.qbits, twoMask |-> FALSE, mask |-> 64,
            dithered |-> FALSE] \in Good
<1>1. k \in Pack
  BY ConstantTypes
<1>2. AtMost(49, k.qbits) \in Nat /\ default_response_bits(k) \in Nat /\ k.qbits \in Nat
  BY <1>1, FloorFacts DEF AtMost, Pack
<1> QED BY <1>2 DEF Good, Profile, Certified

(* Each with_* method, when it accepts, keeps a certified profile certified. *)
LEMMA KhGood ==
    ASSUME NEW p \in Good, NEW bits \in Widths,
           \/ bits = p.pack.qbits
           \/ ~p.twoMask /\ bits >= 40 /\ bits < p.pack.qbits
    PROVE  [p EXCEPT !.kh = bits] \in Good
<1>1. p.pack.qbits \in Nat /\ bits \in Nat
  BY PackOfProfile, ConstantTypes DEF Good, Pack
<1> QED BY <1>1 DEF Good, Profile, Certified

LEMMA TwoMaskGood ==
    ASSUME NEW p \in Good, p.kh = p.pack.qbits,
           mask_width_allowed(p.mask, floors(p.pack).mask2)
    PROVE  [p EXCEPT !.twoMask = TRUE] \in Good
<1> DEFINE k == p.pack
           r == [p EXCEPT !.twoMask = TRUE]
<1>1. k \in Pack /\ k.qbits \in Nat
  BY PackOfProfile DEF Good, Pack
<1>2. /\ r \in Profile /\ r.pack = k /\ r.kh = k.qbits /\ r.twoMask = TRUE
      /\ r.query = p.query /\ r.mask = p.mask /\ r.response = p.response
      /\ r.dithered = p.dithered
  BY DEF Good, Profile
<1>3. /\ p.query \in Nat /\ p.response \in Nat
      /\ p.twoMask \in BOOLEAN
  BY DEF Good, Profile
<1>4. \/ ~p.dithered /\ p.query = AtMost(49, k.qbits)
      \/ p.dithered /\ k.qbits = 54 /\ p.query \in QueryFloor(k, TRUE)..49
  <2>1. QueryFloor(k, TRUE) <= QueryFloor(k, p.twoMask)
        /\ QueryFloor(k, TRUE) \in Nat /\ QueryFloor(k, p.twoMask) \in Nat
    BY <1>1, <1>3, FloorFacts DEF QueryFloor
  <2>2. \/ ~p.dithered /\ p.query = AtMost(49, k.qbits)
        \/ p.dithered /\ k.qbits = 54 /\ p.query \in QueryFloor(k, p.twoMask)..49
    BY DEF Good, Certified
  <2>3. p.query \in QueryFloor(k, p.twoMask)..49 => p.query \in QueryFloor(k, TRUE)..49
    BY <1>3, <2>1, LowerFloor
  <2> QED BY <2>2, <2>3, Zenon
<1>5. \/ p.mask = 64
      \/ k.qbits = 54 /\ mask_width_allowed(p.mask, MaskFloor(k, TRUE))
  BY DEF Good, Certified, MaskFloor
<1>6. \/ p.response = default_response_bits(k)
      \/ k.qbits = 54 /\ p.response \in ResponseFloor(k, TRUE)..default_response_bits(k)
  <2>1. ResponseFloor(k, TRUE) <= ResponseFloor(k, p.twoMask)
        /\ ResponseFloor(k, TRUE) \in Nat /\ ResponseFloor(k, p.twoMask) \in Nat
        /\ default_response_bits(k) \in Nat
    BY <1>1, <1>3, FloorFacts DEF ResponseFloor
  <2>2. \/ p.response = default_response_bits(k)
        \/ /\ k.qbits = 54
           /\ p.response \in ResponseFloor(k, p.twoMask)..default_response_bits(k)
    BY DEF Good, Certified
  <2>3. p.response \in ResponseFloor(k, p.twoMask)..default_response_bits(k)
          => p.response \in ResponseFloor(k, TRUE)..default_response_bits(k)
    BY <1>3, <2>1, LowerFloor
  <2> QED BY <2>2, <2>3, Zenon
<1> QED BY <1>2, <1>4, <1>5, <1>6 DEF Good, Certified

LEMMA MaskGood ==
    ASSUME NEW p \in Good, NEW bits \in Widths,
           \/ bits = 64
           \/ /\ p.pack.qbits = 54
              /\ mask_width_allowed(bits, MaskFloor(p.pack, p.twoMask))
    PROVE  [p EXCEPT !.mask = bits] \in Good
  BY ConstantTypes DEF Good, Profile, Certified

LEMMA DitheredGood ==
    ASSUME NEW p \in Good, NEW bits \in Widths, p.pack.qbits = 54,
           bits \in QueryFloor(p.pack, p.twoMask)..49
    PROVE  [p EXCEPT !.query = bits, !.dithered = TRUE] \in Good
  BY ConstantTypes DEF Good, Profile, Certified

LEMMA ResponseGood ==
    ASSUME NEW p \in Good, NEW bits \in Widths,
           bits \in ResponseFloor(p.pack, p.twoMask)..default_response_bits(p.pack),
           bits = default_response_bits(p.pack) \/ p.pack.qbits = 54
    PROVE  [p EXCEPT !.response = bits] \in Good
  BY ConstantTypes DEF Good, Profile, Certified

(* The inductive invariant: at most one profile is held and it is certified. *)
ProfileInv == ProfileOK /\ CertifiedTransport

LEMMA ReturnKeepsInv ==
    ASSUME ProfileInv, NEW b \in Builders, NEW accepted, NEW next,
           accepted => next \in Good, Return(b, accepted, next)
    PROVE  ProfileInv'
<1>1. ASSUME NEW c \in Builders
      PROVE  /\ held'[c] \subseteq Good
             /\ \A p, r \in held'[c] : p = r
  <2>1. held[c] \subseteq Good /\ \A p, r \in held[c] : p = r
    BY DEF ProfileInv, ProfileOK, CertifiedTransport, Good
  <2>2. held'[c] = held[c] \/ held'[c] = {} \/ (accepted /\ held'[c] = {next})
    BY DEF ProfileInv, ProfileOK, Return
  <2> QED BY <2>1, <2>2
<1>2. held' \in [Builders -> SUBSET Profile]
  <2>1. held' = [c \in Builders |-> held'[c]]
    BY DEF ProfileInv, ProfileOK, Return
  <2> QED BY <1>1, <2>1 DEF Good
<1> QED BY <1>1, <1>2 DEF ProfileInv, ProfileOK, CertifiedTransport, Good

LEMMA ProfileInductive == ProfileSpec => []ProfileInv
<1>1. ProfileInit => ProfileInv
  BY DEF ProfileInit, ProfileInv, ProfileOK, CertifiedTransport
<1>2. ProfileInv /\ [ProfileNext]_held => ProfileInv'
  <2> SUFFICES ASSUME ProfileInv, [ProfileNext]_held PROVE ProfileInv'
    OBVIOUS
  <2>0. \A b \in Builders : held[b] \subseteq Good
    BY DEF ProfileInv, ProfileOK, CertifiedTransport, Good
  <2>1. ASSUME NEW b \in Builders, new(b) PROVE ProfileInv'
    BY <2>1, NewGood, ReturnKeepsInv DEF new
  <2>2. ASSUME NEW b \in Builders, with_kh_bits(b) PROVE ProfileInv'
    BY <2>0, <2>2, KhGood, ReturnKeepsInv DEF with_kh_bits
  <2>3. ASSUME NEW b \in Builders, with_two_mask_output(b) PROVE ProfileInv'
    BY <2>0, <2>3, TwoMaskGood, ReturnKeepsInv DEF with_two_mask_output
  <2>4. ASSUME NEW b \in Builders, with_published_mask_bits(b) PROVE ProfileInv'
    BY <2>0, <2>4, MaskGood, ReturnKeepsInv DEF with_published_mask_bits
  <2>5. ASSUME NEW b \in Builders, with_dithered_query_bits(b) PROVE ProfileInv'
    BY <2>0, <2>5, DitheredGood, ReturnKeepsInv DEF with_dithered_query_bits
  <2>6. ASSUME NEW b \in Builders, with_response_bits(b) PROVE ProfileInv'
    BY <2>0, <2>6, ResponseGood, ReturnKeepsInv DEF with_response_bits
  <2>7. CASE UNCHANGED held
    BY <2>7 DEF ProfileInv, ProfileOK, CertifiedTransport
  <2> QED BY <2>1, <2>2, <2>3, <2>4, <2>5, <2>6, <2>7 DEF ProfileNext
<1> QED BY <1>1, <1>2, PTL DEF ProfileSpec

(* Builder calls in any order leave a profile certified for its final mode. *)
THEOREM ProfilesCertified == ProfileSpec => [](ProfileOK /\ CertifiedTransport)
  BY ProfileInductive, PTL DEF ProfileInv

(* No chain of builder calls yields a width that wire::down would underflow on. *)
THEOREM ProfilesFitModulus == ProfileSpec => []WidthsFitModulus
<1>1. ProfileInv => WidthsFitModulus
  <2> SUFFICES ASSUME ProfileInv, NEW b \in Builders, NEW p \in held[b]
               PROVE  {p.query, p.response, p.kh} \union ({p.mask} \ {64})
                          \subseteq 0..p.pack.qbits
    BY DEF WidthsFitModulus
  <2>1. p \in Profile /\ Certified(p) /\ p.pack \in Pack
    BY PackOfProfile DEF ProfileInv, ProfileOK, CertifiedTransport
  <2>2. /\ p.pack.qbits \in Nat /\ p.pack.qbits >= 16
        /\ default_response_bits(p.pack) \in Nat
        /\ default_response_bits(p.pack) <= p.pack.qbits
    BY <2>1, FloorFacts DEF Pack
  <2>3. /\ p.query \in Nat /\ p.response \in Nat /\ p.kh \in Nat /\ p.mask \in Nat
    BY <2>1 DEF Profile
  <2>4. p.query \in 0..p.pack.qbits
    BY <2>1, <2>2, <2>3 DEF Certified, AtMost
  <2>5. p.response \in 0..p.pack.qbits
    BY <2>1, <2>2, <2>3 DEF Certified
  <2>6. p.kh \in 0..p.pack.qbits
    BY <2>1, <2>2, <2>3 DEF Certified
  <2>7. p.mask = 64 \/ p.mask \in 0..p.pack.qbits
    BY <2>1, <2>2, <2>3 DEF Certified, mask_width_allowed
  <2> QED BY <2>4, <2>5, <2>6, <2>7
<1> QED BY <1>1, ProfileInductive, PTL

(* The setup identifier determines the profile it was computed from. *)
THEOREM SetupIdsBindProfiles == ProfileSpec => []SetupIdBindsProfile
<1>1. ProfileInv => SetupIdBindsProfile
  <2> SUFFICES ASSUME ProfileInv, NEW a \in Builders, NEW b \in Builders,
                      NEW p \in held[a], NEW r \in held[b],
                      SetupId(p) = SetupId(r)
               PROVE  p = r
    BY DEF SetupIdBindsProfile
  <2>1. p \in Profile /\ Certified(p) /\ r \in Profile /\ Certified(r)
    BY DEF ProfileInv, ProfileOK, CertifiedTransport
  <2>2. /\ p.pack = r.pack /\ p.twoMask = r.twoMask /\ p.dithered = r.dithered
        /\ p.rows = r.rows /\ p.cols = r.cols
        /\ p.query = r.query /\ p.response = r.response
    BY DEF SetupId
  <2>3. p.mask = r.mask
    <3>1. (IF p.mask # 64 THEN {p.mask} ELSE {}) = (IF r.mask # 64 THEN {r.mask} ELSE {})
      BY DEF SetupId
    <3> QED BY <3>1
  <2>4. p.kh = r.kh
    <3>1. (IF request_magic(p) = "RNQ2" THEN {p.kh} ELSE {})
            = (IF request_magic(r) = "RNQ2" THEN {r.kh} ELSE {})
      BY DEF SetupId
    <3>2. p.kh = p.pack.qbits <=> request_magic(p) # "RNQ2"
      BY <2>1 DEF request_magic, Certified
    <3>3. r.kh = r.pack.qbits <=> request_magic(r) # "RNQ2"
      BY <2>1 DEF request_magic, Certified
    <3> QED BY <2>2, <3>1, <3>2, <3>3
  <2> QED BY <2>1, <2>2, <2>3, <2>4 DEF Profile
<1> QED BY <1>1, ProfileInductive, PTL

-----------------------------------------------------------------------------
(* Sessions implement Retrieval for any number of replicas, profiles,         *)
(* snapshots and requests.                                                    *)

(* Everything that carries a setup identifier was produced under that setup. *)
Bound ==
    /\ \A pub \in published : pub.masks = pub.id
    /\ \A pre \in prepared : pre.masks = pre.id
    /\ \A resp \in responses : resp.body = resp.id
OneRequest == \A q \in Queries : \A x, y \in request[q] : x = y

SessionInv == TypeOK /\ Bound /\ OneRequest /\ DecodedRowIsRequested

LEMMA DecryptsRow ==
    ASSUME SessionInv, NEW q \in Queries, NEW rq \in request[q], NEW resp \in responses,
           NEW masks, masks = rq.setup, ResponseAccepted(q, rq, resp)
    PROVE  Decrypt(q, rq, masks, resp) = <<rq.setup.snapshot, rq.row>>
  BY DEF SessionInv, Bound, ResponseAccepted, Decrypt

LEMMA RowIsValue ==
    ASSUME TypeOK, NEW q \in Queries, NEW rq \in request[q]
    PROVE  <<rq.setup.snapshot, rq.row>> \in Value
<1>1. rq \in Request
  BY DEF TypeOK
<1> QED BY <1>1 DEF Request, Setup, Value

(* A decode call that passes the checks returns the requested row. *)
LEMMA DecodeReturnsRow ==
    ASSUME SessionInv, NEW q \in Queries, decode(q) \/ decode_prepared(q)
    PROVE  \E rq \in request[q] : Returned(q, <<rq.setup.snapshot, rq.row>>)
<1>1. CASE decode(q)
  <2> PICK rq \in request[q], pub \in published, resp \in responses :
             /\ MasksAccepted(rq, pub)
             /\ ResponseAccepted(q, rq, resp)
             /\ Returned(q, Decrypt(q, rq, pub.masks, resp))
    BY <1>1 DEF decode
  <2>1. pub.masks = rq.setup
    BY DEF SessionInv, Bound, MasksAccepted
  <2> QED BY <2>1, DecryptsRow
<1>2. CASE decode_prepared(q)
  <2> PICK rq \in request[q], pre \in prepared, resp \in responses :
             /\ PreparedAccepted(rq, pre)
             /\ ResponseAccepted(q, rq, resp)
             /\ Returned(q, Decrypt(q, rq, pre.masks, resp))
    BY <1>2 DEF decode_prepared
  <2>1. pre.masks = rq.setup
    BY DEF SessionInv, Bound, PreparedAccepted
  <2> QED BY <2>1, DecryptsRow
<1> QED BY <1>1, <1>2

LEMMA SessionInductive == Spec => []SessionInv
<1>1. Init => SessionInv
  BY DEF Init, SessionInv, TypeOK, Bound, OneRequest, DecodedRowIsRequested
<1>2. SessionInv /\ [Next]_vars => SessionInv'
  <2> SUFFICES ASSUME SessionInv, [Next]_vars PROVE SessionInv'
    OBVIOUS
  <2>1. ASSUME NEW r \in Replicas, build(r) PROVE SessionInv'
    BY <2>1 DEF build, SessionInv, TypeOK, Bound, OneRequest, DecodedRowIsRequested
  <2>2. ASSUME NEW r \in Replicas, Stop(r) PROVE SessionInv'
    BY <2>2 DEF Stop, SessionInv, TypeOK, Bound, OneRequest, DecodedRowIsRequested
  <2>3. ASSUME NEW r \in Replicas, from_bytes(r) PROVE SessionInv'
    BY <2>3 DEF from_bytes, Published, SessionInv, TypeOK, Bound, OneRequest,
                DecodedRowIsRequested
  <2>4. CASE prepare
    <3> PICK pub \in published, s \in Setup :
               /\ pub.id = s
               /\ prepared' = prepared \union
                    {[id |-> pub.id, profile |-> s.profile, masks |-> pub.masks]}
               /\ UNCHANGED <<serving, published, request, responses, outcome>>
      BY <2>4 DEF prepare
    <3>1. pub \in Published /\ pub.masks = pub.id /\ s.profile \in Profiles
      BY DEF SessionInv, TypeOK, Bound, Setup
    <3>2. [id |-> pub.id, profile |-> s.profile, masks |-> pub.masks] \in Prepared
      BY <3>1 DEF Published, Prepared
    <3>3. TypeOK'
      BY <3>2 DEF SessionInv, TypeOK
    <3>4. Bound'
      BY <3>1 DEF SessionInv, Bound
    <3> QED BY <3>3, <3>4 DEF SessionInv, OneRequest, DecodedRowIsRequested
  <2>5. ASSUME NEW q \in Queries, generate(q) PROVE SessionInv'
    <3> PICK s \in Setup, target \in Rows :
               /\ request[q] = {}
               /\ request' = [request EXCEPT ![q] =
                      {[setup |-> s, row |-> target, decoding |-> {}]}]
               /\ UNCHANGED <<serving, published, prepared, responses, outcome>>
      BY <2>5 DEF generate
    <3>1. [setup |-> s, row |-> target, decoding |-> {}] \in Request
      BY DEF Request
    <3>2. TypeOK'
      BY <3>1 DEF SessionInv, TypeOK
    <3>3. OneRequest'
      BY DEF SessionInv, TypeOK, OneRequest
    <3>4. DecodedRowIsRequested'
      BY DEF SessionInv, TypeOK, DecodedRowIsRequested
    <3> QED BY <3>2, <3>3, <3>4 DEF SessionInv, Bound
  <2>6. ASSUME NEW q \in Queries, prepare_decode(q) PROVE SessionInv'
    <3> PICK rq \in request[q], pre \in prepared :
               /\ pre.id = rq.setup
               /\ request' = [request EXCEPT ![q] =
                                 {[rq EXCEPT !.decoding = {pre.masks}]}]
               /\ UNCHANGED <<serving, published, prepared, responses, outcome>>
      BY <2>6 DEF prepare_decode
    <3> DEFINE fresh == [rq EXCEPT !.decoding = {pre.masks}]
    <3>1. /\ rq \in Request /\ fresh \in Request
          /\ fresh.setup = rq.setup /\ fresh.row = rq.row
      BY DEF SessionInv, TypeOK, Request, Prepared
    <3>2. TypeOK'
      BY <3>1 DEF SessionInv, TypeOK
    <3>3. OneRequest'
      BY DEF SessionInv, TypeOK, OneRequest
    <3>4. DecodedRowIsRequested'
      <4> SUFFICES ASSUME NEW c \in Queries, NEW value \in outcome[c]
                   PROVE  \E x \in request'[c] : value = <<x.setup.snapshot, x.row>>
        BY DEF DecodedRowIsRequested
      <4> PICK x \in request[c] : value = <<x.setup.snapshot, x.row>>
        BY DEF SessionInv, DecodedRowIsRequested
      <4>1. CASE c = q
        <5>1. x = rq /\ fresh \in request'[c]
          BY <4>1 DEF SessionInv, TypeOK, OneRequest
        <5> QED BY <3>1, <5>1
      <4>2. CASE c # q
        BY <4>2 DEF SessionInv, TypeOK
      <4> QED BY <4>1, <4>2
    <3> QED BY <3>2, <3>3, <3>4 DEF SessionInv, Bound
  <2>7. ASSUME NEW r \in Replicas, NEW q \in Queries, respond(r, q) PROVE SessionInv'
    <3> PICK evaluator \in serving[r] :
               /\ responses' = responses \union
                    {[magic |-> response_magic(evaluator.profile), id |-> evaluator,
                      query |-> q, body |-> evaluator]}
               /\ UNCHANGED <<serving, published, prepared, request, outcome>>
      BY <2>7 DEF respond
    <3>1. [magic |-> response_magic(evaluator.profile), id |-> evaluator,
           query |-> q, body |-> evaluator] \in Response
      BY DEF SessionInv, TypeOK, Response, response_magic
    <3>2. TypeOK'
      BY <3>1 DEF SessionInv, TypeOK
    <3>3. Bound'
      BY DEF SessionInv, Bound
    <3> QED BY <3>2, <3>3 DEF SessionInv, OneRequest, DecodedRowIsRequested
  <2>8. ASSUME NEW q \in Queries, decode(q) \/ decode_prepared(q) PROVE SessionInv'
    <3> PICK rq \in request[q] : Returned(q, <<rq.setup.snapshot, rq.row>>)
      BY <2>8, DecodeReturnsRow
    <3>1. TypeOK'
      BY RowIsValue DEF SessionInv, TypeOK, Returned
    <3>2. DecodedRowIsRequested'
      BY DEF SessionInv, TypeOK, Returned, DecodedRowIsRequested
    <3> QED BY <3>1, <3>2 DEF SessionInv, Returned, Bound, OneRequest
  <2>9. CASE UNCHANGED vars
    BY <2>9 DEF vars, SessionInv, TypeOK, Bound, OneRequest, DecodedRowIsRequested
  <2> QED BY <2>1, <2>2, <2>3, <2>4, <2>5, <2>6, <2>7, <2>8, <2>9 DEF Next
<1> QED BY <1>1, <1>2, PTL DEF Spec

(* A decode call that succeeds returns the requested row, whatever objects    *)
(* the application mixed and however replicas were rebuilt.                   *)
THEOREM DecodesRequestedRow == Spec => [](TypeOK /\ DecodedRowIsRequested)
  BY SessionInductive, PTL DEF SessionInv

(* The session implements the abstract retrieval specification. *)
THEOREM ImplementsRetrieval == Spec => RetrievalSpec
<1> DEFINE wanted(rq) == <<rq.setup.snapshot, rq.row>>
           asked == [q \in Queries |-> {wanted(rq) : rq \in request[q]}]
<1>1. Init => Abstract!Init
  BY DEF Init, Abstract!Init
<1>2. SessionInv /\ [Next]_vars => [Abstract!Next]_(Abstract!vars)
  <2> SUFFICES ASSUME SessionInv, [Next]_vars PROVE [Abstract!Next]_(Abstract!vars)
    OBVIOUS
  <2>1. CASE UNCHANGED <<request, outcome>>
    BY <2>1 DEF Abstract!vars
  <2>2. ASSUME NEW q \in Queries, generate(q) PROVE Abstract!Ask(q)
    <3> PICK s \in Setup, target \in Rows :
               /\ request[q] = {}
               /\ request' = [request EXCEPT ![q] =
                      {[setup |-> s, row |-> target, decoding |-> {}]}]
               /\ UNCHANGED outcome
      BY <2>2 DEF generate
    <3>1. s.snapshot \in Snapshots
      BY DEF Setup
    <3>2. asked[q] = {}
      OBVIOUS
    <3>3. asked' = [asked EXCEPT ![q] = {<<s.snapshot, target>>}]
      <4> DEFINE fresh == [setup |-> s, row |-> target, decoding |-> {}]
      <4>1. asked'[q] = {<<s.snapshot, target>>}
        <5>1. request'[q] = {fresh}
          BY DEF SessionInv, TypeOK
        <5>2. wanted(fresh) = <<s.snapshot, target>>
          OBVIOUS
        <5> QED BY <5>1, <5>2
      <4>2. ASSUME NEW c \in Queries, c # q PROVE asked'[c] = asked[c]
        <5>1. request'[c] = request[c]
          BY <4>2 DEF SessionInv, TypeOK
        <5> QED BY <5>1
      <4> QED BY <4>1, <4>2
    <3> QED BY <3>1, <3>2, <3>3 DEF Abstract!Ask
  <2>3. ASSUME NEW q \in Queries, prepare_decode(q) PROVE UNCHANGED Abstract!vars
    <3> PICK rq \in request[q], pre \in prepared :
               /\ request' = [request EXCEPT ![q] =
                                 {[rq EXCEPT !.decoding = {pre.masks}]}]
               /\ UNCHANGED outcome
      BY <2>3 DEF prepare_decode
    <3> DEFINE fresh == [rq EXCEPT !.decoding = {pre.masks}]
    <3>1. rq \in Request /\ wanted(fresh) = wanted(rq)
      BY DEF SessionInv, TypeOK, Request
    <3>2. request[q] = {rq}
      BY DEF SessionInv, OneRequest
    <3>3. asked' = asked
      <4> SUFFICES ASSUME NEW c \in Queries PROVE asked'[c] = asked[c]
        OBVIOUS
      <4>1. CASE c = q
        BY <3>1, <3>2, <4>1 DEF SessionInv, TypeOK
      <4>2. CASE c # q
        BY <4>2 DEF SessionInv, TypeOK
      <4> QED BY <4>1, <4>2
    <3> QED BY <3>3 DEF Abstract!vars
  <2>4. ASSUME NEW q \in Queries, decode(q) \/ decode_prepared(q)
        PROVE  Abstract!Answer(q)
    <3> PICK rq \in request[q] : Returned(q, wanted(rq))
      BY <2>4, DecodeReturnsRow
    <3>1. request[q] = {rq}
      BY DEF SessionInv, OneRequest
    <3>2. asked[q] = {wanted(rq)}
      BY <3>1
    <3>3. outcome[q] \subseteq {wanted(rq)}
      BY <3>1 DEF SessionInv, DecodedRowIsRequested
    <3>4. outcome' = [outcome EXCEPT ![q] = {wanted(rq)}]
      BY <3>3 DEF Returned
    <3>5. asked' = asked
      BY DEF Returned
    <3> QED BY <3>2, <3>4, <3>5 DEF Abstract!Answer
  <2> QED
    BY <2>1, <2>2, <2>3, <2>4
       DEF Next, vars, build, Stop, from_bytes, prepare, respond, Abstract!Next
<1> QED BY <1>1, <1>2, SessionInductive, PTL DEF Spec, RetrievalSpec, Abstract!Spec

-----------------------------------------------------------------------------
(* Rejection sampling *)

(* The words that give a residue follow each other from the first one on whose *)
(* product with the bound reaches it, as many as the bound fits into its zone. *)
Kept(bound) == 2^leading_zeros(bound)
First(bound, r) == (r * Word + (bound - 1)) \div bound

(* The words below w that give residue r. *)
Taken(bound, r, w) ==
    IF w <= First(bound, r) THEN 0
    ELSE IF w <= First(bound, r) + Kept(bound) THEN w - First(bound, r) ELSE Kept(bound)

Drawing == \E bound \in Bounds :
    /\ task = [bound |-> bound]
    /\ word \in 0..Word
    /\ tally = [r \in 0..(bound - 1) |-> Taken(bound, r, word)]

(* The sum of what the first w words round to: down, and up in the first words *)
(* of every run of Low(c).                                                     *)
Low(c) == 2^Shift(c.q, c.bits)
Least(x, y) == IF x <= y THEN x ELSE y
Lifted(c, w) ==
    Low(c) * (w * (c.x \div Low(c)) + ((w \div Low(c)) * (c.x % Low(c)) + Least(w % Low(c), c.x % Low(c))))

Dithering == \E c \in Ditherings :
    /\ task = [round |-> c]
    /\ word \in 0..Word
    /\ tally = <<Lifted(c, word)>>

SInv == Drawing \/ Dithering

-----------------------------------------------------------------------------
LEMMA WordIsNat == Word \in Nat /\ Word > 0
BY SamplingConstants, PowerPositive DEF Word

(* The width of a positive number. *)
LEMMA BitsOf ==
    ASSUME NEW x \in Nat, x > 0
    PROVE  LET k == modulus_bits(x + 1)
           IN  k \in 1..(x + 1) /\ 2^(k - 1) <= x /\ x < 2 * 2^(k - 1)
<1> DEFINE k == modulus_bits(x + 1)
<1>1. \E n \in 1..(x + 1) : ((x + 1) - 1) \div 2^(n - 1) = 1
  <2>1. PICK n \in 1..x : 2^(n - 1) <= x /\ x < 2^n
    BY HighestBit
  <2>2. n - 1 \in Nat /\ (n - 1) + 1 = n
    OBVIOUS
  <2>3. 2^n = 2 * 2^(n - 1) /\ 2^(n - 1) \in Nat /\ 2^(n - 1) > 0
    BY <2>2, PowerDoubles, PowerPositive
  <2> DEFINE p == 2^(n - 1)
  <2>4. p \in Nat /\ p > 0 /\ p <= x /\ x < 2 * p
    BY <2>1, <2>3
  <2> HIDE DEF p
  <2>5. x - p \in 0..(p - 1) /\ 1 * p + (x - p) = x
    BY <2>4
  <2>6. x \div p = 1
    BY <2>4, <2>5, ModUnique
  <2>7. n \in 1..(x + 1) /\ (x + 1) - 1 = x
    OBVIOUS
  <2> QED BY <2>6, <2>7 DEF p
<1>2. k \in 1..(x + 1) /\ ((x + 1) - 1) \div 2^(k - 1) = 1
  BY <1>1, Zenon DEF modulus_bits
<1> DEFINE p == 2^(k - 1)
<1> HIDE DEF k
<1>3. k - 1 \in Nat
  BY <1>2
<1>4. p \in Nat /\ p > 0
  BY <1>3, PowerPositive
<1>5. (x + 1) - 1 = x
  OBVIOUS
<1>6. x \div p = 1
  BY <1>2, <1>5
<1> HIDE DEF p
<1>7. x % p \in 0..(p - 1) /\ x = 1 * p + (x % p)
  BY <1>4, <1>6, Divided
<1>8. p <= x /\ x < 2 * p
  BY <1>4, <1>7
<1> QED BY <1>2, <1>8 DEF k, p

(* The zone of a bound is as large a multiple of it as a word holds, up to a  *)
(* factor of two.                                                             *)
LEMMA ZoneFits ==
    ASSUME NEW bound \in Bounds
    PROVE  /\ bound \in Nat /\ bound > 0 /\ Kept(bound) \in Nat /\ Kept(bound) > 0
           /\ bound * Kept(bound) \in Nat
           /\ bound * Kept(bound) <= Word /\ Word <= 2 * (bound * Kept(bound))
<1> DEFINE k == modulus_bits(bound + 1)
           p == 2^(k - 1)
           m == 2^(WordBits - k)
<1>1. bound \in Nat /\ bound > 0 /\ bound < Word
  BY SamplingConstants, WordIsNat DEF Word
<1>2. k \in 1..(bound + 1) /\ p <= bound /\ bound < 2 * p
  BY <1>1, BitsOf
<1> HIDE DEF k
<1>3. k - 1 \in Nat
  BY <1>2
<1>4. p \in Nat /\ p > 0
  BY <1>3, PowerPositive
<1>5. WordBits - k \in Nat
  <2>1. SUFFICES ASSUME WordBits <= k - 1 PROVE FALSE
    BY <1>2, <1>3, SamplingConstants
  <2>2. Word <= p
    BY <1>3, <2>1, PowerMonotone, SamplingConstants DEF Word
  <2> QED BY <1>1, <1>2, <1>4, <2>2, WordIsNat
<1>6. m \in Nat /\ m > 0
  BY <1>5, PowerPositive
<1>7. Word = 2 * (p * m)
  <2>1. (k - 1) + 1 = k /\ k + (WordBits - k) = WordBits /\ k \in Nat
    BY <1>2, SamplingConstants
  <2>2. 2^k = 2 * p
    BY <1>3, <2>1, PowerDoubles
  <2>3. Word = 2^k * m
    BY <1>5, <2>1, PowerSum DEF Word
  <2>4. (2 * p) * m = 2 * (p * m)
    BY <1>4, <1>6, SMT
  <2> QED BY <2>2, <2>3, <2>4
<1>8. Kept(bound) = m
  BY DEF Kept, leading_zeros, k
<1> HIDE DEF p, m
<1>9. p * m <= bound * m /\ bound * m <= (2 * p) * m
  BY <1>1, <1>2, <1>4, <1>6, ProductMonotone
<1>10. (2 * p) * m = 2 * (p * m) /\ p * m \in Nat /\ bound * m \in Nat
  BY <1>1, <1>4, <1>6, SMT
<1> QED BY <1>1, <1>6, <1>7, <1>8, <1>9, <1>10

(* The first word of a residue, and that all of its words come before the end. *)
LEMMA FirstFits ==
    ASSUME NEW bound \in Bounds, NEW r \in 0..(bound - 1)
    PROVE  /\ First(bound, r) \in Nat /\ r * Word \in Nat
           /\ First(bound, r) * bound \in Nat
           /\ r * Word <= First(bound, r) * bound
           /\ First(bound, r) * bound <= r * Word + (bound - 1)
           /\ First(bound, r) + Kept(bound) <= Word
<1> DEFINE a == r * Word
           n == a + (bound - 1)
           f == n \div bound
           s == n % bound
           K == Kept(bound)
<1>1. /\ bound \in Nat /\ bound > 0 /\ K \in Nat /\ bound * K \in Nat /\ bound * K <= Word
      /\ Word \in Nat
  BY ZoneFits, WordIsNat
<1>2. a \in Nat
  BY <1>1, ProductsAreNat
<1>3. a + Word <= bound * Word /\ bound * Word \in Nat
  <2>1. r + 1 <= bound /\ r + 1 \in Nat /\ r \in Nat
    BY <1>1
  <2>2. (r + 1) * Word <= bound * Word
    BY <1>1, <2>1, ProductMonotone
  <2>3. (r + 1) * Word = a + Word /\ bound * Word \in Nat
    BY <1>1, <2>1, SMT
  <2> QED BY <2>2, <2>3
<1> HIDE DEF a, K
<1>4. n \in Nat
  BY <1>1, <1>2
<1>5. f \in Nat /\ s \in 0..(bound - 1) /\ n = f * bound + s
  BY <1>1, <1>4, Divided
<1> HIDE DEF f, s
<1>6. f * bound \in Nat
  BY <1>1, <1>5, ProductsAreNat
<1>7. a <= f * bound /\ f * bound <= a + (bound - 1)
  BY <1>1, <1>2, <1>5, <1>6
<1>8. f + K <= Word
  <2>1. SUFFICES ASSUME Word + 1 <= f + K PROVE FALSE
    BY <1>1, <1>5
  <2>2. (Word + 1) * bound <= (f + K) * bound
    BY <1>1, <1>5, <2>1, ProductMonotone
  <2>3. (Word + 1) * bound = bound * Word + bound /\ (f + K) * bound = f * bound + bound * K
    BY <1>1, <1>5, SMT
  <2> QED BY <1>1, <1>2, <1>3, <1>6, <1>7, <2>2, <2>3
<1> QED BY <1>2, <1>5, <1>6, <1>7, <1>8 DEF f, a, K, First

(* A word gives a residue exactly when it is one of those. *)
LEMMA DrawnAtResidue ==
    ASSUME NEW bound \in Bounds, NEW r \in 0..(bound - 1), NEW w \in 0..(Word - 1)
    PROVE  Accepted(bound, w) /\ uniform_below(bound, w) = r
             <=> First(bound, r) <= w /\ w < First(bound, r) + Kept(bound)
<1> DEFINE p == w * bound
           a == r * Word
           f == First(bound, r)
           K == Kept(bound)
           d == p \div Word
           s == p % Word
<1>1. /\ bound \in Nat /\ bound > 0 /\ K \in Nat /\ bound * K \in Nat /\ bound * K <= Word
      /\ Word \in Nat /\ Word > 0 /\ w \in Nat /\ r \in Nat
  BY ZoneFits, WordIsNat
<1>2. f \in Nat /\ a \in Nat /\ f * bound \in Nat /\ a <= f * bound /\ f * bound <= a + (bound - 1)
  BY FirstFits
<1>3. p \in Nat
  BY <1>1, ProductsAreNat
<1> HIDE DEF p
<1>4. d \in Nat /\ s \in 0..(Word - 1) /\ p = d * Word + s
  BY <1>1, <1>3, Divided
<1> HIDE DEF f, K, a
<1>5. Accepted(bound, w) /\ uniform_below(bound, w) = r <=> s < bound * K /\ d = r
  <2>1. Accepted(bound, w) <=> s <= bound * K - 1
    BY DEF Accepted, zone, K, Kept, p
  <2>2. uniform_below(bound, w) = d
    BY DEF uniform_below, p
  <2> HIDE DEF s, d
  <2> QED BY <1>1, <1>4, <2>1, <2>2
<1>6. ASSUME s < bound * K, d = r PROVE f <= w /\ w < f + K
  <2>1. p = a + s
    BY <1>4, <1>6 DEF a
  <2> HIDE DEF s, d
  <2>2. ~ (w + 1 <= f)
    <3>1. SUFFICES ASSUME w + 1 <= f PROVE FALSE
      OBVIOUS
    <3>2. (w + 1) * bound <= f * bound
      BY <1>1, <1>2, <3>1, ProductMonotone
    <3>3. (w + 1) * bound = p + bound
      BY <1>1, SMT DEF p
    <3> QED BY <1>1, <1>2, <1>3, <1>4, <2>1, <3>2, <3>3
  <2>3. ~ (f + K <= w)
    <3>1. SUFFICES ASSUME f + K <= w PROVE FALSE
      OBVIOUS
    <3>2. (f + K) * bound <= p
      BY <1>1, <1>2, <3>1, ProductMonotone DEF p
    <3>3. (f + K) * bound = f * bound + bound * K
      BY <1>1, <1>2, SMT
    <3> QED BY <1>1, <1>2, <1>3, <1>4, <1>6, <2>1, <3>2, <3>3
  <2> QED BY <1>1, <1>2, <2>2, <2>3
<1>7. ASSUME f <= w, w < f + K PROVE s < bound * K /\ d = r
  <2>1. f * bound <= p
    BY <1>1, <1>2, <1>7, ProductMonotone DEF p
  <2>2. (w + 1) * bound <= (f + K) * bound
    BY <1>1, <1>2, <1>7, ProductMonotone
  <2>3. (w + 1) * bound = p + bound /\ (f + K) * bound = f * bound + bound * K
    BY <1>1, <1>2, SMT DEF p
  <2> DEFINE e == p - a
  <2>4. e \in 0..(Word - 1) /\ e < bound * K /\ p = a + e
    <3> HIDE DEF s, d
    <3> QED BY <1>1, <1>2, <1>3, <2>1, <2>2, <2>3
  <2> HIDE DEF e
  <2>5. (r * Word + e) % Word = e /\ (r * Word + e) \div Word = r
    BY <1>1, <2>4, ModUnique
  <2>6. s = e /\ d = r
    BY <2>4, <2>5 DEF a
  <2> QED BY <2>4, <2>6
<1> QED BY <1>5, <1>6, <1>7 DEF f, K

LEMMA TakenNext ==
    ASSUME NEW bound \in Bounds, NEW r \in 0..(bound - 1), NEW w \in 0..(Word - 1)
    PROVE  Taken(bound, r, w + 1) =
             IF Accepted(bound, w) /\ uniform_below(bound, w) = r
             THEN Taken(bound, r, w) + 1 ELSE Taken(bound, r, w)
<1> DEFINE f == First(bound, r)
           K == Kept(bound)
           hit == Accepted(bound, w) /\ uniform_below(bound, w) = r
<1>1. hit <=> f <= w /\ w < f + K
  BY DrawnAtResidue
<1>2. f \in Nat /\ K \in Nat /\ K > 0 /\ w \in Nat
  BY FirstFits, ZoneFits, WordIsNat
<1>3. \A n : Taken(bound, r, n) = IF n <= f THEN 0 ELSE IF n <= f + K THEN n - f ELSE K
  BY DEF Taken
<1> HIDE DEF f, K, hit
<1>4. Taken(bound, r, w + 1) = IF hit THEN Taken(bound, r, w) + 1 ELSE Taken(bound, r, w)
  BY <1>1, <1>2, <1>3
<1> QED BY <1>4 DEF hit

-----------------------------------------------------------------------------
(* Dithered rounding *)

(* The modulus and the range of a word are multiples of what is rounded away. *)
LEMMA LowFits ==
    ASSUME NEW c \in Ditherings
    PROVE  /\ Low(c) \in Nat /\ Low(c) > 0 /\ c.q \in Nat /\ c.x \in 0..(c.q - 1)
           /\ 2^c.bits \in Nat /\ 2^c.bits > 1 /\ c.q = 2^c.bits * Low(c)
           /\ \E m \in Nat : Word = m * Low(c)
<1>1. PICK k \in 1..c.q : c.q = 2^k /\ c.bits \in 1..k /\ k - c.bits <= WordBits
  BY SamplingConstants
<1> DEFINE n == modulus_bits(c.q)
           h == k - c.bits
<1>2. c.x \in 0..(c.q - 1)
  BY SamplingConstants
<1>3. k \in Nat /\ k > 0 /\ k - 1 \in Nat /\ (k - 1) + 1 = k /\ c.bits \in Nat /\ c.bits > 0
      /\ h \in Nat /\ c.bits + h = k
  BY <1>1
<1>4. c.q \in Nat /\ c.q = 2 * 2^(k - 1) /\ 2^(k - 1) \in Nat /\ 2^(k - 1) > 0
  BY <1>1, <1>3, PowerDoubles, PowerPositive
<1>5. n \in 1..c.q /\ 2^(n - 1) <= c.q - 1 /\ c.q - 1 < 2 * 2^(n - 1)
  <2>1. c.q - 1 \in Nat /\ c.q - 1 > 0 /\ (c.q - 1) + 1 = c.q
    BY <1>4
  <2> QED BY <2>1, BitsOf
<1> HIDE DEF n
<1>6. n - 1 \in Nat /\ n \in Nat /\ (n - 1) + 1 = n
  BY <1>5
<1>7. 2^n = 2 * 2^(n - 1) /\ 2^(n - 1) \in Nat
  BY <1>6, PowerDoubles
<1>8. ~ (k <= n - 1)
  <2>1. SUFFICES ASSUME k <= n - 1 PROVE FALSE
    OBVIOUS
  <2>2. 2^k <= 2^(n - 1)
    BY <1>3, <1>6, <2>1, PowerMonotone
  <2> QED BY <1>1, <1>4, <1>5, <1>7, <2>2
<1>9. ~ (n <= k - 1)
  <2>1. SUFFICES ASSUME n <= k - 1 PROVE FALSE
    OBVIOUS
  <2>2. 2^n <= 2^(k - 1)
    BY <1>3, <1>6, <2>1, PowerMonotone
  <2> QED BY <1>4, <1>5, <1>7, <2>2
<1>10. n = k
  BY <1>3, <1>6, <1>8, <1>9
<1>11. Low(c) = 2^h
  BY <1>10 DEF Low, Shift, n
<1> HIDE DEF h
<1>12. 2^h \in Nat /\ 2^h > 0 /\ 2^c.bits \in Nat /\ 2^c.bits > 1
  BY <1>3, PowerPositive
<1>13. c.q = 2^c.bits * 2^h
  BY <1>1, <1>3, PowerSum
<1>14. \E m \in Nat : Word = m * 2^h
  <2> DEFINE j == WordBits - h
  <2>1. j \in Nat /\ j + h = WordBits
    BY <1>1, <1>3, SamplingConstants DEF h
  <2> HIDE DEF j
  <2>2. Word = 2^j * 2^h /\ 2^j \in Nat
    BY <1>3, <2>1, PowerSum, PowerPositive DEF Word
  <2> QED BY <2>2
<1> QED BY <1>2, <1>4, <1>11, <1>12, <1>13, <1>14

(* The value a draw adds: the coefficient rounded down, or up. *)
Added(c, w) == Low(c) * ((c.x \div Low(c)) + (IF w % Low(c) < c.x % Low(c) THEN 1 ELSE 0))

LEMMA DrawAdds ==
    ASSUME NEW c \in Ditherings, NEW w
    PROVE  LET lifted == up(down_dithered(c.x, c.q, c.bits, w), c.q, c.bits)
           IN  (IF lifted = 0 /\ c.x >= 2^Shift(c.q, c.bits) THEN c.q ELSE lifted) = Added(c, w)
<1> DEFINE L == Low(c)
           B == 2^c.bits
           y == c.x \div L
           z == c.x % L
           e == IF w % L < z THEN 1 ELSE 0
           lifted == up(down_dithered(c.x, c.q, c.bits, w), c.q, c.bits)
<1>1. /\ L \in Nat /\ L > 0 /\ c.q \in Nat /\ c.x \in 0..(c.q - 1)
      /\ B \in Nat /\ B > 1 /\ c.q = B * L
  BY LowFits
<1>2. c.x \in Nat
  BY <1>1
<1>3. y \in Nat /\ z \in 0..(L - 1) /\ c.x = y * L + z
  BY <1>1, <1>2, Divided
<1>4. e \in {0, 1}
  OBVIOUS
<1>5. lifted = ((y + e) % B) * L
  BY DEF up, down_dithered, Low
<1>6. c.x >= 2^Shift(c.q, c.bits) <=> c.x >= L
  BY DEF Low
<1>7. Added(c, w) = L * (y + e)
  BY DEF Added
<1> HIDE DEF L, B, y, z, e, lifted
<1>8. y * L \in Nat
  BY <1>1, <1>3, ProductsAreNat
<1>9. y + 1 <= B
  <2>1. SUFFICES ASSUME B <= y PROVE FALSE
    BY <1>1, <1>3
  <2>2. B * L <= y * L
    BY <1>1, <1>3, <2>1, ProductMonotone
  <2> QED BY <1>1, <1>2, <1>3, <1>8, <2>2
<1>10. CASE y + e < B
  <2>1. y + e \in 0..(B - 1)
    BY <1>1, <1>3, <1>4, <1>10
  <2>2. (y + e) % B = y + e
    BY <1>1, <2>1, ModSmall
  <2>3. lifted = (y + e) * L /\ (y + e) * L = L * (y + e)
    BY <1>1, <1>5, <2>1, <2>2, SMT
  <2>4. ~ (lifted = 0 /\ c.x >= L)
    <3>1. SUFFICES ASSUME lifted = 0, c.x >= L PROVE FALSE
      OBVIOUS
    <3>2. y + e = 0
      <4>1. \A a, b \in Nat : a * b = 0 /\ b > 0 => a = 0
        BY SMT
      <4>2. y + e \in Nat
        BY <2>1, <1>1
      <4> QED BY <1>1, <2>3, <3>1, <4>1, <4>2
    <3>3. y = 0
      BY <1>3, <1>4, <3>2
    <3>4. y * L = 0
      BY <1>1, <3>3
    <3> QED BY <1>1, <1>3, <3>1, <3>4
  <2> QED BY <1>6, <1>7, <2>3, <2>4 DEF lifted
<1>11. CASE y + e = B
  <2>1. 1 * B + 0 = B /\ 0 \in 0..(B - 1)
    BY <1>1
  <2>2. (y + e) % B = 0
    BY <1>1, <1>11, <2>1, ModUnique
  <2>3. lifted = 0
    BY <1>1, <1>5, <2>2
  <2>4. y >= 1
    BY <1>1, <1>3, <1>4, <1>11
  <2>5. 1 * L <= y * L
    BY <1>1, <1>3, <2>4, ProductMonotone
  <2>6. c.x >= L
    BY <1>1, <1>3, <1>8, <2>5
  <2>7. B * L = L * B
    BY <1>1, SMT
  <2> QED BY <1>1, <1>6, <1>7, <1>11, <2>3, <2>6, <2>7 DEF lifted
<1> QED BY <1>1, <1>3, <1>4, <1>9, <1>10, <1>11

LEMMA LiftedNext ==
    ASSUME NEW c \in Ditherings, NEW w \in Nat
    PROVE  Lifted(c, w + 1) = Lifted(c, w) + Added(c, w)
<1> DEFINE L == Low(c)
           y == c.x \div L
           z == c.x % L
           d == w \div L
           s == w % L
           e == IF s < z THEN 1 ELSE 0
           N(v) == (v \div L) * z + Least(v % L, z)
<1>1. L \in Nat /\ L > 0 /\ c.x \in Nat
  BY LowFits
<1>2. y \in Nat /\ z \in 0..(L - 1)
  BY <1>1, Divided
<1>3. d \in Nat /\ s \in 0..(L - 1) /\ w = d * L + s
  BY <1>1, Divided
<1>4. /\ Lifted(c, w + 1) = L * ((w + 1) * y + N(w + 1))
      /\ Lifted(c, w) = L * (w * y + N(w))
      /\ Added(c, w) = L * (y + e)
  BY DEF Lifted, Added
<1>5. N(w) = d * z + Least(s, z)
  OBVIOUS
<1>6. N(w + 1) = N(w) + e /\ N(w) \in Nat
  <2>1. N(w + 1) = ((w + 1) \div L) * z + Least((w + 1) % L, z)
    OBVIOUS
  <2> HIDE DEF L, y, z, d, s, N
  <2>2. d * z \in Nat /\ (d + 1) * z = d * z + z /\ (d + 1) * L = d * L + L /\ d * L \in Nat
    BY <1>1, <1>2, <1>3, SMT
  <2>3. CASE s + 1 < L
    <3>1. s + 1 \in 0..(L - 1) /\ w + 1 = d * L + (s + 1)
      BY <1>1, <1>3, <2>2, <2>3
    <3>2. (w + 1) \div L = d /\ (w + 1) % L = s + 1
      BY <1>1, <1>3, <3>1, ModUnique
    <3>3. Least(s + 1, z) = Least(s, z) + e /\ Least(s, z) \in Nat
      BY <1>1, <1>2, <1>3 DEF Least
    <3> HIDE DEF e
    <3>4. e \in {0, 1}
      BY DEF e
    <3> QED BY <1>5, <2>1, <2>2, <3>2, <3>3, <3>4
  <2>4. CASE s + 1 = L
    <3>1. 0 \in 0..(L - 1) /\ w + 1 = (d + 1) * L + 0 /\ d + 1 \in Nat
      BY <1>1, <1>3, <2>2, <2>4
    <3>2. (w + 1) \div L = d + 1 /\ (w + 1) % L = 0
      BY <1>1, <3>1, ModUnique
    <3>3. Least(0, z) = 0 /\ Least(s, z) = z /\ e = 0 /\ z \in Nat
      BY <1>1, <1>2, <1>3, <2>4 DEF Least
    <3> HIDE DEF e
    <3> QED BY <1>5, <2>1, <2>2, <3>2, <3>3
  <2> QED BY <1>1, <1>3, <2>3, <2>4
<1>7. e \in {0, 1}
  OBVIOUS
<1> DEFINE n == N(w)
<1>8. n \in Nat /\ N(w + 1) = n + e
  BY <1>6
<1> HIDE DEF L, y, z, d, s, e, N, n
<1>9. L * ((w + 1) * y + (n + e)) = L * (w * y + n) + L * (y + e)
  <2>1. e \in Nat
    BY <1>7
  <2>2. (w + 1) * y = w * y + y /\ w * y \in Nat
    BY <1>2, SMT
  <2>3. (w + 1) * y + (n + e) = (w * y + n) + (y + e) /\ w * y + n \in Nat /\ y + e \in Nat
    BY <1>2, <1>8, <2>1, <2>2
  <2>4. \A a, b \in Nat : L * (a + b) = L * a + L * b
    BY <1>1, SMT
  <2> QED BY <2>3, <2>4
<1> QED BY <1>4, <1>8, <1>9 DEF n

LEMMA LiftedEnds ==
    ASSUME NEW c \in Ditherings
    PROVE  Lifted(c, 0) = 0 /\ Lifted(c, Word) = c.x * Word
<1> DEFINE L == Low(c)
           y == c.x \div L
           z == c.x % L
<1>1. L \in Nat /\ L > 0 /\ c.x \in Nat
  BY LowFits
<1>2. y \in Nat /\ z \in 0..(L - 1) /\ c.x = y * L + z
  BY <1>1, Divided
<1>3. PICK m \in Nat : Word = m * L
  BY LowFits
<1>4. \A v : Lifted(c, v) = L * (v * y + ((v \div L) * z + Least(v % L, z)))
  BY DEF Lifted
<1> HIDE DEF L, y, z
<1>5. 0 \in 0..(L - 1) /\ m * L + 0 = Word /\ 0 * L + 0 = 0
  <2>1. m * L \in Nat
    BY <1>1, ProductsAreNat
  <2> QED BY <1>1, <1>3, <2>1
<1>6. Word \div L = m /\ Word % L = 0 /\ 0 \div L = 0 /\ 0 % L = 0
  BY <1>1, <1>5, ModUnique
<1>7. Least(0, z) = 0 /\ z \in Nat
  BY <1>1, <1>2 DEF Least
<1>8. Lifted(c, 0) = 0
  <2>1. Lifted(c, 0) = L * (0 * y + (0 * z + 0))
    BY <1>4, <1>6, <1>7
  <2> QED BY <1>1, <1>2, <1>7, <2>1
<1>9. Lifted(c, Word) = L * (Word * y + (m * z + 0))
  BY <1>4, <1>6, <1>7
<1>10. L * (Word * y + (m * z + 0)) = c.x * Word
  <2>1. m * z \in Nat /\ Word * y \in Nat /\ Word \in Nat
    BY <1>2, <1>7, ProductsAreNat, WordIsNat
  <2>2. L * (Word * y + m * z) = L * (Word * y) + L * (m * z)
    BY <1>1, <2>1, SMT
  <2>3. L * (Word * y) = (y * L) * Word
    BY <1>1, <1>2, <2>1, SMT
  <2>4. L * (m * z) = z * (m * L)
    BY <1>1, <1>7, SMT
  <2>5. (y * L + z) * Word = (y * L) * Word + z * Word
    BY <1>1, <1>2, <1>7, <2>1, SMT
  <2>6. m * z + 0 = m * z
    BY <2>1
  <2> QED BY <1>2, <1>3, <2>2, <2>3, <2>4, <2>5, <2>6
<1> QED BY <1>8, <1>9, <1>10

-----------------------------------------------------------------------------
LEMMA SamplerStarts == SampleInit => SInv
<1> SUFFICES ASSUME SampleInit PROVE SInv
  OBVIOUS
<1>1. word = 0 /\ 0 \in 0..Word
  BY WordIsNat DEF SampleInit
<1>2. ASSUME NEW bound \in Bounds, task = [bound |-> bound], tally = [r \in 0..(bound - 1) |-> 0]
      PROVE  Drawing
  <2>1. ASSUME NEW r \in 0..(bound - 1) PROVE Taken(bound, r, 0) = 0
    BY FirstFits DEF Taken
  <2>2. tally = [r \in 0..(bound - 1) |-> Taken(bound, r, word)]
    BY <1>1, <1>2, <2>1
  <2> QED BY <1>1, <1>2, <2>2 DEF Drawing
<1>3. ASSUME NEW c \in Ditherings, task = [round |-> c], tally = << 0 >>
      PROVE  Dithering
  BY <1>1, <1>3, LiftedEnds DEF Dithering
<1> QED BY <1>2, <1>3 DEF SampleInit, SInv

LEMMA DrawKeeps == ASSUME SInv, DrawBelow PROVE Drawing'
<1>1. word < Word /\ "bound" \in DOMAIN task /\ word' = word + 1 /\ task' = task
  BY DEF DrawBelow
<1>2. ~ Dithering
  BY <1>1 DEF Dithering
<1>3. PICK bound \in Bounds :
        /\ task = [bound |-> bound] /\ word \in 0..Word
        /\ tally = [r \in 0..(bound - 1) |-> Taken(bound, r, word)]
  BY <1>2 DEF SInv, Drawing
<1>4. word \in 0..(Word - 1) /\ word + 1 \in 0..Word
  BY <1>1, <1>3, WordIsNat
<1>5. task.bound = bound
  BY <1>3
<1>6. tally' = IF Accepted(bound, word)
               THEN [tally EXCEPT ![uniform_below(bound, word)] = @ + 1] ELSE tally
  BY <1>5 DEF DrawBelow
<1>7. ASSUME NEW r \in 0..(bound - 1) PROVE tally'[r] = Taken(bound, r, word + 1)
  <2>1. tally[r] = Taken(bound, r, word)
    BY <1>3
  <2>2. tally'[r] = IF Accepted(bound, word) /\ uniform_below(bound, word) = r
                    THEN tally[r] + 1 ELSE tally[r]
    BY <1>3, <1>6
  <2> QED BY <1>4, <2>1, <2>2, TakenNext
<1>8. tally' = [r \in 0..(bound - 1) |-> tally'[r]]
  BY <1>3, <1>6
<1>9. tally' = [r \in 0..(bound - 1) |-> Taken(bound, r, word')]
  BY <1>1, <1>7, <1>8
<1> QED BY <1>1, <1>3, <1>4, <1>9 DEF Drawing

LEMMA DitherKeeps == ASSUME SInv, DrawDither PROVE Dithering'
<1>1. word < Word /\ "round" \in DOMAIN task /\ word' = word + 1 /\ task' = task
  BY DEF DrawDither
<1>2. ~ Drawing
  BY <1>1 DEF Drawing
<1>3. PICK c \in Ditherings :
        task = [round |-> c] /\ word \in 0..Word /\ tally = <<Lifted(c, word)>>
  BY <1>2 DEF SInv, Dithering
<1>4. word \in Nat /\ word + 1 \in 0..Word
  BY <1>1, <1>3, WordIsNat
<1>5. task.round = c /\ tally[1] = Lifted(c, word)
  BY <1>3
<1> DEFINE lifted == up(down_dithered(c.x, c.q, c.bits, word), c.q, c.bits)
<1>6. tally' = <<tally[1] + (IF lifted = 0 /\ c.x >= 2^Shift(c.q, c.bits) THEN c.q ELSE lifted)>>
  BY <1>5, Zenon DEF DrawDither
<1>7. (IF lifted = 0 /\ c.x >= 2^Shift(c.q, c.bits) THEN c.q ELSE lifted) = Added(c, word)
  BY DrawAdds
<1> HIDE DEF lifted
<1>8. tally' = <<Lifted(c, word) + Added(c, word)>>
  BY <1>5, <1>6, <1>7
<1>9. tally' = <<Lifted(c, word')>>
  BY <1>1, <1>4, <1>8, LiftedNext
<1> QED BY <1>1, <1>3, <1>4, <1>9 DEF Dithering

LEMMA SamplerInvariant == SampleSpec => []SInv
<1>1. SInv /\ [SampleNext]_samplevars => SInv'
  <2> SUFFICES ASSUME SInv, [SampleNext]_samplevars PROVE SInv'
    OBVIOUS
  <2>1. CASE DrawBelow
    BY <2>1, DrawKeeps DEF SInv
  <2>2. CASE DrawDither
    BY <2>2, DitherKeeps DEF SInv
  <2>3. CASE UNCHANGED samplevars
    BY <2>3 DEF SInv, Drawing, Dithering, samplevars
  <2> QED BY <2>1, <2>2, <2>3 DEF SampleNext
<1> QED BY <1>1, SamplerStarts, PTL DEF SampleSpec

(* Over all words of the stream every residue below the bound is returned for *)
(* equally many of them, and at least half of the words are used, for every   *)
(* bound and word size.                                                       *)
THEOREM SamplersAreUniform == SampleSpec => []ExactlyUniform
<1>1. SInv => ExactlyUniform
  <2> SUFFICES ASSUME SInv, "bound" \in DOMAIN task, word = Word
               PROVE  /\ \A r \in DOMAIN tally : tally[r] = tally[0]
                      /\ 2 * tally[0] * task.bound >= Word
    BY DEF ExactlyUniform
  <2>1. ~ Dithering
    BY DEF Dithering
  <2>2. PICK bound \in Bounds :
          task = [bound |-> bound] /\ tally = [r \in 0..(bound - 1) |-> Taken(bound, r, Word)]
    BY <2>1 DEF SInv, Drawing
  <2>3. ASSUME NEW r \in 0..(bound - 1) PROVE tally[r] = Kept(bound)
    <3>1. Taken(bound, r, Word) = Kept(bound)
      BY FirstFits, ZoneFits, WordIsNat DEF Taken
    <3> QED BY <2>2, <3>1
  <2>4. 0 \in 0..(bound - 1) /\ DOMAIN tally = 0..(bound - 1) /\ task.bound = bound
    BY <2>2, ZoneFits
  <2>5. 2 * Kept(bound) * bound = 2 * (bound * Kept(bound))
    BY ZoneFits, SMT
  <2>6. 2 * tally[0] * task.bound >= Word
    BY <2>3, <2>4, <2>5, ZoneFits, WordIsNat
  <2> QED BY <2>3, <2>4, <2>6
<1> QED BY <1>1, SamplerInvariant, PTL

(* Over all words of the stream the dithered coefficient, lifted back, is the *)
(* coefficient on average, for every modulus, width and coefficient.          *)
THEOREM DitheringIsUnbiased == SampleSpec => []DitherUnbiased
<1>1. SInv => DitherUnbiased
  <2> SUFFICES ASSUME SInv, "round" \in DOMAIN task, word = Word
               PROVE  tally[1] = task.round.x * Word
    BY DEF DitherUnbiased
  <2>1. ~ Drawing
    BY DEF Drawing
  <2>2. PICK c \in Ditherings : task = [round |-> c] /\ tally = <<Lifted(c, Word)>>
    BY <2>1 DEF SInv, Dithering
  <2> QED BY <2>2, LiftedEnds
<1> QED BY <1>1, SamplerInvariant, PTL

-----------------------------------------------------------------------------
(* Kernels.  Sizes and words, digits, word kernels, lanes and chunks, layouts *)
(* and, last, the invariant of a kernel's steps.                              *)

LEMMA KernelSizes ==
    /\ DigitBits \in Nat /\ DigitBits >= 1 /\ LaneBits \in Nat /\ LaneBits >= 1
    /\ LowWordBits \in Nat /\ LowWordBits >= 2 /\ LowWordBits = 2 * (LowWordBits \div 2)
    /\ ChunkRows \in Nat /\ ChunkRows >= 1 /\ BandCols \in Nat /\ BandCols >= 1
    /\ ByteGroup \in Nat /\ ByteGroup >= 1
<1>1. /\ DigitBits \in Nat \ {0} /\ LaneBits \in Nat \ {0} /\ LowWordBits \in Nat \ {0}
      /\ ChunkRows \in Nat \ {0} /\ BandCols \in Nat \ {0} /\ ByteGroup \in Nat \ {0}
      /\ LowWordBits % 2 = 0
  BY KernelConstants
<1>2. LowWordBits = 2 * (LowWordBits \div 2) /\ LowWordBits >= 2
  BY <1>1
<1> QED BY <1>1, <1>2

LEMMA RadixFacts ==
    /\ Radix \in Nat /\ Radix >= 2 /\ Radix = 2 * (Radix \div 2) /\ Radix \div 2 \in Nat
    /\ Radix \div 2 >= 1 /\ Radix \div 2 = 2^(DigitBits - 1)
<1>1. DigitBits - 1 \in Nat /\ (DigitBits - 1) + 1 = DigitBits
  BY KernelSizes
<1> DEFINE h == 2^(DigitBits - 1)
<1>2. h \in Nat /\ h >= 1 /\ Radix = 2 * h
  <2>1. h \in Nat /\ h > DigitBits - 1
    BY <1>1, PowerPositive
  <2>2. 2^((DigitBits - 1) + 1) = 2 * h
    BY <1>1, PowerDoubles
  <2> HIDE DEF h
  <2> QED BY <1>1, <2>1, <2>2 DEF Radix
<1> HIDE DEF h
<1>3. Radix \div 2 = h
  BY <1>2
<1> QED BY <1>2, <1>3 DEF h

LEMMA WordFacts == 2^LowWordBits \in Nat /\ 2^LowWordBits > 0
  BY KernelSizes, PowerPositive

(* Reduction to a word keeps what a word's modulus divides. *)
LEMMA LowWordFacts ==
    ASSUME NEW x \in Int
    PROVE  LowWord(x) \in Nat /\ LowWord(x) \in Int /\ LowWord(x) < 2^LowWordBits /\ Same(LowWord(x), x, 2^LowWordBits)
<1>1. x % 2^LowWordBits \in 0..(2^LowWordBits - 1) /\ (x % 2^LowWordBits) % 2^LowWordBits = x % 2^LowWordBits
  BY WordFacts, ModTwice
<1>2. LowWord(x) \in Nat /\ LowWord(x) < 2^LowWordBits /\ LowWord(x) % 2^LowWordBits = x % 2^LowWordBits
  BY <1>1, WordFacts DEF LowWord
<1> QED BY <1>2, WordFacts DEF Same

LEMMA SameTrans ==
    ASSUME NEW a, NEW b, NEW c, NEW q, Same(a, b, q), Same(b, c, q) PROVE Same(a, c, q) /\ Same(b, a, q)
  BY DEF Same

LEMMA SignedFacts ==
    ASSUME NEW x \in Int, NEW n \in Nat, n >= 1
    PROVE  /\ 2^(n - 1) \in Nat /\ 2^n = 2 * 2^(n - 1) /\ 2^(n - 1) >= 1
           /\ Signed(x, n) \in Int /\ -(2^(n - 1)) <= Signed(x, n) /\ Signed(x, n) < 2^(n - 1)
           /\ Same(Signed(x, n), x, 2^n)
           /\ x + 2^(n - 1) = 2^n * ((x + 2^(n - 1)) \div 2^n) + Signed(x, n) + 2^(n - 1)
           /\ (x + 2^(n - 1)) \div 2^n \in Int
           /\ -(2^(n - 1)) <= x /\ x < 2^(n - 1) => Signed(x, n) = x
<1> DEFINE h == 2^(n - 1)
           w == 2^n
           s == (x + h) % w
           d == (x + h) \div w
<1>1. h \in Nat /\ h >= 1 /\ w = 2 * h
  <2>1. n - 1 \in Nat /\ (n - 1) + 1 = n
    OBVIOUS
  <2>2. h \in Nat /\ h > n - 1 /\ 2^((n - 1) + 1) = 2 * h
    BY <2>1, PowerPositive, PowerDoubles
  <2> QED BY <2>1, <2>2
<1>2. Signed(x, n) = s - h
  BY DEF Signed
<1> HIDE DEF h, w
<1>3. w \in Nat /\ w > 0 /\ x + h \in Int
  BY <1>1
<1>4. d \in Int /\ s \in 0..(w - 1) /\ x + h = d * w + s
  BY <1>3, IntDivided
<1> HIDE DEF s, d
<1>5. d * w = w * d /\ d * w \in Int /\ (s - h) + d * w = x
  <2>1. d * w = w * d /\ d * w \in Int
    BY <1>3, <1>4, SMT
  <2> QED BY <1>1, <1>4, <2>1
<1>6. Same(s - h, x, w)
  <2> DEFINE y == s - h
  <2>0. y \in Int
    BY <1>1, <1>4
  <2> HIDE DEF y
  <2>1. (y + d * w) % w = y % w
    BY <1>3, <1>4, <2>0, IntModShift
  <2> QED BY <1>1, <1>3, <1>4, <1>5, <2>1 DEF Same, y
<1>7. -h <= x /\ x < h => s - h = x
  <2> SUFFICES ASSUME -h <= x, x < h PROVE s - h = x
    OBVIOUS
  <2>1. x + h \in 0..(w - 1)
    BY <1>1
  <2>2. (x + h) % w = x + h
    BY <1>3, <2>1, ModSmall
  <2> QED BY <1>1, <2>2 DEF s
<1> QED BY <1>1, <1>2, <1>4, <1>5, <1>6, <1>7 DEF h, w, d

-----------------------------------------------------------------------------
(* The digits of a word *)

RestOf(x, limbs) ==
    LET r[j \in 1..limbs] == IF j = 1 THEN x ELSE (r[j - 1] + (Radix \div 2)) \div Radix IN r

LEMMA RestFacts ==
    ASSUME NEW x \in Nat, NEW limbs \in Nat, limbs >= 1
    PROVE  /\ \A j \in 1..limbs : RestOf(x, limbs)[j] \in Nat
           /\ RestOf(x, limbs)[1] = x
           /\ \A j \in 1..(limbs - 1) :
                RestOf(x, limbs)[j + 1] = (RestOf(x, limbs)[j] + (Radix \div 2)) \div Radix
<1> DEFINE next(y) == (y + (Radix \div 2)) \div Radix
           Is(r) == r = [j \in 1..limbs |-> IF j = 1 THEN x ELSE (r[j - 1] + (Radix \div 2)) \div Radix]
           step == [y \in Nat \X Nat |-> next(y[2])]
           T == Nat
<1>1. \A y \in Nat : next(y) \in Nat
  <2> TAKE y \in Nat
  <2>1. y + (Radix \div 2) \in Nat
    BY RadixFacts
  <2> QED BY <2>1, RadixFacts, Divided
<1>2. step \in [Nat \X T -> T] /\ \A y \in Nat \X T : step[y] = next(y[2])
  <2>1. ASSUME NEW y \in Nat \X Nat PROVE next(y[2]) \in Nat
    <3>1. y[2] \in Nat
      OBVIOUS
    <3> HIDE DEF next
    <3> QED BY <1>1, <3>1
  <2> HIDE DEF next
  <2>2. \A y \in Nat \X Nat : step[y] = next(y[2])
    OBVIOUS
  <2>3. step \in [Nat \X Nat -> Nat]
    BY <2>1
  <2> QED BY <2>2, <2>3
<1>3. Recurs(T, x, step)
  BY <1>2 DEF Recurs
<1> HIDE DEF step
<1>4. PICK p \in [Nat -> Nat] : p[0] = x /\ \A n \in Nat : p[n + 1] = step[<<n, p[n]>>]
  <2> DEFINE start == x
  <2>1. Recurs(T, start, step)
    BY <1>3
  <2> HIDE DEF T, start
  <2>2. \E p \in [Nat -> T] : p[0] = start /\ \A n \in Nat : p[n + 1] = step[<<n, p[n]>>]
    BY <2>1, Recursion
  <2> QED BY <2>2, Zenon DEF T, start
<1>5. ASSUME NEW n \in Nat PROVE p[n + 1] = next(p[n])
  <2> DEFINE y == <<n, p[n]>>
  <2>1. y \in Nat \X T /\ y[2] = p[n]
    BY <1>4
  <2> HIDE DEF y, next
  <2>2. p[n + 1] = step[y]
    BY <1>4 DEF y
  <2> QED BY <1>2, <2>1, <2>2
<1> DEFINE s == [j \in 1..limbs |-> p[j - 1]]
<1>6. \E r : Is(r)
  <2>1. ASSUME NEW j \in 1..limbs PROVE s[j] = IF j = 1 THEN x ELSE (s[j - 1] + (Radix \div 2)) \div Radix
    <3>1. CASE j = 1
      BY <1>4, <3>1
    <3>2. CASE j # 1
      <4>1. j - 2 \in Nat /\ (j - 2) + 1 = j - 1 /\ j - 1 \in 1..limbs
        BY <3>2
      <4>2. s[j] = p[j - 1] /\ s[j - 1] = p[j - 2]
        BY <4>1
      <4>3. p[(j - 2) + 1] = next(p[j - 2])
        BY <1>5, <4>1
      <4> QED BY <3>2, <4>1, <4>2, <4>3
    <3> QED BY <3>1, <3>2
  <2>2. s = [j \in 1..limbs |-> s[j]]
    OBVIOUS
  <2> HIDE DEF s
  <2>3. s = [j \in 1..limbs |-> IF j = 1 THEN x ELSE (s[j - 1] + (Radix \div 2)) \div Radix]
    BY <2>1, <2>2, Zenon
  <2> QED BY <2>3
<1> DEFINE r == CHOOSE e : Is(e)
<1>7. Is(r)
  <2> HIDE DEF Is
  <2> QED BY <1>6
<1>8. RestOf(x, limbs) = r
  BY Zenon DEF RestOf
<1> HIDE DEF r
<1>9. r[1] = x /\ \A j \in 2..limbs : r[j] = next(r[j - 1])
  <2>1. 1 \in 1..limbs /\ \A j \in 2..limbs : j \in 1..limbs /\ j # 1
    OBVIOUS
  <2> HIDE DEF next
  <2>2. \A j \in 1..limbs : r[j] = IF j = 1 THEN x ELSE next(r[j - 1])
    BY <1>7, Zenon DEF next
  <2> QED BY <2>1, <2>2
<1> DEFINE S == {n \in Nat : n + 1 <= limbs => r[n + 1] \in Nat}
<1>10. 0 \in S
  BY <1>9
<1>11. ASSUME NEW n \in Nat, n \in S PROVE n + 1 \in S
  <2> SUFFICES ASSUME (n + 1) + 1 <= limbs PROVE r[(n + 1) + 1] \in Nat
    OBVIOUS
  <2>1. (n + 1) + 1 \in 2..limbs /\ ((n + 1) + 1) - 1 = n + 1 /\ n + 1 <= limbs
    OBVIOUS
  <2>2. r[n + 1] \in Nat
    BY <1>11, <2>1
  <2> HIDE DEF next
  <2>3. r[(n + 1) + 1] = next(r[n + 1])
    BY <1>9, <2>1
  <2> QED BY <1>1, <2>2, <2>3
<1>12. Nat \subseteq S
  <2> HIDE DEF S
  <2> QED BY <1>10, <1>11, SetInduction
<1>13. \A j \in 1..limbs : r[j] \in Nat
  <2> TAKE j \in 1..limbs
  <2>1. j - 1 \in Nat /\ (j - 1) + 1 = j /\ j <= limbs
    OBVIOUS
  <2> QED BY <1>12, <2>1
<1>14. \A j \in 1..(limbs - 1) : r[j + 1] = next(r[j])
  <2> TAKE j \in 1..(limbs - 1)
  <2>1. j + 1 \in 2..limbs /\ (j + 1) - 1 = j
    OBVIOUS
  <2> HIDE DEF next
  <2> QED BY <1>9, <2>1
<1> QED BY <1>8, <1>9, <1>13, <1>14

Weight(j) == 2^(DigitBits * (j - 1))

LEMMA WeightFacts ==
    ASSUME NEW j \in Nat, j >= 1
    PROVE  /\ DigitBits * (j - 1) \in Nat /\ Weight(j) \in Nat /\ Weight(j) >= 1
           /\ Weight(j + 1) = Weight(j) * Radix
           /\ Weight(1) = 1
<1> DEFINE e == DigitBits * (j - 1)
<1>1. e \in Nat /\ DigitBits * ((j + 1) - 1) = e + DigitBits /\ DigitBits * (1 - 1) = 0
  <2>1. DigitBits \in Nat /\ j - 1 \in Nat
    BY KernelSizes
  <2>2. e \in Nat
    BY <2>1, ProductsAreNat
  <2>3. DigitBits * ((j + 1) - 1) = e + DigitBits
    BY <2>1, SMT
  <2> QED BY <2>1, <2>2, <2>3
<1> HIDE DEF e
<1>2. 2^(e + DigitBits) = 2^e * 2^DigitBits
  BY <1>1, KernelSizes, PowerSum
<1>3. 2^e \in Nat /\ 2^e > 0
  BY <1>1, PowerPositive
<1>4. Weight(j) = 2^e /\ Weight(1) = 2^0
  BY <1>1, Zenon DEF Weight, e
<1>5. Weight(j + 1) = 2^(e + DigitBits)
  BY <1>1, Zenon DEF Weight
<1>6. DigitBits * (j - 1) \in Nat
  BY <1>1 DEF e
<1> QED BY <1>2, <1>3, <1>4, <1>5, <1>6, PowerZero DEF Radix

DigitOf(x, limbs, j) == Signed(RestOf(x, limbs)[j], DigitBits)
Place(x, limbs) == [j \in 1..limbs |-> Weight(j) * DigitOf(x, limbs, j)]

LEMMA DigitStep ==
    ASSUME NEW y \in Nat
    PROVE  /\ Signed(y, DigitBits) \in Int
           /\ -(Radix \div 2) <= Signed(y, DigitBits) /\ Signed(y, DigitBits) <= (Radix \div 2) - 1
           /\ (y + (Radix \div 2)) \div Radix \in Nat
           /\ y = Signed(y, DigitBits) + Radix * ((y + (Radix \div 2)) \div Radix)
<1> DEFINE h == Radix \div 2
           d == (y + h) \div Radix
           s == Signed(y, DigitBits)
<1>1. h \in Nat /\ h = 2^(DigitBits - 1) /\ Radix = 2^DigitBits /\ Radix \in Nat /\ Radix > 0
  BY RadixFacts DEF Radix
<1>2. /\ s \in Int /\ -(2^(DigitBits - 1)) <= s /\ s < 2^(DigitBits - 1)
      /\ y + 2^(DigitBits - 1) = 2^DigitBits * ((y + 2^(DigitBits - 1)) \div 2^DigitBits) + s + 2^(DigitBits - 1)
  BY KernelSizes, SignedFacts
<1> HIDE DEF s
<1>3. s \in Int /\ -h <= s /\ s < h /\ y + h = Radix * d + s + h
  BY <1>1, <1>2
<1>4. d \in Nat
  <2>1. y + h \in Nat
    BY <1>1
  <2> QED BY <1>1, <2>1, Divided
<1> HIDE DEF h, d
<1>5. Radix * d \in Int
  BY <1>1, <1>4, ProductsAreInt
<1>6. y = s + Radix * d /\ s <= h - 1
  BY <1>1, <1>3, <1>5
<1> QED BY <1>3, <1>4, <1>6 DEF h, d, s

LEMMA PlaceTerms ==
    ASSUME NEW x \in Nat, NEW limbs \in Nat, limbs >= 1
    PROVE  /\ \A j \in 1..limbs : /\ DigitOf(x, limbs, j) \in Int
                                  /\ -(Radix \div 2) <= DigitOf(x, limbs, j)
                                  /\ DigitOf(x, limbs, j) <= (Radix \div 2) - 1
                                  /\ Place(x, limbs)[j] = Weight(j) * DigitOf(x, limbs, j)
                                  /\ Place(x, limbs)[j] \in Int
           /\ \A m \in 1..(limbs + 1) : IntTerms(Place(x, limbs), 1, m)
<1>1. ASSUME NEW j \in 1..limbs
      PROVE  /\ DigitOf(x, limbs, j) \in Int
             /\ -(Radix \div 2) <= DigitOf(x, limbs, j)
             /\ DigitOf(x, limbs, j) <= (Radix \div 2) - 1
             /\ Place(x, limbs)[j] = Weight(j) * DigitOf(x, limbs, j)
             /\ Place(x, limbs)[j] \in Int
  <2>1. RestOf(x, limbs)[j] \in Nat
    BY RestFacts
  <2>2. /\ DigitOf(x, limbs, j) \in Int
        /\ -(Radix \div 2) <= DigitOf(x, limbs, j)
        /\ DigitOf(x, limbs, j) <= (Radix \div 2) - 1
    BY <2>1, DigitStep DEF DigitOf
  <2>3. Place(x, limbs)[j] = Weight(j) * DigitOf(x, limbs, j)
    BY DEF Place
  <2>4. Weight(j) * DigitOf(x, limbs, j) \in Int
    <3>1. Weight(j) \in Int
      BY WeightFacts
    <3> QED BY <2>2, <3>1, ProductsAreInt
  <2> QED BY <2>2, <2>3, <2>4
<1>2. \A m \in 1..(limbs + 1) : IntTerms(Place(x, limbs), 1, m)
  BY <1>1 DEF IntTerms
<1> QED BY <1>1, <1>2

(* After m digits a word is their weighted sum and a carry. *)
LEMMA Rebuilt ==
    ASSUME NEW x \in Nat, NEW limbs \in Nat, limbs >= 1
    PROVE  \E c \in Int : x = SumOf(Place(x, limbs), 1, limbs + 1) + Weight(limbs + 1) * c
<1> DEFINE p == Place(x, limbs)
           r == RestOf(x, limbs)
           S == {n \in Nat : n + 1 <= limbs => x = SumOf(p, 1, n + 1) + Weight(n + 1) * r[n + 1]}
<1>0. \A m \in 1..(limbs + 1) : SumOf(p, 1, m) \in Int
  BY PlaceTerms, SumIsInt
<1>1. ASSUME NEW j \in 1..limbs
      PROVE  /\ r[j] \in Nat /\ DigitOf(x, limbs, j) \in Int
             /\ r[j] = DigitOf(x, limbs, j) + Radix * ((r[j] + (Radix \div 2)) \div Radix)
             /\ (r[j] + (Radix \div 2)) \div Radix \in Nat
  BY RestFacts, DigitStep DEF DigitOf
<1>2. ASSUME NEW j \in 1..limbs
      PROVE  SumOf(p, 1, j) + Weight(j) * r[j]
                = SumOf(p, 1, j + 1) + Weight(j + 1) * ((r[j] + (Radix \div 2)) \div Radix)
  <2> DEFINE d == DigitOf(x, limbs, j)
             n == (r[j] + (Radix \div 2)) \div Radix
             w == Weight(j)
             a == SumOf(p, 1, j)
             b == SumOf(p, 1, j + 1)
             y == r[j]
             v == Weight(j + 1)
  <2>1. a \in Int /\ b = a + p[j] /\ p[j] = w * d
    <3>1. j \in Nat /\ 1 <= j
      OBVIOUS
    <3>2. SumOf(p, 1, j + 1) = SumOf(p, 1, j) + p[j]
      BY <3>1, SumStep
    <3> QED BY <1>0, <3>2, PlaceTerms
  <2>2. d \in Int /\ n \in Nat /\ y = d + Radix * n
    BY <1>1
  <2>3. w \in Nat /\ v = w * Radix /\ Radix \in Nat
    <3>1. j \in Nat /\ j >= 1
      OBVIOUS
    <3> QED BY <3>1, WeightFacts, RadixFacts
  <2> HIDE DEF d, n, w, a, b, y, v
  <2>4. w * (d + Radix * n) = w * d + (w * Radix) * n
    BY <2>2, <2>3, SMT
  <2>5. w * d \in Int /\ (w * Radix) * n \in Int
    <3>1. w * Radix \in Int /\ w \in Int /\ n \in Int
      BY <2>2, <2>3, ProductsAreInt
    <3> QED BY <2>2, <3>1, ProductsAreInt
  <2>6. a + w * y = b + v * n
    BY <2>1, <2>2, <2>3, <2>4, <2>5
  <2> QED BY <2>6 DEF a, w, y, b, v, n
<1>3. 0 \in S
  <2>1. SumOf(p, 1, 1) = 0 /\ Weight(1) = 1 /\ r[1] = x /\ 1 \in Nat /\ 0 + 1 = 1
    BY SumStep, WeightFacts, RestFacts
  <2> HIDE DEF p, r
  <2>2. x = SumOf(p, 1, 1) + Weight(1) * r[1]
    BY <2>1
  <2> QED BY <2>1, <2>2
<1>4. ASSUME NEW n \in Nat, n \in S PROVE n + 1 \in S
  <2> SUFFICES ASSUME (n + 1) + 1 <= limbs
               PROVE  x = SumOf(p, 1, (n + 1) + 1) + Weight((n + 1) + 1) * r[(n + 1) + 1]
    OBVIOUS
  <2> DEFINE j == n + 1
  <2>1. j \in 1..limbs /\ j \in 1..(limbs - 1)
    OBVIOUS
  <2>2. x = SumOf(p, 1, j) + Weight(j) * r[j]
    BY <1>4, <2>1
  <2>3. r[j + 1] = (r[j] + (Radix \div 2)) \div Radix
    BY <2>1, RestFacts
  <2> HIDE DEF j, p, r
  <2>4. x = SumOf(p, 1, j + 1) + Weight(j + 1) * r[j + 1]
    BY <1>2, <2>1, <2>2, <2>3
  <2> QED BY <2>4 DEF j
<1>5. Nat \subseteq S
  <2> HIDE DEF S
  <2> QED BY <1>3, <1>4, SetInduction
<1>6. x = SumOf(p, 1, limbs) + Weight(limbs) * r[limbs]
  <2>1. limbs - 1 \in Nat /\ (limbs - 1) + 1 = limbs
    OBVIOUS
  <2> HIDE DEF p, r
  <2> QED BY <1>5, <2>1
<1>7. limbs \in 1..limbs
  OBVIOUS
<1> DEFINE c == (r[limbs] + (Radix \div 2)) \div Radix
<1>8. c \in Int /\ x = SumOf(p, 1, limbs + 1) + Weight(limbs + 1) * c
  <2> HIDE DEF p, r
  <2> QED BY <1>1, <1>2, <1>6, <1>7
<1> HIDE DEF c
<1> QED BY <1>8

LEMMA MinIs ==
    ASSUME NEW S, S \subseteq Nat, S # {}
    PROVE  Min(S) \in S /\ Min(S) \in Nat /\ \A x \in S : Min(S) <= x
<1> DEFINE R == OpToRel(<, Nat)
<1>1. IsWellFoundedOn(R, Nat)
  BY NatLessThanWellFounded, Zenon
<1>2. PICK x \in S : \A y \in S : ~(<<y, x>> \in R)
  <2> HIDE DEF R
  <2> QED BY <1>1, WFMin
<1>3. \A y \in S : x <= y
  <2>1. x \in Nat /\ \A y \in Nat : y < x => <<y, x>> \in R
    BY DEF OpToRel
  <2> HIDE DEF R
  <2>2. ASSUME NEW y \in S PROVE x <= y
    <3>1. y \in Nat /\ ~(y < x)
      BY <1>2, <2>1
    <3> QED BY <2>1, <3>1
  <2> QED BY <2>2
<1>4. \E m \in S : \A y \in S : m <= y
  BY <1>3
<1>5. Min(S) \in S /\ \A y \in S : Min(S) <= y
  BY <1>4, Zenon DEF Min
<1> QED BY <1>5

(* What byte_digits returns, part by part. *)
AllDigits(words, limbs) == [j \in 1..limbs |-> [i \in DOMAIN words |-> DigitOf(words[i], limbs, j)]]
Nonzero(words, limbs) == {j \in 1..(limbs - 1) : \E i \in DOMAIN words : AllDigits(words, limbs)[j][i] # 0}
Skipped(words, limbs) ==
    IF Nonzero(words, limbs) = {} THEN limbs - 1 ELSE Min(Nonzero(words, limbs)) - 1

LEMMA BytesAre ==
    ASSUME NEW words, NEW limbs
    PROVE  byte_digits(words, limbs) = [digits |-> SubSeq(AllDigits(words, limbs), Skipped(words, limbs) + 1, limbs),
                                        skip |-> Skipped(words, limbs)]
  BY Zenon DEF byte_digits, AllDigits, Nonzero, Skipped, DigitOf, RestOf

LEMMA SkippedFacts ==
    ASSUME NEW words \in Seq(Nat), NEW limbs \in Nat, limbs >= 1
    PROVE  /\ Skipped(words, limbs) \in 0..(limbs - 1)
           /\ \A j \in 1..Skipped(words, limbs) : \A i \in DOMAIN words : DigitOf(words[i], limbs, j) = 0
<1> DEFINE N == Nonzero(words, limbs)
           k == Skipped(words, limbs)
<1>1. N \subseteq 1..(limbs - 1) /\ N \subseteq Nat
  BY DEF Nonzero
<1>2. \A j \in 1..(limbs - 1) : j \notin N => \A i \in DOMAIN words : DigitOf(words[i], limbs, j) = 0
  <2> SUFFICES ASSUME NEW j \in 1..(limbs - 1), j \notin N, NEW i \in DOMAIN words
               PROVE  DigitOf(words[i], limbs, j) = 0
    OBVIOUS
  <2>1. AllDigits(words, limbs)[j][i] = 0
    BY DEF Nonzero
  <2>2. j \in 1..limbs
    OBVIOUS
  <2> QED BY <2>1, <2>2 DEF AllDigits
<1>3. CASE N = {}
  <2>1. k = limbs - 1
    BY <1>3, Zenon DEF Skipped
  <2> HIDE DEF N, k
  <2> QED BY <1>2, <1>3, <2>1 DEF k
<1>4. CASE N # {}
  <2> DEFINE m == Min(N)
  <2>1. k = m - 1
    BY <1>4, Zenon DEF Skipped
  <2>2. m \in N /\ m \in Nat /\ \A x \in N : m <= x
    <3> HIDE DEF N
    <3> QED BY <1>1, <1>4, MinIs
  <2> HIDE DEF N, k, m
  <2>3. m \in 1..(limbs - 1)
    BY <1>1, <2>2
  <2>4. \A j \in 1..k : j \in 1..(limbs - 1) /\ j \notin N
    BY <2>1, <2>2, <2>3
  <2>5. k \in 0..(limbs - 1)
    BY <2>1, <2>3
  <2> QED BY <1>2, <2>4, <2>5 DEF k
<1> QED BY <1>3, <1>4

(* The bits below one power are a multiple of those below a lower one. *)
LEMMA PowerDivides ==
    ASSUME NEW m \in Nat, NEW n \in Nat, m <= n
    PROVE  2^m \in Nat /\ 2^m > 0 /\ \E k \in Nat : k > 0 /\ 2^n = k * 2^m
<1>1. n - m \in Nat /\ (n - m) + m = n
  OBVIOUS
<1> DEFINE k == 2^(n - m)
<1>2. 2^((n - m) + m) = k * 2^m /\ k \in Nat /\ k > 0 /\ 2^m \in Nat /\ 2^m > 0
  BY <1>1, PowerSum, PowerPositive
<1> HIDE DEF k
<1> QED BY <1>1, <1>2

(* What is equal modulo a power of two is equal modulo a lower one. *)
LEMMA SameLower ==
    ASSUME NEW a, NEW b, NEW m \in Nat, NEW n \in Nat, m <= n, Same(a, b, 2^n)
    PROVE  Same(a, b, 2^m)
<1>1. PICK k \in Nat : k > 0 /\ 2^n = k * 2^m
  BY PowerDivides
<1> DEFINE q == 2^m
           w == 2^n
<1>2. q \in Nat /\ q > 0
  BY PowerDivides
<1>3. w = k * q
  BY <1>1
<1> HIDE DEF q, w
<1>4. a \in Int /\ b \in Int /\ a % w = b % w
  BY DEF Same, w
<1>5. (a % (k * q)) % q = a % q /\ (b % (k * q)) % q = b % q
  BY <1>1, <1>2, <1>4, ModOfProduct
<1> QED BY <1>2, <1>3, <1>4, <1>5 DEF Same, q

-----------------------------------------------------------------------------
(* The prepared query *)

(* Each word is the sum of its digits at the weights the kernels shift by, and *)
(* the weight beyond the last digit is a multiple of q.                        *)
PlaceShift(q, j) == DigitBits * ((q.skip + j) - 1)
Placed(q, i) == [j \in 1..Len(q.digits) |-> 2^PlaceShift(q, j) * q.digits[j][i]]

Decomposed(q, words, qbits) ==
    /\ q.skip \in Nat /\ Len(q.digits) \in Nat /\ Len(q.digits) >= 1 /\ q.digits # <<>>
    /\ \A j \in 1..Len(q.digits) : \A i \in 1..Len(words) :
         /\ q.digits[j][i] \in Int
         /\ -(Radix \div 2) <= q.digits[j][i] /\ q.digits[j][i] <= (Radix \div 2) - 1
    /\ \A i \in 1..Len(words) : Same(SumOf(Placed(q, i), 1, Len(q.digits) + 1), words[i], 2^qbits)
    /\ (2^(PlaceShift(q, Len(q.digits)) + DigitBits)) % 2^qbits = 0

LEMMA DigitsDecompose ==
    ASSUME NEW words \in Seq(Nat), NEW qbits \in Nat, qbits >= 1
    PROVE  LET limbs == (qbits + DigitBits - 1) \div DigitBits
           IN  Decomposed(byte_digits(words, limbs), words, qbits)
<1> DEFINE limbs == (qbits + DigitBits - 1) \div DigitBits
           q == byte_digits(words, limbs)
           k == Skipped(words, limbs)
           n == limbs - k
           all == AllDigits(words, limbs)
<1>1. limbs \in Nat /\ limbs >= 1 /\ DigitBits * limbs \in Nat /\ qbits <= DigitBits * limbs
  <2> DEFINE x == qbits + DigitBits - 1
             b == DigitBits
             l == x \div b
             r == x % b
  <2>1. b \in Nat /\ b >= 1 /\ x \in Nat /\ x >= b /\ x = qbits + b - 1
    BY KernelSizes
  <2> HIDE DEF x, b
  <2>2. l \in Nat /\ r \in 0..(b - 1) /\ x = l * b + r
    BY <2>1, Divided
  <2> HIDE DEF l, r
  <2>3. l >= 1
    <3>1. CASE l = 0
      <4>1. l * b = 0
        BY <2>1, <3>1, SMT
      <4> QED BY <2>1, <2>2, <4>1
    <3> QED BY <2>2, <3>1
  <2>4. l * b = b * l /\ b * l \in Nat
    BY <2>1, <2>2, SMT
  <2>5. qbits <= b * l
    BY <2>1, <2>2, <2>4
  <2> QED BY <2>2, <2>3, <2>4, <2>5 DEF l, x, b
<1> HIDE DEF limbs
<1>2. k \in 0..(limbs - 1) /\ \A j \in 1..k : \A i \in DOMAIN words : DigitOf(words[i], limbs, j) = 0
  BY <1>1, SkippedFacts
<1>3. q = [digits |-> SubSeq(all, k + 1, limbs), skip |-> k]
  BY BytesAre
<1> HIDE DEF q, k, all
<1>4. k \in Nat /\ n \in Nat /\ n >= 1 /\ k + n = limbs
  BY <1>1, <1>2
<1> HIDE DEF n
<1>5. SubSeq(all, k + 1, limbs) = [j \in 1..n |-> all[j + k]]
  <2>1. SubSeq(all, k + 1, limbs) = [j \in 1..((1 + limbs) - (k + 1)) |-> all[((k + 1) + j) - 1]]
    BY <1>1, <1>4 DEF all, AllDigits
  <2>2. (1 + limbs) - (k + 1) = n /\ \A j \in 1..n : ((k + 1) + j) - 1 = j + k
    BY <1>1, <1>4
  <2> QED BY <2>1, <2>2
<1>6. /\ q.skip = k /\ q.digits = [j \in 1..n |-> all[j + k]] /\ Len(q.digits) = n
      /\ q.digits # <<>>
  <2>1. q.skip = k /\ q.digits = [j \in 1..n |-> all[j + k]]
    BY <1>3, <1>5
  <2>2. Len([j \in 1..n |-> all[j + k]]) = n /\ [j \in 1..n |-> all[j + k]] # <<>>
    BY <1>4
  <2> QED BY <2>1, <2>2
<1>7. ASSUME NEW j \in 1..n, NEW i \in 1..Len(words)
      PROVE  q.digits[j][i] = DigitOf(words[i], limbs, j + k) /\ j + k \in 1..limbs /\ words[i] \in Nat
  <2>1. j + k \in 1..limbs /\ i \in DOMAIN words /\ words[i] \in Nat
    BY <1>4
  <2>2. q.digits[j] = all[j + k]
    BY <1>6
  <2> QED BY <2>1, <2>2 DEF all, AllDigits
<1>8. \A j \in 1..n : \A i \in 1..Len(words) :
         /\ q.digits[j][i] \in Int
         /\ -(Radix \div 2) <= q.digits[j][i] /\ q.digits[j][i] <= (Radix \div 2) - 1
  <2> SUFFICES ASSUME NEW j \in 1..n, NEW i \in 1..Len(words)
               PROVE  /\ q.digits[j][i] \in Int
                      /\ -(Radix \div 2) <= q.digits[j][i] /\ q.digits[j][i] <= (Radix \div 2) - 1
    OBVIOUS
  <2> DEFINE d == DigitOf(words[i], limbs, j + k)
  <2>1. q.digits[j][i] = d
    BY <1>7
  <2>2. d \in Int /\ -(Radix \div 2) <= d /\ d <= (Radix \div 2) - 1
    BY <1>1, <1>7, PlaceTerms
  <2> HIDE DEF d
  <2> QED BY <2>1, <2>2
<1>9. ASSUME NEW j \in 1..n PROVE PlaceShift(q, j) = DigitBits * ((j + k) - 1) /\ 2^PlaceShift(q, j) = Weight(j + k)
  <2>1. (k + j) - 1 = (j + k) - 1
    BY <1>4
  <2> QED BY <1>6, <2>1, Zenon DEF PlaceShift, Weight
<1>10. ASSUME NEW i \in 1..Len(words)
       PROVE  Same(SumOf(Placed(q, i), 1, n + 1), words[i], 2^qbits)
  <2> DEFINE x == words[i]
             p == Place(x, limbs)
             g == Placed(q, i)
  <2>1. x \in Nat /\ i \in DOMAIN words
    OBVIOUS
  <2>2. PICK c \in Int : x = SumOf(p, 1, limbs + 1) + Weight(limbs + 1) * c
    BY <1>1, <2>1, Rebuilt
  <2>3. \A r \in 1..n : g[r] = p[r + k] /\ p[r + k] \in Int
    <3> TAKE r \in 1..n
    <3>1. g[r] = 2^PlaceShift(q, r) * q.digits[r][i]
      BY <1>6 DEF Placed
    <3>2. r + k \in 1..limbs /\ q.digits[r][i] = DigitOf(x, limbs, r + k)
      BY <1>7
    <3>3. p[r + k] = Weight(r + k) * DigitOf(x, limbs, r + k) /\ p[r + k] \in Int
      BY <1>1, <2>1, <3>2, PlaceTerms
    <3> QED BY <1>9, <3>1, <3>2, <3>3
  <2>4. IntTerms(p, 1, limbs + 1) /\ IntTerms(p, 1, k + 1)
    <3>1. limbs + 1 \in 1..(limbs + 1) /\ k + 1 \in 1..(limbs + 1)
      BY <1>1, <1>4
    <3> HIDE DEF x
    <3> QED BY <1>1, <2>1, <3>1, PlaceTerms
  <2>5. \A r \in 1..((k + 1) - 1) : p[r] = 0
    <3> TAKE r \in 1..((k + 1) - 1)
    <3>1. r \in 1..k /\ r \in 1..limbs
      BY <1>4
    <3>2. p[r] = Weight(r) * DigitOf(x, limbs, r)
      BY <1>1, <2>1, <3>1, PlaceTerms
    <3>3. DigitOf(x, limbs, r) = 0
      BY <1>2, <2>1, <3>1
    <3>4. Weight(r) \in Nat
      BY <3>1, WeightFacts
    <3> QED BY <3>2, <3>3, <3>4
  <2> HIDE DEF x, p, g
  <2>6. SumOf(p, 1, k + 1) = 0
    <3>1. SumOf(p, 1, 1) = 0
      BY SumStep
    <3>2. 1 \in Nat /\ k + 1 \in Nat /\ 1 <= 1 /\ 1 <= k + 1 /\ SumOf(p, 1, 1) \in Nat
      BY <1>4, <3>1
    <3>3. \A r \in 1..((k + 1) - 1) : p[r] = 0
      BY <2>5
    <3> QED BY <3>1, <3>2, <3>3, SumZero
  <2>7. SumOf(p, 1, limbs + 1) = SumOf(p, k + 1, limbs + 1) /\ SumOf(p, 1, limbs + 1) \in Int
    <3>1. k + 1 \in 1..(limbs + 1)
      BY <1>4
    <3>2. /\ SumOf(p, 1, limbs + 1) = SumOf(p, 1, k + 1) + SumOf(p, k + 1, limbs + 1)
          /\ SumOf(p, k + 1, limbs + 1) \in Int
      BY <2>4, <3>1, SumSplit
    <3> QED BY <2>6, <3>2
  <2>8. SumOf(p, 1 + k, (n + 1) + k) = SumOf(g, 1, n + 1)
    <3> DEFINE one == 1
               to == n + 1
    <3>1. IntTerms(g, one, to) /\ k \in Nat /\ \A r \in one..(to - 1) : p[r + k] = g[r]
      <4>1. one \in Nat /\ to \in Nat /\ one <= to /\ \A r \in one..(to - 1) : r \in 1..n
        BY <1>4
      <4> QED BY <1>4, <2>3, <4>1 DEF IntTerms
    <3> HIDE DEF one, to
    <3>2. Shifts(g, p, one, to, k)
      BY <3>1 DEF Shifts
    <3>3. SumOf(p, one + k, to + k) = SumOf(g, one, to)
      BY <3>2, SumShift
    <3> QED BY <3>3 DEF one, to
  <2>9. 1 + k = k + 1 /\ (n + 1) + k = limbs + 1
    BY <1>4
  <2> DEFINE y == SumOf(g, 1, n + 1)
             w == Weight(limbs + 1)
  <2>10. y \in Int /\ x = y + w * c
    BY <2>2, <2>7, <2>8, <2>9
  <2>11. w \in Nat /\ w >= 1 /\ w = 2^(DigitBits * limbs)
    <3>1. limbs + 1 \in Nat /\ limbs + 1 >= 1 /\ (limbs + 1) - 1 = limbs
      BY <1>1
    <3> QED BY <3>1, WeightFacts DEF Weight
  <2> HIDE DEF y, w
  <2>12. Same(y, x, w)
    <3>1. w * c = c * w /\ c * w \in Int
      BY <2>11, SMT
    <3>2. (y + c * w) % w = y % w
      <4>1. y \in Int /\ c \in Int /\ w \in Nat /\ w > 0
        BY <2>10, <2>11
      <4> QED BY <4>1, IntModShift
    <3> QED BY <2>1, <2>10, <2>11, <3>1, <3>2 DEF Same, x
  <2>13. Same(y, x, 2^qbits)
    BY <1>1, <2>11, <2>12, SameLower
  <2> QED BY <2>13 DEF x, y, g
<1>11. (2^(PlaceShift(q, n) + DigitBits)) % 2^qbits = 0
  <2>1. n \in 1..n /\ n + k = limbs
    BY <1>4
  <2>2. PlaceShift(q, n) = DigitBits * (limbs - 1)
    BY <1>9, <2>1
  <2>3. DigitBits * (limbs - 1) + DigitBits = DigitBits * limbs
    BY <1>1, KernelSizes, SMT
  <2> DEFINE m == 2^qbits
             w == 2^(DigitBits * limbs)
  <2>4. PICK c \in Nat : w = c * m /\ m \in Nat /\ m > 0
    BY <1>1, PowerDivides
  <2> HIDE DEF m, w
  <2>5. (c * m + 0) % m = 0
    <3>1. 0 \in 0..(m - 1)
      BY <2>4
    <3> QED BY <2>4, <3>1, ModUnique
  <2>6. c * m + 0 = c * m
    BY <2>4, ProductsAreNat
  <2> QED BY <2>2, <2>3, <2>4, <2>5, <2>6 DEF m, w
<1>12. Decomposed(q, words, qbits)
  BY <1>4, <1>6, <1>8, <1>10, <1>11 DEF Decomposed
<1> QED BY <1>12 DEF q, limbs

-----------------------------------------------------------------------------
(* Word kernels *)

LEMMA SameRefl == ASSUME NEW a \in Int, NEW q \in Nat, q > 0 PROVE Same(a, a, q)
  BY DEF Same

LEMMA WrapMulIs ==
    ASSUME NEW x \in Int, NEW y \in Int
    PROVE  WrapMul(x, y) \in Nat /\ Same(WrapMul(x, y), x * y, 2^LowWordBits)
<1> DEFINE w == 2^LowWordBits
           u == LowWord(x)
           v == LowWord(y)
<1>1. Same(u, x, w) /\ Same(v, y, w) /\ u \in Nat /\ v \in Nat
  BY LowWordFacts
<1> HIDE DEF u, v
<1>2. u * v \in Int
  BY <1>1, ProductsAreInt
<1>3. LowWord(u * v) \in Nat /\ Same(LowWord(u * v), u * v, w)
  BY <1>2, LowWordFacts
<1> HIDE DEF w
<1>4. Same(u * v, x * y, w)
  BY <1>1, SameProduct
<1>5. Same(LowWord(u * v), x * y, w)
  BY <1>3, <1>4, SameTrans
<1>6. WrapMul(x, y) = LowWord(u * v)
  BY DEF WrapMul, u, v
<1> QED BY <1>3, <1>5, <1>6 DEF w

(* The low halves' product and the crossed ones, of which a half counts. *)
LEMMA Mul64Is ==
    ASSUME NEW x \in Nat, NEW y \in Nat
    PROVE  mul64(x, y) \in Nat /\ Same(mul64(x, y), x * y, 2^LowWordBits)
<1> DEFINE w == 2^LowWordBits
           s == 2^(LowWordBits \div 2)
           a == x \div s
           b == x % s
           c == y \div s
           d == y % s
           f == (a * d) + (b * c)
           t == LowWord(f) % s
           p == LowWord(t * s)
<1>1. s \in Nat /\ s > 0 /\ w = s * s /\ w \in Nat /\ w > 0
  <2> DEFINE h == LowWordBits \div 2
  <2>1. h \in Nat /\ LowWordBits = h + h
    BY KernelSizes
  <2> HIDE DEF h
  <2>2. 2^(h + h) = 2^h * 2^h /\ 2^h \in Nat /\ 2^h > 0
    BY <2>1, PowerSum, PowerPositive
  <2>3. w \in Nat /\ w > 0
    BY WordFacts
  <2> QED BY <2>1, <2>2, <2>3 DEF h
<1>2. mul64(x, y) = LowWord((b * d) + p)
  BY Zenon DEF mul64
<1> HIDE DEF s
<1>3. a \in Nat /\ b \in Nat /\ c \in Nat /\ d \in Nat /\ x = a * s + b /\ y = c * s + d
  BY <1>1, Divided
<1> HIDE DEF a, b, c, d
<1>4. f \in Int /\ b * d \in Int
  <2>1. a * d \in Int /\ b * c \in Int /\ b * d \in Int
    BY <1>3, ProductsAreInt
  <2> QED BY <2>1
<1> HIDE DEF f
<1>5. t \in Int /\ Same(t, f, s)
  <2> DEFINE l == LowWord(f)
  <2>1. l \in Int /\ Same(l, f, w)
    BY <1>4, LowWordFacts
  <2> HIDE DEF l
  <2>2. Same(l, f, s)
    <3>1. l % w = f % w
      BY <2>1 DEF Same
    <3>2. (l % (s * s)) % s = l % s /\ (f % (s * s)) % s = f % s
      BY <1>1, <1>4, <2>1, ModOfProduct
    <3> QED BY <1>1, <1>4, <2>1, <3>1, <3>2 DEF Same
  <2>3. l % s \in 0..(s - 1) /\ Same(l % s, l, s)
    BY <1>1, <2>1, ModTwice, SameOfMod
  <2>4. Same(l % s, f, s)
    BY <2>2, <2>3, SameTrans
  <2> QED BY <1>1, <2>3, <2>4 DEF l
<1> HIDE DEF t
<1>6. t * s \in Int /\ f * s \in Int /\ Same(t * s, f * s, w)
  <2>1. PICK k \in Int : t = f + k * s
    BY <1>1, <1>4, <1>5, Congruent DEF Same
  <2>2. t * s = f * s + k * (s * s) /\ t * s \in Int /\ f * s \in Int
    <3>1. (f + k * s) * s = f * s + k * (s * s)
      BY <1>1, <1>4, SMT
    <3>2. t * s \in Int /\ f * s \in Int
      BY <1>1, <1>4, <1>5, ProductsAreInt
    <3> QED BY <2>1, <3>1, <3>2
  <2>3. (f * s + k * w) % w = (f * s) % w
    BY <1>1, <2>2, IntModShift
  <2> QED BY <1>1, <2>2, <2>3 DEF Same
<1>7. p \in Int /\ Same(p, f * s, w)
  <2>1. LowWord(t * s) \in Int /\ Same(LowWord(t * s), t * s, w)
    BY <1>6, LowWordFacts
  <2> QED BY <1>6, <2>1, SameTrans
<1> HIDE DEF p
<1>8. Same((b * d) + p, (b * d) + f * s, w)
  <2>1. Same(b * d, b * d, w)
    BY <1>1, <1>4, SameRefl
  <2> HIDE DEF w
  <2> QED BY <1>7, <2>1, SameSum
<1>9. x * y = ((b * d) + f * s) + (a * c) * w /\ a * c \in Int /\ x * y \in Int
  <2>1. (a * s + b) * (c * s + d) = ((b * d) + ((a * d) + (b * c)) * s) + (a * c) * (s * s)
    BY <1>1, <1>3, SMT
  <2>2. a * c \in Int /\ x * y \in Int
    BY <1>3, ProductsAreInt
  <2> QED BY <1>1, <1>3, <2>1, <2>2 DEF f
<1>10. Same((b * d) + f * s, x * y, w)
  <2> DEFINE z == (b * d) + f * s
             e == a * c
  <2>1. z \in Int /\ e \in Int /\ x * y = z + e * w
    BY <1>4, <1>6, <1>9
  <2> HIDE DEF z, e, w
  <2>2. (z + e * w) % w = z % w
    BY <1>1, <2>1, IntModShift
  <2> QED BY <1>1, <1>9, <2>1, <2>2 DEF Same, z
<1>11. (b * d) + p \in Int
  BY <1>4, <1>7
<1>12. LowWord((b * d) + p) \in Nat /\ Same(LowWord((b * d) + p), (b * d) + p, w)
  BY <1>11, LowWordFacts
<1>13. Same(LowWord((b * d) + p), x * y, w)
  <2> HIDE DEF w
  <2> QED BY <1>8, <1>10, <1>12, SameTrans
<1> QED BY <1>2, <1>12, <1>13

LEMMA DownFacts ==
    ASSUME NEW n \in Nat, NEW step \in Nat, step > 0
    PROVE  Down(n, step) \in Nat /\ Down(n, step) <= n /\ n - Down(n, step) = n % step
<1> DEFINE d == n \div step
           r == n % step
<1>1. d \in Nat /\ r \in 0..(step - 1) /\ n = d * step + r
  BY Divided
<1> HIDE DEF d, r
<1>2. d * step \in Nat
  BY <1>1, ProductsAreNat
<1>3. Down(n, step) = d * step
  BY DEF Down, d
<1> QED BY <1>1, <1>2, <1>3 DEF r

(* A dot product of a's integers and b's words. *)
Factors(a, b) == Len(b) \in Nat /\ \A i \in 1..Len(b) : a[i] \in Int /\ b[i] \in Nat
Products(a, b) == [i \in 1..Len(b) |-> a[i] * b[i]]
VectorTerms(a, b, simd, end) ==
    [i \in 1..end |-> IF simd = "avx2" THEN mul64(LowWord(a[i]), b[i]) ELSE WrapMul(a[i], b[i])]
TailTerms(a, b, end) == [i \in (end + 1)..Len(b) |-> WrapMul(a[i], b[i])]

LEMMA VectorDotIs ==
    ASSUME NEW a, NEW b, NEW simd
    PROVE  LET end == Down(Len(b), VectorStep(simd))
           IN  vector_dot(a, b, simd) = LowWord(LowWord(SumOf(VectorTerms(a, b, simd, end), 1, end + 1)) +
                                               LowWord(SumOf(TailTerms(a, b, end), end + 1, Len(b) + 1)))
  BY Zenon DEF vector_dot, WordSum, SumOver, VectorTerms, TailTerms

LEMMA ProductTerms ==
    ASSUME NEW a, NEW b, Factors(a, b), NEW m \in 1..(Len(b) + 1)
    PROVE  IntTerms(Products(a, b), m, Len(b) + 1) /\ IntTerms(Products(a, b), 1, m)
<1>1. \A i \in 1..Len(b) : Products(a, b)[i] = a[i] * b[i] /\ a[i] * b[i] \in Int
  <2> TAKE i \in 1..Len(b)
  <2>1. a[i] \in Int /\ b[i] \in Int
    BY DEF Factors
  <2> QED BY <2>1, ProductsAreInt DEF Products
<1>2. Len(b) \in Nat
  BY DEF Factors
<1> HIDE DEF Products
<1> QED BY <1>1, <1>2 DEF IntTerms

LEMMA VectorDot ==
    ASSUME NEW a, NEW b, Factors(a, b), NEW simd
    PROVE  /\ vector_dot(a, b, simd) \in Nat
           /\ Same(vector_dot(a, b, simd), SumOf(Products(a, b), 1, Len(b) + 1), 2^LowWordBits)
<1> DEFINE N == Len(b)
           end == Down(N, VectorStep(simd))
           v == VectorTerms(a, b, simd, end)
           t == TailTerms(a, b, end)
           p == Products(a, b)
           w == 2^LowWordBits
<1>1. N \in Nat /\ \A i \in 1..N : a[i] \in Int /\ b[i] \in Nat /\ p[i] = a[i] * b[i]
  BY DEF Factors, Products
<1>2. end \in Nat /\ end <= N
  <2>1. VectorStep(simd) \in Nat /\ VectorStep(simd) > 0
    BY DEF VectorStep
  <2> HIDE DEF N
  <2> QED BY <1>1, <2>1, DownFacts
<1> HIDE DEF end
<1>3. /\ IntTerms(p, 1, end + 1) /\ IntTerms(p, end + 1, N + 1) /\ IntTerms(p, 1, N + 1)
      /\ end + 1 \in 1..(N + 1)
  <2>1. end + 1 \in 1..(N + 1) /\ 1 \in 1..(N + 1)
    BY <1>1, <1>2
  <2> QED BY <2>1, ProductTerms
<1>4. ASSUME NEW i \in 1..end PROVE v[i] \in Int /\ Same(v[i], p[i], w)
  <2>1. a[i] \in Int /\ b[i] \in Nat /\ b[i] \in Int /\ p[i] = a[i] * b[i]
    BY <1>1, <1>2
  <2>2. v[i] = IF simd = "avx2" THEN mul64(LowWord(a[i]), b[i]) ELSE WrapMul(a[i], b[i])
    BY DEF VectorTerms
  <2> DEFINE l == LowWord(a[i])
             x == a[i]
             y == b[i]
  <2>3. l \in Nat /\ Same(l, x, w)
    BY <2>1, LowWordFacts
  <2>4. Same(y, y, w)
    BY <2>1, WordFacts, SameRefl
  <2>5. mul64(l, y) \in Nat /\ Same(mul64(l, y), l * y, w)
    BY <2>1, <2>3, Mul64Is
  <2>6. WrapMul(x, y) \in Nat /\ Same(WrapMul(x, y), x * y, w)
    BY <2>1, WrapMulIs
  <2> HIDE DEF l, x, y, w, v, p
  <2>7. Same(l * y, x * y, w)
    BY <2>3, <2>4, SameProduct
  <2>8. Same(mul64(l, y), x * y, w)
    BY <2>5, <2>7, SameTrans
  <2> QED BY <2>1, <2>2, <2>5, <2>6, <2>8 DEF l, x, y
<1>5. ASSUME NEW i \in (end + 1)..N PROVE t[i] \in Int /\ Same(t[i], p[i], w)
  <2>1. i \in 1..N
    BY <1>1, <1>2
  <2>2. a[i] \in Int /\ b[i] \in Int /\ p[i] = a[i] * b[i]
    BY <1>1, <2>1
  <2>3. t[i] = WrapMul(a[i], b[i])
    BY DEF TailTerms
  <2>4. WrapMul(a[i], b[i]) \in Nat /\ Same(WrapMul(a[i], b[i]), a[i] * b[i], w)
    BY <2>2, WrapMulIs
  <2> HIDE DEF t, p, w
  <2> QED BY <2>2, <2>3, <2>4
<1>6. vector_dot(a, b, simd) = LowWord(LowWord(SumOf(v, 1, end + 1)) + LowWord(SumOf(t, end + 1, N + 1)))
  BY VectorDotIs DEF end
<1>7. w \in Nat /\ w > 0
  BY WordFacts
<1> HIDE DEF v, t, p, N
<1>8. /\ SumOf(v, 1, end + 1) \in Int /\ SumOf(p, 1, end + 1) \in Int
      /\ Same(SumOf(v, 1, end + 1), SumOf(p, 1, end + 1), w)
  <2> DEFINE one == 1
             to == end + 1
  <2>1. \A r \in one..(to - 1) : v[r] \in Int /\ v[r] % w = p[r] % w
    BY <1>2, <1>4 DEF Same
  <2>2. IntTerms(p, one, to) /\ IntTerms(v, one, to)
    BY <1>3, <2>1 DEF IntTerms
  <2> HIDE DEF one, to, w
  <2>3. SameTerms(v, p, w, one, to)
    BY <1>7, <2>1, <2>2 DEF SameTerms
  <2>4. /\ SumOf(v, one, to) \in Int /\ SumOf(p, one, to) \in Int
        /\ SumOf(v, one, to) % w = SumOf(p, one, to) % w
    BY <2>3, SumModulo
  <2> QED BY <1>7, <2>4 DEF Same, one, to
<1>9. /\ SumOf(t, end + 1, N + 1) \in Int /\ SumOf(p, end + 1, N + 1) \in Int
      /\ Same(SumOf(t, end + 1, N + 1), SumOf(p, end + 1, N + 1), w)
  <2> DEFINE from == end + 1
             to == N + 1
  <2>1. \A r \in from..(to - 1) : t[r] \in Int /\ t[r] % w = p[r] % w
    BY <1>1, <1>2, <1>5 DEF Same
  <2>2. IntTerms(p, from, to) /\ IntTerms(t, from, to)
    BY <1>3, <2>1 DEF IntTerms
  <2> HIDE DEF from, to, w
  <2>3. SameTerms(t, p, w, from, to)
    BY <1>7, <2>1, <2>2 DEF SameTerms
  <2>4. /\ SumOf(t, from, to) \in Int /\ SumOf(p, from, to) \in Int
        /\ SumOf(t, from, to) % w = SumOf(p, from, to) % w
    BY <2>3, SumModulo
  <2> QED BY <1>7, <2>4 DEF Same, from, to
<1> DEFINE x == SumOf(v, 1, end + 1)
           y == SumOf(t, end + 1, N + 1)
           g == SumOf(p, 1, end + 1)
           h == SumOf(p, end + 1, N + 1)
<1>10. SumOf(p, 1, N + 1) = g + h
  BY <1>3, SumSplit
<1>11. Same(x, g, w) /\ Same(y, h, w) /\ x \in Int /\ y \in Int
  BY <1>8, <1>9
<1> HIDE DEF x, y, g, h
<1>12. LowWord(x) \in Nat /\ LowWord(y) \in Nat /\ Same(LowWord(x), x, w) /\ Same(LowWord(y), y, w)
  BY <1>11, LowWordFacts
<1> DEFINE z == LowWord(x) + LowWord(y)
<1>13. z \in Int
  BY <1>12
<1>14. LowWord(z) \in Nat /\ Same(LowWord(z), z, w)
  BY <1>13, LowWordFacts
<1> HIDE DEF w
<1>15. Same(LowWord(x), g, w) /\ Same(LowWord(y), h, w)
  BY <1>11, <1>12, SameTrans
<1>16. Same(z, g + h, w)
  BY <1>15, SameSum
<1> HIDE DEF z
<1>17. Same(LowWord(z), g + h, w)
  BY <1>14, <1>16, SameTrans
<1> QED BY <1>6, <1>10, <1>14, <1>17 DEF z, x, y, w, p, N

-----------------------------------------------------------------------------
(* Byte kernels *)

(* What a kernel reads back is the database it was given. *)
KernelRows == Len(kernel.words)
EntryAt(col, r) == Entry(kernel.db, KernelRows, col, r)

BytesOK == \A col \in Columns(kernel) : \A r \in 0..(KernelRows - 1) :
    /\ LowAt(col, r) \in 0..(Radix - 1) /\ HighAt(col, r) \in 0..(Radix - 1)
    /\ LowAt(col, r) + Radix * HighAt(col, r) = EntryAt(col, r)
    /\ kernel.kind = "u8_tiled" => HighAt(col, r) = 0

Ready ==
    /\ kernel \in KernelTasks /\ query # <<>> /\ BytesOK
    /\ query.digits # <<>> => Decomposed(query, kernel.words, kernel.qbits)

LEMMA TaskFacts ==
    ASSUME kernel \in KernelTasks
    PROVE  /\ kernel.kind \in {"u8", "u16", "u8_tiled", "u16_tiled"}
           /\ kernel.qbits \in Nat /\ kernel.qbits >= 1 /\ kernel.qbits <= LowWordBits
           /\ kernel.words \in Seq(Nat) /\ KernelRows \in Nat /\ KernelRows >= 1
           /\ \A i \in 1..KernelRows : kernel.words[i] \in Nat
           /\ kernel.db \in Seq(0..(WordOf(kernel.kind) - 1))
           /\ Len(kernel.db) \in Nat /\ Len(kernel.db) % KernelRows = 0
           /\ Tiled(kernel) => Len(kernel.db) = BandCols * KernelRows
<1>1. /\ kernel.kind \in {"u8", "u16", "u8_tiled", "u16_tiled"} /\ kernel.qbits \in 1..LowWordBits
      /\ kernel.words \in Seq(Nat) /\ kernel.words # <<>>
      /\ kernel.db \in Seq(0..(WordOf(kernel.kind) - 1)) /\ Len(kernel.db) % Len(kernel.words) = 0
      /\ Tiled(kernel) => Len(kernel.db) = BandCols * Len(kernel.words)
  BY KernelConstants
<1>2. Len(kernel.words) \in Nat /\ Len(kernel.words) >= 1 /\ \A i \in 1..Len(kernel.words) : kernel.words[i] \in Nat
  BY <1>1
<1>3. Len(kernel.db) \in Nat
  <2> DEFINE T == 0..(WordOf(kernel.kind) - 1)
  <2>1. kernel.db \in Seq(T)
    BY <1>1
  <2> HIDE DEF T
  <2> QED BY <2>1
<1>4. kernel.qbits \in Nat /\ kernel.qbits >= 1 /\ kernel.qbits <= LowWordBits
  BY <1>1, KernelSizes
<1> QED BY <1>1, <1>2, <1>3, <1>4, Zenon DEF KernelRows

LEMMA IntSumBounded ==
    ASSUME NEW f, NEW from, NEW to, IntTerms(f, from, to), NEW M \in Nat,
           \A r \in from..(to - 1) : -M <= f[r] /\ f[r] <= M
    PROVE  SumOf(f, from, to) \in Int /\ -((to - from) * M) <= SumOf(f, from, to) /\ SumOf(f, from, to) <= (to - from) * M
<1>0. /\ from \in Nat /\ to \in Nat /\ from <= to
      /\ \A r \in from..(to - 1) : f[r] \in Int /\ -M <= f[r] /\ f[r] <= M
  BY DEF IntTerms
<1> DEFINE S == {n \in Nat : from + n <= to => /\ SumOf(f, from, from + n) \in Int
                                               /\ -(n * M) <= SumOf(f, from, from + n)
                                               /\ SumOf(f, from, from + n) <= n * M}
<1>1. 0 \in S
  <2>1. SumOf(f, from, from) = 0 /\ from + 0 = from /\ 0 * M = 0
    BY <1>0, SumStep
  <2> QED BY <2>1
<1>2. ASSUME NEW n \in Nat, n \in S PROVE n + 1 \in S
  <2> SUFFICES ASSUME from + (n + 1) <= to
               PROVE  /\ SumOf(f, from, from + (n + 1)) \in Int
                      /\ -((n + 1) * M) <= SumOf(f, from, from + (n + 1))
                      /\ SumOf(f, from, from + (n + 1)) <= (n + 1) * M
    OBVIOUS
  <2> DEFINE k == from + n
             m == n * M
             x == SumOf(f, from, k)
  <2>1. k \in Nat /\ from <= k /\ k \in from..(to - 1) /\ from + (n + 1) = k + 1 /\ from + n <= to
    BY <1>0
  <2>2. x \in Int /\ -m <= x /\ x <= m
    BY <1>2, <2>1
  <2>3. m \in Nat /\ (n + 1) * M = m + M
    BY SMT, ProductsAreNat
  <2> HIDE DEF k, m
  <2>4. SumOf(f, from, k + 1) = x + f[k] /\ f[k] \in Int /\ -M <= f[k] /\ f[k] <= M
    BY <1>0, <2>1, SumStep
  <2> HIDE DEF x
  <2> QED BY <2>1, <2>2, <2>3, <2>4
<1>3. Nat \subseteq S
  <2> HIDE DEF S
  <2> QED BY <1>1, <1>2, SetInduction
<1>4. to - from \in Nat /\ from + (to - from) = to /\ to <= to
  BY <1>0
<1> HIDE DEF S
<1> QED BY <1>3, <1>4 DEF S

(* A byte times a digit. *)
LEMMA TermBounded ==
    ASSUME NEW b \in 0..(Radix - 1), NEW d \in Int, -(Radix \div 2) <= d, d <= (Radix \div 2) - 1
    PROVE  LET M == (Radix - 1) * (Radix \div 2)
           IN  M \in Nat /\ b * d \in Int /\ -M <= b * d /\ b * d <= M
<1> DEFINE h == Radix \div 2
           t == Radix - 1
           M == t * h
<1>1. h \in Nat /\ t \in Nat /\ b \in Nat /\ b <= t
  BY RadixFacts
<1>2. -h <= d /\ d <= h
  BY <1>1
<1> HIDE DEF h, t
<1>3. M \in Nat /\ b * d \in Int
  BY <1>1, ProductsAreInt, ProductsAreNat
<1>4. CASE d >= 0
  <2>1. d \in Nat /\ d <= h
    BY <1>2, <1>4
  <2>2. b * d <= M
    BY <1>1, <2>1, ProductMonotone
  <2>3. b * d \in Nat
    BY <1>1, <2>1, ProductsAreNat
  <2> QED BY <1>3, <2>2, <2>3 DEF h, t
<1>5. CASE d < 0
  <2> DEFINE e == -d
  <2>1. e \in Nat /\ e <= h
    BY <1>1, <1>2, <1>5
  <2>2. b * e <= M /\ b * e \in Nat
    BY <1>1, <2>1, ProductMonotone, ProductsAreNat
  <2>3. b * e = -(b * d)
    BY <1>1, SMT
  <2> HIDE DEF e
  <2> QED BY <1>3, <2>2, <2>3 DEF h, t
<1> QED BY <1>4, <1>5

LEMMA ShiftedIs ==
    ASSUME NEW x \in Int, NEW s \in Nat
    PROVE  Shifted(x, s) \in Nat /\ Same(Shifted(x, s), x * 2^s, 2^LowWordBits)
<1> DEFINE l == LowWord(x)
           e == 2^s
           w == 2^LowWordBits
<1>1. l \in Nat /\ Same(l, x, w)
  BY LowWordFacts
<1>2. e \in Nat /\ Same(e, e, w)
  BY PowerPositive, WordFacts, SameRefl
<1> HIDE DEF l, e
<1>3. l * e \in Int
  BY <1>1, <1>2, ProductsAreInt
<1>4. LowWord(l * e) \in Nat /\ Same(LowWord(l * e), l * e, w)
  BY <1>3, LowWordFacts
<1> HIDE DEF w
<1>5. Same(l * e, x * e, w)
  BY <1>1, <1>2, SameProduct
<1>6. Same(LowWord(l * e), x * e, w)
  BY <1>4, <1>5, SameTrans
<1> QED BY <1>4, <1>6 DEF Shifted, l, e, w

LaneTerms(plane, col, j, from, to) ==
    [r \in from..to |-> (IF plane = 0 THEN LowAt(col, r) ELSE HighAt(col, r)) * query.digits[j][r + 1]]

LEMMA LaneIs ==
    ASSUME NEW plane, NEW col, NEW j, NEW from, NEW to
    PROVE  LaneSum(plane, col, j, from, to) = Signed(SumOf(LaneTerms(plane, col, j, from, to), from, to + 1), LaneBits)
  BY Zenon DEF LaneSum, SumOver, LaneTerms

(* A stretch of rows between two flushes, of a column. *)
Flushed(col, from, stop) ==
    /\ col \in Columns(kernel) /\ from \in Nat /\ stop \in Nat /\ from < stop /\ stop <= KernelRows
    /\ stop - from <= ChunkRows

(* No lane overflows between two flushes. *)
LEMMA LaneExact ==
    ASSUME Ready, ByteKernel, NEW col, NEW from, NEW stop, Flushed(col, from, stop),
           NEW j \in 1..Len(query.digits), NEW plane \in {0, 1}
    PROVE  /\ LaneSum(plane, col, j, from, stop - 1)
                = SumOf(LaneTerms(plane, col, j, from, stop - 1), from, stop)
           /\ IntTerms(LaneTerms(plane, col, j, from, stop - 1), from, stop)
           /\ \A r \in from..(stop - 1) : query.digits[j][r + 1] \in Int
<1> DEFINE M == (Radix - 1) * (Radix \div 2)
           f == LaneTerms(plane, col, j, from, stop - 1)
           x == SumOf(f, from, stop)
           n == stop - from
           h == 2^(LaneBits - 1)
<1>1. from \in Nat /\ stop \in Nat /\ from < stop /\ n \in Nat /\ n <= ChunkRows /\ (stop - 1) + 1 = stop
  BY DEF Flushed
<1>2. M \in Nat /\ ChunkRows \in Nat /\ ChunkRows * M < h /\ h \in Nat
  <2>1. M \in Nat
    <3>1. Radix - 1 \in Nat /\ Radix \div 2 \in Nat
      BY RadixFacts
    <3> QED BY <3>1, ProductsAreNat
  <2>2. h \in Nat
    <3>1. LaneBits - 1 \in Nat
      BY KernelSizes
    <3> QED BY <3>1, PowerPositive
  <2> QED BY <2>1, <2>2, KernelConstants, KernelSizes
<1>3. ASSUME NEW r \in from..(stop - 1)
      PROVE  f[r] \in Int /\ -M <= f[r] /\ f[r] <= M /\ query.digits[j][r + 1] \in Int
  <2> DEFINE b == IF plane = 0 THEN LowAt(col, r) ELSE HighAt(col, r)
             d == query.digits[j][r + 1]
  <2>1. r \in 0..(KernelRows - 1) /\ r + 1 \in 1..Len(kernel.words) /\ col \in Columns(kernel)
    BY <1>1, TaskFacts DEF Flushed, Ready, KernelRows
  <2>2. b \in 0..(Radix - 1)
    BY <2>1 DEF Ready, BytesOK
  <2>3. Decomposed(query, kernel.words, kernel.qbits)
    BY DEF Ready, ByteKernel
  <2>4. d \in Int /\ -(Radix \div 2) <= d /\ d <= (Radix \div 2) - 1
    BY <2>1, <2>3 DEF Decomposed
  <2>5. f[r] = b * d
    BY DEF LaneTerms
  <2> HIDE DEF b, d, f
  <2>6. M \in Nat /\ b * d \in Int /\ -M <= b * d /\ b * d <= M
    BY <2>2, <2>4, TermBounded
  <2> HIDE DEF M
  <2> QED BY <2>4, <2>5, <2>6 DEF d
<1> HIDE DEF M, h, f
<1>4. IntTerms(f, from, stop)
  BY <1>1, <1>3 DEF IntTerms
<1>5. x \in Int /\ -(n * M) <= x /\ x <= n * M
  BY <1>2, <1>3, <1>4, IntSumBounded
<1>6. n * M <= ChunkRows * M /\ n * M \in Nat /\ ChunkRows * M \in Nat
  BY <1>1, <1>2, ProductMonotone, ProductsAreNat
<1>7. -h <= x /\ x < h
  <2> DEFINE y == n * M
             c == ChunkRows * M
  <2>1. y \in Nat /\ c \in Nat /\ y <= c /\ c < h /\ -y <= x /\ x <= y
    BY <1>2, <1>5, <1>6
  <2> HIDE DEF x, y, c
  <2> QED BY <1>2, <1>5, <2>1
<1>8. Signed(x, LaneBits) = x
  <2> HIDE DEF x
  <2> QED BY <1>5, <1>7, KernelSizes, SignedFacts DEF h
<1>9. LaneSum(plane, col, j, from, stop - 1) = Signed(x, LaneBits)
  BY <1>1, LaneIs DEF f
<1> QED BY <1>3, <1>4, <1>8, <1>9 DEF f

(* What a chunk adds: for each digit, the low plane's sum and the high one's, *)
(* which tiles leave out where it cannot count.                               *)
HighLeftOut(j) == kernel.kind = "u8_tiled" \/ (kernel.kind = "u16_tiled" /\ j = Len(query.digits))
ChunkTerms(col, from, to) == [j \in 1..Len(query.digits) |->
    Shifted(LaneSum(0, col, j, from, to), DigitShift(j)) +
    (IF HighLeftOut(j) THEN 0 ELSE Shifted(LaneSum(1, col, j, from, to), DigitShift(j) + DigitBits))]

LEMMA ChunkIs ==
    ASSUME NEW col, NEW from, NEW to
    PROVE  ChunkSum(col, from, to) = LowWord(SumOf(ChunkTerms(col, from, to), 1, Len(query.digits) + 1))
  BY Zenon DEF ChunkSum, WordSum, SumOver, ChunkTerms, HighLeftOut

(* Products of whole entries with one digit of the query, and with a word. *)
EntryTerms(col, j, from, stop) == [r \in from..(stop - 1) |-> EntryAt(col, r) * query.digits[j][r + 1]]
Dots(col) == [r \in 0..(KernelRows - 1) |-> EntryAt(col, r) * kernel.words[r + 1]]

LEMMA EntryIsNat ==
    ASSUME Ready, NEW col \in Columns(kernel), NEW r \in 0..(KernelRows - 1) PROVE EntryAt(col, r) \in Nat
<1> DEFINE l == LowAt(col, r)
           h == HighAt(col, r)
<1>1. l \in Nat /\ h \in Nat /\ EntryAt(col, r) = l + Radix * h
  BY RadixFacts DEF Ready, BytesOK
<1> HIDE DEF l, h
<1>2. Radix * h \in Nat
  BY <1>1, RadixFacts, ProductsAreNat
<1> QED BY <1>1, <1>2

(* The planes of a digit join to the products of the entries. *)
LEMMA PlanesJoin ==
    ASSUME Ready, ByteKernel, NEW col, NEW from, NEW stop, Flushed(col, from, stop),
           NEW j \in 1..Len(query.digits)
    PROVE  LET low == LaneSum(0, col, j, from, stop - 1)
               high == LaneSum(1, col, j, from, stop - 1)
           IN  /\ low \in Int /\ high \in Int
               /\ IntTerms(EntryTerms(col, j, from, stop), from, stop)
               /\ SumOf(EntryTerms(col, j, from, stop), from, stop) = low + Radix * high
               /\ kernel.kind = "u8_tiled" => high = 0
<1> DEFINE f == LaneTerms(0, col, j, from, stop - 1)
           g == LaneTerms(1, col, j, from, stop - 1)
           e == EntryTerms(col, j, from, stop)
           low == LaneSum(0, col, j, from, stop - 1)
           high == LaneSum(1, col, j, from, stop - 1)
<1>1. /\ low = SumOf(f, from, stop) /\ high = SumOf(g, from, stop)
      /\ IntTerms(f, from, stop) /\ IntTerms(g, from, stop)
      /\ \A r \in from..(stop - 1) : query.digits[j][r + 1] \in Int
  <2>1. 0 \in {0, 1} /\ 1 \in {0, 1}
    OBVIOUS
  <2> QED BY <2>1, LaneExact
<1>2. ASSUME NEW r \in from..(stop - 1)
      PROVE  /\ e[r] = f[r] + Radix * g[r] /\ e[r] \in Int
             /\ kernel.kind = "u8_tiled" => g[r] = 0
  <2> DEFINE l == LowAt(col, r)
             h == HighAt(col, r)
             d == query.digits[j][r + 1]
             v == EntryAt(col, r)
  <2>1. r \in 0..(KernelRows - 1) /\ col \in Columns(kernel)
    BY TaskFacts DEF Flushed, Ready
  <2>2. /\ l \in 0..(Radix - 1) /\ h \in 0..(Radix - 1) /\ v = l + Radix * h
        /\ kernel.kind = "u8_tiled" => h = 0
    BY <2>1 DEF Ready, BytesOK
  <2>3. d \in Int
    BY <1>1
  <2>4. f[r] = l * d /\ g[r] = h * d /\ e[r] = v * d
    BY DEF LaneTerms, EntryTerms
  <2> HIDE DEF l, h, d, v, e, f, g
  <2>5. l \in Int /\ h \in Int /\ Radix \in Int
    BY <2>2, RadixFacts
  <2>6. (l + Radix * h) * d = l * d + Radix * (h * d)
    BY <2>3, <2>5, SMT
  <2>7. v \in Int
    <3>1. Radix * h \in Int
      BY <2>5, ProductsAreInt
    <3> QED BY <2>2, <2>5, <3>1
  <2>8. v * d \in Int /\ 0 * d = 0
    BY <2>3, <2>7, ProductsAreInt
  <2> QED BY <2>2, <2>4, <2>6, <2>8
<1>3. from \in Nat /\ stop \in Nat /\ from <= stop
  BY DEF Flushed
<1> HIDE DEF e, f, g, low, high
<1>4. IntTerms(e, from, stop)
  BY <1>2, <1>3 DEF IntTerms
<1> DEFINE m == Radix
<1>5. m \in Int
  BY RadixFacts
<1>6. \A r \in from..(stop - 1) : e[r] = f[r] + m * g[r]
  BY <1>2
<1> HIDE DEF m
<1>7. IntCombines(e, f, g, m, from, stop)
  BY <1>1, <1>5, <1>6 DEF IntCombines
<1>8. /\ SumOf(f, from, stop) \in Int /\ SumOf(g, from, stop) \in Int
      /\ SumOf(e, from, stop) = SumOf(f, from, stop) + m * SumOf(g, from, stop)
  BY <1>7, IntSumLinear
<1>9. ASSUME kernel.kind = "u8_tiled" PROVE high = 0
  <2>1. \A r \in from..(stop - 1) : g[r] = 0
    BY <1>2, <1>9
  <2>2. SumOf(g, from, from) = 0
    BY <1>3, SumStep
  <2>3. SumOf(g, from, from) \in Nat /\ from <= from
    BY <1>3, <2>2
  <2>4. SumOf(g, from, stop) = 0
    BY <1>3, <2>1, <2>2, <2>3, SumZero
  <2> QED BY <1>1, <2>4
<1> QED BY <1>1, <1>4, <1>8, <1>9 DEF e, low, high, m

(* Modulo q a digit's part of a chunk is its weight times the whole entries'  *)
(* products, also where the high plane is left out.                           *)
LEMMA DigitPart ==
    ASSUME Ready, ByteKernel, NEW col, NEW from, NEW stop, Flushed(col, from, stop),
           NEW j \in 1..Len(query.digits)
    PROVE  /\ DigitShift(j) \in Nat /\ 2^DigitShift(j) \in Int
           /\ ChunkTerms(col, from, stop - 1)[j] \in Int
           /\ Same(ChunkTerms(col, from, stop - 1)[j],
                   2^DigitShift(j) * SumOf(EntryTerms(col, j, from, stop), from, stop), 2^kernel.qbits)
<1> DEFINE low == LaneSum(0, col, j, from, stop - 1)
           high == LaneSum(1, col, j, from, stop - 1)
           s == DigitShift(j)
           e == 2^s
           w == 2^LowWordBits
           q == 2^kernel.qbits
           sum == SumOf(EntryTerms(col, j, from, stop), from, stop)
           a == Shifted(low, s)
           b == Shifted(high, s + DigitBits)
           t == ChunkTerms(col, from, stop - 1)[j]
<1>1. low \in Int /\ high \in Int /\ sum = low + Radix * high /\ (kernel.kind = "u8_tiled" => high = 0)
  BY PlanesJoin
<1>2. t = a + (IF HighLeftOut(j) THEN 0 ELSE b)
  BY DEF ChunkTerms
<1>3. Decomposed(query, kernel.words, kernel.qbits) /\ kernel \in KernelTasks
  BY DEF Ready, ByteKernel
<1>4. s \in Nat /\ e \in Nat /\ s + DigitBits \in Nat /\ 2^(s + DigitBits) = e * Radix /\ s = PlaceShift(query, j)
  <2>1. query.skip \in Nat /\ Len(query.digits) \in Nat
    BY <1>3 DEF Decomposed
  <2>2. (query.skip + j) - 1 \in Nat /\ DigitBits \in Nat
    BY <2>1, KernelSizes
  <2>3. s \in Nat
    BY <2>2, ProductsAreNat DEF DigitShift
  <2> HIDE DEF s
  <2>4. e \in Nat /\ s + DigitBits \in Nat /\ 2^(s + DigitBits) = 2^s * 2^DigitBits
    BY <2>2, <2>3, PowerPositive, PowerSum
  <2>5. s = PlaceShift(query, j)
    BY Zenon DEF PlaceShift, DigitShift, s
  <2> QED BY <2>3, <2>4, <2>5 DEF Radix
<1> HIDE DEF low, high, s, e, sum, t, w
<1>5. a \in Int /\ Same(a, low * e, w) /\ b \in Int /\ Same(b, high * 2^(s + DigitBits), w)
  <2>1. \A x \in Int : \A n \in Nat : Shifted(x, n) \in Int /\ Same(Shifted(x, n), x * 2^n, w)
    <3> TAKE x \in Int
    <3> TAKE n \in Nat
    <3>1. Shifted(x, n) \in Nat /\ Same(Shifted(x, n), x * 2^n, 2^LowWordBits)
      BY ShiftedIs
    <3> QED BY <3>1 DEF w
  <2> QED BY <1>1, <1>4, <2>1, Zenon DEF e
<1> HIDE DEF a, b
<1>6. kernel.qbits \in Nat /\ kernel.qbits <= LowWordBits /\ LowWordBits \in Nat /\ q \in Nat /\ q > 0
  BY <1>3, TaskFacts, KernelSizes, PowerPositive
<1>7. Same(a, low * e, q) /\ Same(b, high * 2^(s + DigitBits), q)
  BY <1>5, <1>6, SameLower DEF w
<1> HIDE DEF q
<1>8. e * sum = low * e + high * (e * Radix)
  <2>1. Radix \in Int /\ e \in Int
    BY <1>4, RadixFacts
  <2>2. e * (low + Radix * high) = low * e + high * (e * Radix)
    BY <1>1, <2>1, SMT
  <2> QED BY <1>1, <2>2
<1> DEFINE x == low * e
           y == high * (e * Radix)
<1>9. x \in Int /\ y \in Int
  <2>1. Radix \in Int /\ e \in Int
    BY <1>4, RadixFacts
  <2>2. e * Radix \in Int
    BY <2>1, ProductsAreInt
  <2> QED BY <1>1, <2>1, <2>2, ProductsAreInt
<1>10. CASE ~HighLeftOut(j)
  <2>1. t = a + b
    BY <1>2, <1>10
  <2>2. Same(a, x, q) /\ Same(b, y, q)
    BY <1>4, <1>7
  <2> HIDE DEF x, y
  <2>3. Same(a + b, x + y, q)
    BY <2>2, SameSum
  <2> QED BY <1>4, <1>5, <1>8, <2>1, <2>3 DEF x, y, s, e, q, sum, t
<1>11. CASE HighLeftOut(j)
  <2>1. t = a
    BY <1>2, <1>5, <1>11
  <2>2. Same(a, x, q)
    BY <1>7
  <2>3. Same(0, y, q)
    <3>1. CASE kernel.kind = "u8_tiled"
      <4>1. high = 0 /\ e * Radix \in Int
        BY <1>1, <1>4, <3>1, RadixFacts, ProductsAreInt
      <4>2. y = 0
        BY <4>1
      <4> QED BY <1>6, <1>9, <4>2 DEF Same
    <3>2. CASE j = Len(query.digits)
      <4>1. (2^(s + DigitBits)) % q = 0
        BY <1>3, <1>4, <3>2 DEF Decomposed, q
      <4> DEFINE u == e * Radix
      <4>2. u \in Int /\ u % q = 0
        BY <1>4, <4>1, RadixFacts, ProductsAreInt
      <4>3. Same(u, 0, q)
        BY <1>6, <4>2 DEF Same
      <4>4. Same(high, high, q)
        BY <1>1, <1>6, SameRefl
      <4> HIDE DEF u
      <4> DEFINE zero == 0
      <4>5. Same(u, zero, q)
        BY <4>3
      <4> HIDE DEF zero
      <4>6. Same(high * u, high * zero, q)
        BY <4>4, <4>5, SameProduct
      <4>7. high * zero = zero
        BY <1>1, SMT DEF zero
      <4>8. Same(zero, high * u, q)
        BY <4>6, <4>7 DEF Same
      <4> QED BY <4>8 DEF zero, u
    <3> QED BY <1>11, <3>1, <3>2 DEF HighLeftOut
  <2> DEFINE zero == 0
  <2>4. Same(zero, y, q)
    BY <2>3
  <2> HIDE DEF x, y, zero
  <2>5. Same(a + zero, x + y, q)
    BY <2>2, <2>4, SameSum
  <2>6. a + zero = a
    BY <1>5 DEF zero
  <2> QED BY <1>4, <1>5, <1>8, <2>1, <2>5, <2>6 DEF x, y, s, e, q, sum, t
<1> QED BY <1>10, <1>11

(* A chunk adds to each column the products of its rows.                      *)
LEMMA ChunkExact ==
    ASSUME Ready, ByteKernel, NEW col, NEW from, NEW stop, Flushed(col, from, stop)
    PROVE  /\ ChunkSum(col, from, stop - 1) \in Nat
           /\ IntTerms(Dots(col), from, stop)
           /\ Same(ChunkSum(col, from, stop - 1), SumOf(Dots(col), from, stop), 2^kernel.qbits)
<1> DEFINE n == Len(query.digits)
           q == 2^kernel.qbits
           w == 2^LowWordBits
           one == 1
           to == n + 1
           c == ChunkTerms(col, from, stop - 1)
           e(r) == EntryAt(col, r)
           t == [j \in 1..n |-> [r \in from..(stop - 1) |-> 2^DigitShift(j) * (e(r) * query.digits[j][r + 1])]]
           u == [r \in from..(stop - 1) |-> [j \in 1..n |-> t[j][r]]]
           f == [j \in 1..n |-> SumOf(t[j], from, stop)]
           g == [r \in from..(stop - 1) |-> SumOf(u[r], 1, n + 1)]
           dots == Dots(col)
<1>1. Decomposed(query, kernel.words, kernel.qbits) /\ kernel \in KernelTasks
  BY DEF Ready, ByteKernel
<1>2. /\ n \in Nat /\ n >= 1 /\ from \in Nat /\ stop \in Nat /\ from <= stop /\ col \in Columns(kernel)
      /\ q \in Nat /\ q > 0 /\ kernel.qbits \in Nat /\ kernel.qbits <= LowWordBits /\ LowWordBits \in Nat
      /\ \A r \in from..(stop - 1) : r \in 0..(KernelRows - 1) /\ r + 1 \in 1..KernelRows
      /\ one \in Nat /\ to \in Nat /\ one <= to /\ \A j : j \in one..(to - 1) <=> j \in 1..n
  <2>1. n \in Nat /\ n >= 1
    BY <1>1 DEF Decomposed
  <2>2. kernel.qbits \in Nat /\ kernel.qbits <= LowWordBits /\ LowWordBits \in Nat /\ KernelRows \in Nat
    BY <1>1, TaskFacts, KernelSizes
  <2>3. q \in Nat /\ q > 0
    BY <2>2, PowerPositive
  <2>4. /\ from \in Nat /\ stop \in Nat /\ from <= stop /\ col \in Columns(kernel)
        /\ \A r \in from..(stop - 1) : r \in 0..(KernelRows - 1) /\ r + 1 \in 1..KernelRows
    BY <2>2 DEF Flushed
  <2> HIDE DEF n, q
  <2>5. one \in Nat /\ to \in Nat /\ one <= to /\ \A j : j \in one..(to - 1) <=> j \in 1..n
    BY <2>1
  <2> QED BY <2>1, <2>2, <2>3, <2>4, <2>5
<1>3. ASSUME NEW j \in 1..n, NEW r \in from..(stop - 1)
      PROVE  /\ e(r) \in Int /\ query.digits[j][r + 1] \in Int /\ 2^DigitShift(j) \in Int
             /\ e(r) * query.digits[j][r + 1] \in Int
             /\ t[j][r] = 2^DigitShift(j) * (e(r) * query.digits[j][r + 1]) /\ t[j][r] \in Int
             /\ u[r][j] = t[j][r]
  <2>1. e(r) \in Int
    BY <1>2, EntryIsNat
  <2>2. query.digits[j][r + 1] \in Int
    BY <1>1, <1>2 DEF Decomposed, KernelRows
  <2>3. 2^DigitShift(j) \in Int
    BY DigitPart
  <2>4. t[j][r] = 2^DigitShift(j) * (e(r) * query.digits[j][r + 1]) /\ u[r][j] = t[j][r]
    OBVIOUS
  <2> HIDE DEF e, t, u
  <2>5. e(r) * query.digits[j][r + 1] \in Int
    BY <2>1, <2>2, ProductsAreInt
  <2>6. 2^DigitShift(j) * (e(r) * query.digits[j][r + 1]) \in Int
    BY <2>3, <2>5, ProductsAreInt
  <2> QED BY <2>1, <2>2, <2>3, <2>4, <2>5, <2>6
(* The chunk's terms, by digit. *)
<1>4. ASSUME NEW j \in 1..n PROVE c[j] \in Int /\ Same(c[j], f[j], q)
  <2> DEFINE a == EntryTerms(col, j, from, stop)
             m == 2^DigitShift(j)
             x == t[j]
  <2>1. /\ m \in Int /\ c[j] \in Int /\ Same(c[j], m * SumOf(a, from, stop), q)
        /\ IntTerms(a, from, stop)
    BY DigitPart, PlanesJoin
  <2>2. \A r \in from..(stop - 1) : x[r] = m * a[r]
    <3> TAKE r \in from..(stop - 1)
    <3>1. x[r] = m * (e(r) * query.digits[j][r + 1])
      BY <1>3
    <3>2. a[r] = e(r) * query.digits[j][r + 1]
      BY DEF EntryTerms
    <3> HIDE DEF a, m, x, e
    <3> QED BY <3>1, <3>2
  <2>3. f[j] = SumOf(x, from, stop)
    OBVIOUS
  <2> HIDE DEF a, m, x, f, c, q
  <2>4. Scales(x, a, m, from, stop)
    BY <2>1, <2>2 DEF Scales
  <2>5. SumOf(x, from, stop) = m * SumOf(a, from, stop)
    BY <2>4, SumScale
  <2> QED BY <2>1, <2>3, <2>5
(* The same by row: a row's digits add up to its word. *)
<1>5. ASSUME NEW r \in from..(stop - 1) PROVE g[r] \in Int /\ dots[r] \in Int /\ Same(g[r], dots[r], q)
  <2> DEFINE p == Placed(query, r + 1)
             x == u[r]
             m == e(r)
             v == kernel.words[r + 1]
  <2>1. r + 1 \in 1..KernelRows /\ m \in Int /\ v \in Int /\ r \in 0..(KernelRows - 1)
    <3>1. r + 1 \in 1..KernelRows /\ r \in 0..(KernelRows - 1)
      BY <1>2
    <3>2. m \in Int
      BY <1>2, <3>1, EntryIsNat
    <3>3. v \in Int
      BY <1>1, <3>1, TaskFacts
    <3> QED BY <3>1, <3>2, <3>3
  <2>2. Same(SumOf(p, 1, n + 1), v, q)
    BY <1>1, <2>1 DEF Decomposed, KernelRows
  <2>3. \A j \in 1..n : x[j] = m * p[j] /\ p[j] \in Int
    <3> TAKE j \in 1..n
    <3> DEFINE d == query.digits[j][r + 1]
               k == 2^DigitShift(j)
    <3>1. x[j] = k * (m * d) /\ m \in Int /\ d \in Int /\ k \in Int
      BY <1>3
    <3>2. p[j] = k * d
      <4>1. PlaceShift(query, j) = DigitShift(j)
        BY Zenon DEF PlaceShift, DigitShift
      <4> QED BY <4>1 DEF Placed
    <3> HIDE DEF x, m, p, d, k
    <3>3. k * (m * d) = m * (k * d) /\ k * d \in Int
      BY <3>1, SMT, ProductsAreInt
    <3> QED BY <3>1, <3>2, <3>3
  <2>4. g[r] = SumOf(x, one, to)
    OBVIOUS
  <2>5. dots[r] = m * v
    BY <2>1 DEF Dots
  <2> HIDE DEF p, x, m, v, g, dots, q
  <2>6. IntTerms(p, one, to) /\ \A j \in one..(to - 1) : x[j] = m * p[j]
    BY <1>2, <2>3 DEF IntTerms
  <2>7. Same(SumOf(p, one, to), v, q)
    BY <2>2
  <2> HIDE DEF one, to
  <2>8. Scales(x, p, m, one, to)
    BY <2>1, <2>6 DEF Scales
  <2>9. SumOf(p, one, to) \in Int /\ SumOf(x, one, to) = m * SumOf(p, one, to)
    BY <2>8, SumScale
  <2>10. Same(m, m, q)
    BY <1>2, <2>1, SameRefl
  <2> DEFINE y == SumOf(p, one, to)
  <2>11. Same(y, v, q)
    BY <2>7
  <2> HIDE DEF y
  <2>12. Same(m * y, m * v, q)
    BY <2>10, <2>11, SameProduct
  <2> QED BY <2>4, <2>5, <2>9, <2>12 DEF y, Same
<1>6. SumOf(f, 1, n + 1) = SumOf(g, from, stop)
  <2>1. \A j \in 1..n : f[j] = SumOf(t[j], from, stop)
    OBVIOUS
  <2>2. \A r \in from..(stop - 1) : g[r] = SumOf(u[r], one, to)
    OBVIOUS
  <2>3. \A j \in 1..n : \A r \in from..(stop - 1) : t[j][r] \in Int /\ u[r][j] = t[j][r]
    BY <1>3
  <2> HIDE DEF t, u, f, g, n, one, to
  <2>4. Crossed(t, u, f, g, one, to, from, stop)
    BY <1>2, <2>1, <2>2, <2>3, Zenon DEF Crossed
  <2>5. SumOf(f, one, to) = SumOf(g, from, stop)
    BY <2>4, SumExchange
  <2> QED BY <2>5 DEF one, to
<1> HIDE DEF t, u, f, g, c, dots, q
<1>7. IntTerms(dots, from, stop) /\ IntTerms(g, from, stop)
  BY <1>2, <1>5 DEF IntTerms
<1>8. Same(SumOf(g, from, stop), SumOf(dots, from, stop), q)
  <2>1. SameTerms(g, dots, q, from, stop)
    BY <1>2, <1>5, <1>7 DEF SameTerms, Same
  <2>2. /\ SumOf(g, from, stop) \in Int /\ SumOf(dots, from, stop) \in Int
        /\ SumOf(g, from, stop) % q = SumOf(dots, from, stop) % q
    BY <2>1, SumModulo
  <2> QED BY <1>2, <2>2 DEF Same
<1>9. SumOf(c, one, to) \in Int /\ Same(SumOf(c, one, to), SumOf(f, one, to), q)
  <2>1. \A j \in one..(to - 1) : c[j] \in Int /\ f[j] \in Int /\ c[j] % q = f[j] % q
    BY <1>2, <1>4 DEF Same
  <2>2. IntTerms(c, one, to) /\ IntTerms(f, one, to)
    BY <1>2, <2>1 DEF IntTerms
  <2> HIDE DEF one, to
  <2>3. SameTerms(c, f, q, one, to)
    BY <1>2, <2>1, <2>2 DEF SameTerms
  <2>4. /\ SumOf(c, one, to) \in Int /\ SumOf(f, one, to) \in Int
        /\ SumOf(c, one, to) % q = SumOf(f, one, to) % q
    BY <2>3, SumModulo
  <2> QED BY <1>2, <2>4 DEF Same
<1> DEFINE x == SumOf(c, one, to)
           y == SumOf(dots, from, stop)
<1>10. ChunkSum(col, from, stop - 1) = LowWord(x)
  BY ChunkIs DEF c
<1>11. Same(x, y, q) /\ x \in Int
  BY <1>6, <1>8, <1>9, SameTrans
<1> HIDE DEF x, y
<1>12. LowWord(x) \in Nat /\ Same(LowWord(x), x, w)
  BY <1>11, LowWordFacts
<1>13. Same(LowWord(x), x, q)
  BY <1>2, <1>12, SameLower DEF q
<1>14. Same(LowWord(x), y, q)
  BY <1>11, <1>13, SameTrans
<1> QED BY <1>7, <1>10, <1>12, <1>14 DEF dots, q, y

-----------------------------------------------------------------------------
(* Layouts *)

Layout(k) == CASE k.kind = "u8_tiled" -> interleave_u8_columns(k.db, Len(k.words))
               [] k.kind = "u16_tiled" -> interleave_columns(k.db, Len(k.words))
               [] OTHER -> k.db

Laid == kernel \in KernelTasks /\ tiles = Layout(kernel) /\ (Tiled(kernel) => KernelRows % GroupRows = 0)

LEMMA EntryTyped ==
    ASSUME kernel \in KernelTasks, NEW col \in Columns(kernel), NEW r \in 0..(KernelRows - 1)
    PROVE  /\ EntryAt(col, r) \in 0..(WordOf(kernel.kind) - 1) /\ EntryAt(col, r) \in 0..(Radix * Radix - 1)
           /\ col \in Nat
           /\ Tiled(kernel) => col \in 0..(BandCols - 1)
<1> DEFINE N == Len(kernel.db)
           R == KernelRows
           d == N \div R
           T == 0..(WordOf(kernel.kind) - 1)
           n == (col * R + r) + 1
<1>1. N \in Nat /\ R \in Nat /\ R >= 1 /\ N % R = 0 /\ kernel.db \in Seq(T)
      /\ (Tiled(kernel) => N = BandCols * R)
  BY TaskFacts
<1>2. col \in 0..(d - 1) /\ r \in 0..(R - 1)
  BY DEF Columns, KernelRows
<1> HIDE DEF N, R, T
<1>3. d \in Nat /\ N = d * R
  BY <1>1, Divided
<1> HIDE DEF d
<1>4. col \in Nat /\ col * R \in Nat /\ col * R + R <= N
  <2>1. col \in Nat /\ col + 1 \in Nat /\ col + 1 <= d
    BY <1>2, <1>3
  <2>2. (col + 1) * R <= d * R
    BY <1>1, <1>3, <2>1, ProductMonotone
  <2>3. (col + 1) * R = col * R + R /\ col * R \in Nat
    BY <1>1, <2>1, SMT, ProductsAreNat
  <2> QED BY <1>3, <2>1, <2>2, <2>3
<1>5. n \in 1..N
  BY <1>1, <1>2, <1>4
<1> HIDE DEF n
<1>6. kernel.db[n] \in T
  BY <1>1, <1>5 DEF N
<1>7. EntryAt(col, r) = kernel.db[n]
  BY Zenon DEF EntryAt, Entry, n, R, KernelRows
<1>8. WordOf(kernel.kind) <= Radix * Radix /\ WordOf(kernel.kind) \in Nat /\ Radix * Radix \in Nat
  <2>1. Radix * 1 <= Radix * Radix /\ Radix * Radix \in Nat /\ Radix * 1 = Radix
    BY RadixFacts, ProductMonotone, ProductsAreNat
  <2> QED BY <2>1, RadixFacts DEF WordOf
<1>9. ASSUME Tiled(kernel) PROVE col \in 0..(BandCols - 1)
  <2>1. BandCols \in Nat /\ col * R + R <= BandCols * R
    BY <1>1, <1>4, <1>9, KernelSizes
  <2>2. CASE col >= BandCols
    <3>1. BandCols * R <= col * R
      BY <1>1, <1>4, <2>1, <2>2, ProductMonotone
    <3> QED BY <1>1, <1>4, <2>1, <3>1, ProductsAreNat
  <2> QED BY <1>4, <2>1, <2>2
<1>10. kernel.db[n] \in 0..(WordOf(kernel.kind) - 1)
  BY <1>6 DEF T
<1>11. kernel.db[n] \in 0..(Radix * Radix - 1)
  <2> DEFINE x == kernel.db[n]
             a == WordOf(kernel.kind)
             b == Radix * Radix
  <2>1. x \in 0..(a - 1) /\ a <= b /\ a \in Nat /\ b \in Nat
    BY <1>8, <1>10
  <2> HIDE DEF x, a, b
  <2>2. x \in 0..(b - 1)
    BY <2>1
  <2> QED BY <2>2 DEF x, b
<1> QED BY <1>4, <1>7, <1>9, <1>10, <1>11

(* The bytes of an entry. *)
LEMMA ByteFacts ==
    ASSUME NEW x \in 0..(Radix * Radix - 1)
    PROVE  /\ LowByte(x) \in 0..(Radix - 1) /\ HighByte(x) \in 0..(Radix - 1)
           /\ LowByte(x) + Radix * HighByte(x) = x
           /\ x \in 0..(Radix - 1) => LowByte(x) = x /\ HighByte(x) = 0
<1> DEFINE q == Radix
           l == x % q
           h == x \div q
<1>1. q \in Nat /\ q >= 2 /\ x \in Nat /\ x < q * q
  BY RadixFacts, ProductsAreNat
<1> HIDE DEF q
<1>2. l \in 0..(q - 1) /\ h \in Nat /\ x = h * q + l
  BY <1>1, Divided
<1>3. x \in 0..(q - 1) => l = x /\ h = 0
  <2> SUFFICES ASSUME x \in 0..(q - 1) PROVE l = x /\ h = 0
    OBVIOUS
  <2>1. 0 \in Nat /\ 0 * q + x = x /\ q > 0
    BY <1>1
  <2>2. (0 * q + x) % q = x /\ (0 * q + x) \div q = 0
    BY <1>1, <2>1, ModUnique
  <2> QED BY <2>1, <2>2
<1> HIDE DEF l, h
<1>4. h * q = q * h /\ q * h \in Nat
  BY <1>1, <1>2, SMT, ProductsAreNat
<1>5. h <= q - 1
  <2>1. CASE h >= q
    <3>1. q * q <= q * h
      BY <1>1, <1>2, <2>1, ProductMonotone
    <3>2. q * q \in Nat
      BY <1>1, ProductsAreNat
    <3> QED BY <1>1, <1>2, <1>4, <3>1, <3>2
  <2> QED BY <1>1, <1>2, <2>1
<1> QED BY <1>1, <1>2, <1>3, <1>4, <1>5 DEF LowByte, HighByte, l, h, q

(* Two bytes of a word, read back. *)
LEMMA PairFacts ==
    ASSUME NEW a \in 0..(Radix - 1), NEW b \in 0..(Radix - 1)
    PROVE  LowByte(a + Radix * b) = a /\ HighByte(a + Radix * b) = b
<1> DEFINE q == Radix
<1>1. q \in Nat /\ q > 0 /\ a \in 0..(q - 1) /\ b \in Nat
  BY RadixFacts
<1> HIDE DEF q
<1>2. (b * q + a) % q = a /\ (b * q + a) \div q = b
  BY <1>1, ModUnique
<1>3. a + q * b = b * q + a
  BY <1>1, SMT
<1> QED BY <1>2, <1>3 DEF LowByte, HighByte, q

(* The place of row r in tiles of B columns: lane of the group of four rows   *)
(* that r is in.                                                              *)
LEMMA GroupFacts ==
    ASSUME NEW B \in Nat, B >= 1, NEW rows \in Nat, rows % GroupRows = 0, NEW r \in 0..(rows - 1),
           NEW lane \in 0..(4 * B - 1)
    PROVE  LET g == Down(r, GroupRows)
               n == g * B + lane
           IN  /\ g \in Nat /\ r = g + (r % 4) /\ r % 4 \in 0..3 /\ n \in 0..(B * rows - 1)
               /\ Down(n \div B, GroupRows) = g /\ n - g * B = lane
<1> DEFINE k == r \div 4
           m == r % 4
           g == Down(r, GroupRows)
           n == g * B + lane
           lq == lane \div B
           lr == lane % B
           kr == rows \div 4
<1>1. k \in Nat /\ m \in 0..3 /\ r = k * 4 + m /\ g = k * 4 /\ kr \in Nat /\ rows = kr * 4
  BY DEF Down, GroupRows
<1>2. lq \in Nat /\ lr \in 0..(B - 1) /\ lane = lq * B + lr
  BY Divided
<1> HIDE DEF k, m, g, lq, lr, kr
<1>3. lq <= 3
  <2>1. CASE lq >= 4
    <3>1. 4 * B <= lq * B
      BY <1>2, <2>1, ProductMonotone
    <3>2. lq * B \in Nat
      BY <1>2, ProductsAreNat
    <3> QED BY <1>2, <3>1, <3>2
  <2> QED BY <1>2, <2>1
<1>4. n = (g + lq) * B + lr /\ g * B \in Nat /\ n - g * B = lane /\ n \in Nat
  <2>1. (g + lq) * B = g * B + lq * B /\ g * B \in Nat /\ lq * B \in Nat
    BY <1>1, <1>2, SMT, ProductsAreNat
  <2> QED BY <1>2, <2>1
<1>5. n \div B = g + lq
  <2>1. g + lq \in Nat /\ B > 0
    BY <1>1, <1>2
  <2> DEFINE x == g + lq
  <2> HIDE DEF x
  <2>2. (x * B + lr) \div B = x
    BY <1>2, <2>1, ModUnique DEF x
  <2> QED BY <1>4, <2>2 DEF x
<1>6. Down(g + lq, GroupRows) = g
  <2>1. (g + lq) \div 4 = k
    BY <1>1, <1>2, <1>3
  <2> QED BY <1>1, <2>1 DEF Down, GroupRows
<1>7. n <= B * rows - 1
  <2>1. g + 4 <= rows
    BY <1>1
  <2>2. B * (g + 4) <= B * rows
    BY <1>1, <2>1, ProductMonotone
  <2>3. B * (g + 4) = g * B + 4 * B /\ B * rows \in Nat
    BY <1>1, SMT, ProductsAreNat
  <2> QED BY <1>4, <2>2, <2>3
<1>8. n \in 0..(B * rows - 1)
  <2>1. B * rows \in Nat
    BY ProductsAreNat
  <2> QED BY <1>4, <1>7, <2>1
<1>9. r = g + m
  BY <1>1
<1>10. Down(n \div B, GroupRows) = g
  BY <1>5, <1>6
<1> HIDE DEF n
<1>11. g \in Nat /\ r = g + m /\ m \in 0..3 /\ n \in 0..(B * rows - 1) /\ Down(n \div B, GroupRows) = g /\ n - g * B = lane
  BY <1>1, <1>4, <1>8, <1>9, <1>10
<1> QED BY <1>11, Zenon DEF n, g, m

LEMMA PlainReads ==
    ASSUME Laid, ~Tiled(kernel), NEW col \in Columns(kernel), NEW r \in 0..(KernelRows - 1)
    PROVE  LowAt(col, r) = LowByte(EntryAt(col, r)) /\ HighAt(col, r) = HighByte(EntryAt(col, r))
<1>1. kernel.kind # "u8_tiled" /\ kernel.kind # "u16_tiled"
  BY DEF Tiled
<1>2. tiles = kernel.db
  BY <1>1 DEF Laid, Layout
<1> QED BY <1>1, <1>2 DEF LowAt, HighAt, EntryAt, KernelRows

LEMMA NarrowReads ==
    ASSUME Laid, kernel.kind = "u8_tiled", NEW col \in Columns(kernel), NEW r \in 0..(KernelRows - 1)
    PROVE  LowAt(col, r) = EntryAt(col, r) /\ HighAt(col, r) = 0
<1> DEFINE g == Down(r, GroupRows)
           m == r % 4
           lane == col * 4 + m
           n == g * BandCols + lane
           N == Len(kernel.db)
           B == BandCols
           R == KernelRows
<1>1. Tiled(kernel) /\ kernel \in KernelTasks /\ R % GroupRows = 0
  BY DEF Laid, Tiled
<1>2. B \in Nat /\ B >= 1 /\ R \in Nat /\ N = B * R /\ col \in 0..(B - 1) /\ r \in 0..(R - 1)
  BY <1>1, KernelSizes, TaskFacts, EntryTyped
<1>3. tiles = interleave_u8_columns(kernel.db, R)
  BY DEF Laid, Layout, KernelRows
<1>4. lane \in 0..(4 * B - 1) /\ lane \div 4 = col /\ lane % 4 = m
  <2>1. m \in 0..3 /\ r \in Nat
    BY <1>2
  <2> HIDE DEF m
  <2> QED BY <1>2, <2>1
<1> HIDE DEF B, R, N, lane
<1>5. /\ g \in Nat /\ r = g + m /\ m \in 0..3 /\ n \in 0..(B * R - 1)
      /\ Down(n \div B, GroupRows) = g /\ n - g * B = lane
  <2>1. lane \in 0..(4 * B - 1)
    BY <1>4
  <2>2. n = Down(r, GroupRows) * B + lane
    BY DEF B
  <2> HIDE DEF n
  <2> QED BY <1>1, <1>2, <2>1, <2>2, GroupFacts
<1> HIDE DEF g, m
<1>6. tiles[n + 1] = Entry(kernel.db, R, lane \div GroupRows, g + (lane % GroupRows))
  <2> DEFINE x == n + 1
  <2>1. x \in 1..N /\ x - 1 = n
    BY <1>2, <1>5
  <2> HIDE DEF n, x
  <2>2. tiles[x] = Entry(kernel.db, R, (x - 1 - (Down((x - 1) \div BandCols, GroupRows)) * BandCols) \div GroupRows,
                         Down((x - 1) \div BandCols, GroupRows)
                           + ((x - 1 - (Down((x - 1) \div BandCols, GroupRows)) * BandCols) % GroupRows))
    BY <1>3, <2>1 DEF interleave_u8_columns, N
  <2> QED BY <1>5, <2>1, <2>2 DEF B, x
<1>7. tiles[n + 1] = EntryAt(col, r)
  BY <1>4, <1>5, <1>6 DEF GroupRows, EntryAt, R
<1>8. LowAt(col, r) = tiles[Down(r, GroupRows) * BandCols + col * GroupRows + (r % GroupRows) + 1]
  BY DEF LowAt
<1>9. Down(r, GroupRows) * BandCols + col * GroupRows + (r % GroupRows) + 1 = n + 1
  <2> DEFINE y == g * BandCols
  <2>1. y \in Nat
    BY <1>5, KernelSizes, ProductsAreNat
  <2>2. y + col * 4 + m + 1 = (y + (col * 4 + m)) + 1
    <3> HIDE DEF y
    <3> QED BY <1>2, <1>5, <2>1
  <2> QED BY <2>2 DEF n, lane, g, m, GroupRows
<1>10. HighAt(col, r) = 0
  BY DEF HighAt
<1> QED BY <1>7, <1>8, <1>9, <1>10

(* Row r of a column in tiles of words: its byte is in the word of its plane  *)
(* and of its pair of rows.                                                   *)
LEMMA WideReads ==
    ASSUME Laid, kernel.kind = "u16_tiled", NEW col \in Columns(kernel), NEW r \in 0..(KernelRows - 1), NEW plane \in {0, 1}
    PROVE  TileByte(tiles, plane, col, r)
              = IF plane = 0 THEN LowByte(EntryAt(col, r)) ELSE HighByte(EntryAt(col, r))
<1> DEFINE B == BandCols
           R == KernelRows
           N == Len(kernel.db)
           g == Down(r, GroupRows)
           m == r % 4
           half == m \div 2
           pair == col * 2 + half
           lane == plane * (2 * B) + pair
           n == g * B + lane
           byte(x) == IF plane = 0 THEN LowByte(x) ELSE HighByte(x)
           first == g + 2 * half
           lo == byte(Entry(kernel.db, R, col, first))
           hi == byte(Entry(kernel.db, R, col, first + 1))
<1>1. Tiled(kernel) /\ kernel \in KernelTasks /\ R % GroupRows = 0
  BY DEF Laid, Tiled
<1>2. B \in Nat /\ B >= 1 /\ R \in Nat /\ N = B * R /\ col \in 0..(B - 1) /\ r \in 0..(R - 1)
  BY <1>1, KernelSizes, TaskFacts, EntryTyped
<1>3. tiles = interleave_columns(kernel.db, R)
  BY DEF Laid, Layout, KernelRows
<1>4. m \in 0..3 /\ half \in 0..1 /\ m = 2 * half + (m % 2) /\ m % 2 \in 0..1 /\ r % 2 = m % 2
  <2>1. r \in Nat
    BY <1>2
  <2> QED BY <2>1
<1> HIDE DEF m, half
<1>5. /\ pair \in 0..(2 * B - 1) /\ pair \div 2 = col /\ pair % 2 = half
      /\ lane \in 0..(4 * B - 1) /\ lane \div (2 * B) = plane /\ lane % (2 * B) = pair
  <2>1. pair \in 0..(2 * B - 1) /\ pair \div 2 = col /\ pair % 2 = half
    BY <1>2, <1>4
  <2> HIDE DEF pair
  <2> DEFINE w == 2 * B
  <2>2. w \in Nat /\ w > 0 /\ 4 * B = w + w /\ pair \in 0..(w - 1) /\ plane \in Nat
    BY <1>2, <2>1
  <2> HIDE DEF w
  <2>3. (plane * w + pair) % w = pair /\ (plane * w + pair) \div w = plane
    BY <2>2, ModUnique
  <2>4. plane * w + pair \in 0..(4 * B - 1)
    BY <2>2
  <2> QED BY <2>1, <2>3, <2>4 DEF w
<1> HIDE DEF B, R, N, lane, pair
<1>6. /\ g \in Nat /\ r = g + m /\ n \in 0..(B * R - 1)
      /\ Down(n \div B, GroupRows) = g /\ n - g * B = lane
  <2>1. lane \in 0..(4 * B - 1)
    BY <1>5
  <2>2. n = Down(r, GroupRows) * B + lane
    OBVIOUS
  <2> HIDE DEF n
  <2> QED BY <1>1, <1>2, <2>1, <2>2, GroupFacts DEF m
<1> HIDE DEF g, lo, hi
<1>7. tiles[n + 1] = lo + Radix * hi
  <2> DEFINE x == n + 1
  <2>1. x \in 1..N /\ x - 1 = n
    BY <1>2, <1>6
  <2> HIDE DEF n, x
  <2> DEFINE gg == Down((x - 1) \div BandCols, GroupRows)
             ll == (x - 1) - gg * BandCols
             pp == ll \div (2 * BandCols)
             rr == ll % (2 * BandCols)
             ff == gg + 2 * (rr % 2)
             bb(e) == IF pp = 0 THEN LowByte(e) ELSE HighByte(e)
  <2>2. tiles[x] = bb(Entry(kernel.db, R, rr \div 2, ff)) + Radix * bb(Entry(kernel.db, R, rr \div 2, ff + 1))
    BY <1>3, <2>1 DEF interleave_columns, N
  <2>3. gg = g /\ ll = lane
    BY <1>6, <2>1 DEF B
  <2>4. pp = plane /\ rr = pair
    BY <1>5, <2>3 DEF B
  <2>5. rr \div 2 = col /\ ff = first
    BY <1>5, <2>3, <2>4
  <2> HIDE DEF gg, ll, pp, rr, ff, bb
  <2>6. \A e : bb(e) = byte(e)
    BY <2>4 DEF bb
  <2> HIDE DEF byte, first
  <2>7. lo = bb(Entry(kernel.db, R, rr \div 2, ff)) /\ hi = bb(Entry(kernel.db, R, rr \div 2, ff + 1))
    BY <2>5, <2>6 DEF lo, hi
  <2> QED BY <2>2, <2>7 DEF x
<1>8. first \in 0..(R - 1) /\ first + 1 \in 0..(R - 1) /\ r = first + (m % 2)
  <2>1. PICK k \in Nat : g = k * 4
    <3>1. r \div 4 \in Nat
      BY <1>2
    <3> QED BY <3>1 DEF g, Down, GroupRows
  <2>2. R % 4 = 0
    BY <1>1 DEF GroupRows
  <2> QED BY <1>2, <1>4, <1>6, <2>1, <2>2
<1> HIDE DEF first
<1>9. lo \in 0..(Radix - 1) /\ hi \in 0..(Radix - 1)
  <2>1. Entry(kernel.db, R, col, first) = EntryAt(col, first) /\ Entry(kernel.db, R, col, first + 1) = EntryAt(col, first + 1)
    BY DEF EntryAt, R
  <2>2. /\ EntryAt(col, first) \in 0..(Radix * Radix - 1)
        /\ EntryAt(col, first + 1) \in 0..(Radix * Radix - 1)
    BY <1>1, <1>8, EntryTyped DEF R
  <2>3. \A x \in 0..(Radix * Radix - 1) : byte(x) \in 0..(Radix - 1)
    <3> TAKE x \in 0..(Radix * Radix - 1)
    <3>1. LowByte(x) \in 0..(Radix - 1) /\ HighByte(x) \in 0..(Radix - 1)
      BY ByteFacts
    <3> QED BY <3>1
  <2> HIDE DEF byte
  <2> QED BY <2>1, <2>2, <2>3 DEF lo, hi
<1>10. LowByte(lo + Radix * hi) = lo /\ HighByte(lo + Radix * hi) = hi
  BY <1>9, PairFacts
<1> DEFINE ln == col * GroupRows + (r % GroupRows)
           got == tiles[Down(r, GroupRows) * BandCols + plane * 2 * BandCols + (ln \div 2) + 1]
<1>11. TileByte(tiles, plane, col, r) = IF ln % 2 = 0 THEN LowByte(got) ELSE HighByte(got)
  BY Zenon DEF TileByte
<1>12. ln \div 2 = pair /\ ln % 2 = m % 2
  <2>1. ln = col * 4 + m
    BY DEF GroupRows, m
  <2> QED BY <1>2, <1>4, <2>1 DEF pair
<1>13. got = tiles[n + 1]
  <2> DEFINE y == g * BandCols
             z == plane * (2 * B)
  <2>1. y \in Nat /\ z \in Nat /\ plane * 2 * BandCols = z
    <3>1. y \in Nat
      BY <1>6, KernelSizes, ProductsAreNat
    <3>2. z \in Nat /\ plane * 2 * BandCols = z
      BY <1>2 DEF B
    <3> QED BY <3>1, <3>2
  <2>2. pair \in Nat
    BY <1>2, <1>5
  <2>3. (y + z) + pair + 1 = (y + (z + pair)) + 1
    <3> HIDE DEF y, z
    <3> QED BY <2>1, <2>2
  <2>4. n + 1 = (y + (z + pair)) + 1
    BY DEF n, lane, B
  <2>5. got = tiles[(y + z) + pair + 1]
    BY <1>12, <2>1 DEF g
  <2> HIDE DEF got, n, y, z
  <2> QED BY <2>3, <2>4, <2>5
<1> HIDE DEF ln, got
<1>14. TileByte(tiles, plane, col, r) = IF m % 2 = 0 THEN lo ELSE hi
  BY <1>7, <1>10, <1>11, <1>12, <1>13
<1>15. CASE m % 2 = 0
  <2>1. r = first
    BY <1>8, <1>15
  <2> QED BY <1>14, <1>15, <2>1 DEF lo, EntryAt, R
<1>16. CASE m % 2 # 0
  <2>1. r = first + 1
    BY <1>4, <1>8, <1>16
  <2> QED BY <1>14, <1>16, <2>1 DEF hi, EntryAt, R
<1> QED BY <1>15, <1>16

(* Every layout reads back as the database. *)
LEMMA LayoutReads == Laid => BytesOK
<1> SUFFICES ASSUME Laid, NEW col \in Columns(kernel), NEW r \in 0..(KernelRows - 1)
             PROVE  /\ LowAt(col, r) \in 0..(Radix - 1) /\ HighAt(col, r) \in 0..(Radix - 1)
                    /\ LowAt(col, r) + Radix * HighAt(col, r) = EntryAt(col, r)
                    /\ kernel.kind = "u8_tiled" => HighAt(col, r) = 0
  BY DEF BytesOK
<1> DEFINE x == EntryAt(col, r)
<1>1. kernel \in KernelTasks
  BY DEF Laid
<1>2. x \in 0..(Radix * Radix - 1) /\ x \in 0..(WordOf(kernel.kind) - 1)
  BY <1>1, EntryTyped
<1>3. /\ LowByte(x) \in 0..(Radix - 1) /\ HighByte(x) \in 0..(Radix - 1)
      /\ LowByte(x) + Radix * HighByte(x) = x
      /\ x \in 0..(Radix - 1) => LowByte(x) = x /\ HighByte(x) = 0
  BY <1>2, ByteFacts
<1>4. CASE kernel.kind = "u8_tiled"
  <2>1. LowAt(col, r) = x /\ HighAt(col, r) = 0
    BY <1>4, NarrowReads
  <2>2. x \in 0..(Radix - 1)
    BY <1>2, <1>4 DEF WordOf
  <2> HIDE DEF x
  <2>3. 0 \in 0..(Radix - 1) /\ x + Radix * 0 = x
    BY <2>2, RadixFacts
  <2> QED BY <2>1, <2>2, <2>3 DEF x
<1>5. CASE kernel.kind = "u16_tiled"
  <2>1. LowAt(col, r) = TileByte(tiles, 0, col, r) /\ HighAt(col, r) = TileByte(tiles, 1, col, r)
    BY <1>5 DEF LowAt, HighAt
  <2>2. 0 \in {0, 1} /\ 1 \in {0, 1}
    OBVIOUS
  <2>3. LowAt(col, r) = LowByte(x) /\ HighAt(col, r) = HighByte(x)
    BY <1>5, <2>1, <2>2, WideReads
  <2> QED BY <1>3, <1>5, <2>3
<1>6. CASE ~Tiled(kernel)
  <2>1. LowAt(col, r) = LowByte(x) /\ HighAt(col, r) = HighByte(x)
    BY <1>6, PlainReads
  <2>2. kernel.kind # "u8_tiled"
    BY <1>6 DEF Tiled
  <2> QED BY <1>3, <2>1, <2>2
<1> QED BY <1>4, <1>5, <1>6 DEF Tiled

-----------------------------------------------------------------------------
(* The steps of a kernel *)

LEMMA DotTerms ==
    ASSUME Ready, NEW col \in Columns(kernel), NEW from \in 0..KernelRows, NEW to \in from..KernelRows
    PROVE  IntTerms(Dots(col), from, to)
<1>1. KernelRows \in Nat /\ \A i \in 1..KernelRows : kernel.words[i] \in Nat
  BY TaskFacts DEF Ready
<1>2. \A r \in 0..(KernelRows - 1) : Dots(col)[r] \in Int
  <2> TAKE r \in 0..(KernelRows - 1)
  <2> DEFINE e == EntryAt(col, r)
             w == kernel.words[r + 1]
  <2>1. e \in Int
    BY EntryIsNat
  <2>2. w \in Int
    BY <1>1
  <2>3. Dots(col)[r] = e * w
    BY DEF Dots
  <2> HIDE DEF e, w
  <2> QED BY <2>1, <2>2, <2>3, ProductsAreInt
<1>3. from \in Nat /\ to \in Nat /\ from <= to /\ to <= KernelRows
  BY <1>1
<1>4. \A r \in from..(to - 1) : r \in 0..(KernelRows - 1)
  BY <1>1, <1>3
<1> QED BY <1>2, <1>3, <1>4 DEF IntTerms

(* What the scalar and vector code adds after the last chunk. *)
RestAt(col, at) == [i \in 1..(KernelRows - at) |-> LowAt(col, at + i - 1) + Radix * HighAt(col, at + i - 1)]
LeftWords(at) == SubSeq(kernel.words, at + 1, KernelRows)

LEMMA RestExact ==
    ASSUME Ready, NEW col \in Columns(kernel), NEW at \in 0..KernelRows, NEW simd
    PROVE  /\ vector_dot(RestAt(col, at), LeftWords(at), simd) \in Nat
           /\ Same(vector_dot(RestAt(col, at), LeftWords(at), simd), SumOf(Dots(col), at, KernelRows), 2^kernel.qbits)
<1> DEFINE L == KernelRows - at
           a == RestAt(col, at)
           b == LeftWords(at)
           p == Products(a, b)
           dots == Dots(col)
           h == [r \in 0..(L - 1) |-> dots[r + at]]
           v == vector_dot(a, b, simd)
           zero == 0
<1>1. /\ KernelRows \in Nat /\ at \in Nat /\ L \in Nat /\ at + L = KernelRows /\ kernel.words \in Seq(Nat)
      /\ KernelRows = Len(kernel.words)
      /\ kernel.qbits \in Nat /\ kernel.qbits <= LowWordBits /\ LowWordBits \in Nat
  <2>1. /\ KernelRows \in Nat /\ kernel.words \in Seq(Nat) /\ kernel.qbits \in Nat /\ kernel.qbits <= LowWordBits
        /\ LowWordBits \in Nat
    BY TaskFacts, KernelSizes DEF Ready
  <2>2. KernelRows = Len(kernel.words)
    BY DEF KernelRows
  <2> QED BY <2>1, <2>2
<1>2. Len(b) = L /\ \A i \in 1..L : b[i] = kernel.words[at + i] /\ b[i] \in Nat
  <2>1. at + 1 \in 1..(KernelRows + 1)
    BY <1>1
  <2>2. b = SubSeq(kernel.words, at + 1, KernelRows)
    BY DEF LeftWords
  <2>3. \A i \in 1..KernelRows : kernel.words[i] \in Nat
    BY TaskFacts DEF Ready
  <2> DEFINE w == kernel.words
  <2>4. w \in Seq(Nat) /\ Len(w) = KernelRows /\ b = SubSeq(w, at + 1, KernelRows)
    BY <1>1, <2>2
  <2> HIDE DEF w, b, L
  <2>5. Len(b) = L
    <3>1. KernelRows - (at + 1) + 1 = L
      BY <1>1
    <3> DEFINE from == at + 1
    <3>2. from \in 1..(Len(w) + 1) /\ KernelRows \in (from - 1)..Len(w) /\ KernelRows - from + 1 = L /\ b = SubSeq(w, from, KernelRows)
      BY <1>1, <2>4, <3>1
    <3> HIDE DEF from
    <3> QED BY <2>4, <3>2
  <2>6. \A i \in 1..L : b[i] = w[at + i]
    <3> TAKE i \in 1..L
    <3>1. i \in 1..(KernelRows - (at + 1) + 1) /\ (at + 1) + i - 1 = at + i
      BY <1>1
    <3>2. b[i] = w[(at + 1) + i - 1]
      BY <1>1, <2>1, <2>4, <3>1
    <3> QED BY <3>1, <3>2
  <2>7. \A i \in 1..L : w[at + i] \in Nat
    <3> TAKE i \in 1..L
    <3>1. at + i \in 1..KernelRows
      BY <1>1
    <3> QED BY <2>3, <3>1 DEF w
  <2> QED BY <2>5, <2>6, <2>7 DEF w
<1>3. \A i \in 1..L : a[i] = EntryAt(col, at + i - 1) /\ a[i] \in Nat
  <2> TAKE i \in 1..L
  <2> DEFINE r == at + i - 1
  <2>1. r \in 0..(KernelRows - 1)
    BY <1>1
  <2>2. a[i] = LowAt(col, r) + Radix * HighAt(col, r)
    BY DEF RestAt
  <2> HIDE DEF r
  <2>3. a[i] = EntryAt(col, r) /\ EntryAt(col, r) \in Nat
    BY <2>1, <2>2, EntryIsNat DEF Ready, BytesOK
  <2> QED BY <2>3 DEF r
<1> HIDE DEF a, b
<1>4. Factors(a, b)
  <2>1. \A i \in 1..L : a[i] \in Int /\ b[i] \in Nat
    BY <1>2, <1>3
  <2> HIDE DEF L
  <2> QED BY <1>1, <1>2, <2>1 DEF Factors
<1>5. v \in Nat /\ Same(v, SumOf(p, 1, L + 1), 2^LowWordBits)
  BY <1>2, <1>4, VectorDot
<1>6. \A r \in 0..(L - 1) : h[r] \in Int /\ p[r + 1] = h[r]
  <2> TAKE r \in 0..(L - 1)
  <2> DEFINE i == r + 1
             m == r + at
  <2>1. i \in 1..L /\ m \in 0..(KernelRows - 1) /\ at + i - 1 = m /\ at + i = m + 1
    BY <1>1
  <2>2. h[r] = dots[m]
    OBVIOUS
  <2>3. p[i] = a[i] * b[i]
    BY <1>2, <2>1 DEF Products
  <2> HIDE DEF i, m, p, h
  <2>4. dots[m] = EntryAt(col, m) * kernel.words[m + 1]
    BY <2>1 DEF Dots
  <2>5. a[i] = EntryAt(col, m) /\ b[i] = kernel.words[m + 1] /\ a[i] \in Int /\ b[i] \in Int
    <3>1. a[i] = EntryAt(col, at + i - 1) /\ a[i] \in Nat
      BY <1>3, <2>1
    <3>2. b[i] = kernel.words[at + i] /\ b[i] \in Nat
      BY <1>2, <2>1
    <3>3. EntryAt(col, at + i - 1) = EntryAt(col, m) /\ kernel.words[at + i] = kernel.words[m + 1]
      BY <2>1
    <3> QED BY <3>1, <3>2, <3>3
  <2>6. a[i] * b[i] \in Int
    BY <2>5, ProductsAreInt
  <2> QED BY <2>2, <2>3, <2>4, <2>5, <2>6 DEF i
<1>7. \A r \in 0..(L - 1) : dots[r + at] = h[r]
  OBVIOUS
<1> HIDE DEF p, h, dots, L, v
<1>8. IntTerms(h, zero, L)
  BY <1>1, <1>6 DEF IntTerms
<1>9. SumOf(p, 1, L + 1) = SumOf(h, zero, L)
  <2> DEFINE one == 1
  <2>1. one \in Nat /\ \A r \in zero..(L - 1) : p[r + one] = h[r]
    BY <1>6
  <2>2. zero + one = 1 /\ L + one = L + 1
    OBVIOUS
  <2> HIDE DEF zero, one
  <2>3. Shifts(h, p, zero, L, one)
    BY <1>8, <2>1 DEF Shifts
  <2>4. SumOf(p, zero + one, L + one) = SumOf(h, zero, L)
    BY <2>3, SumShift
  <2> QED BY <2>2, <2>4
<1>10. SumOf(dots, at, KernelRows) = SumOf(h, zero, L)
  <2>1. at \in Nat /\ \A r \in zero..(L - 1) : dots[r + at] = h[r]
    BY <1>1, <1>7
  <2>2. zero + at = at /\ L + at = KernelRows
    BY <1>1
  <2> HIDE DEF zero
  <2>3. Shifts(h, dots, zero, L, at)
    BY <1>8, <2>1 DEF Shifts
  <2>4. SumOf(dots, zero + at, L + at) = SumOf(h, zero, L)
    BY <2>3, SumShift
  <2> QED BY <2>2, <2>4
<1>11. Same(v, SumOf(dots, at, KernelRows), 2^LowWordBits)
  BY <1>5, <1>9, <1>10
<1>12. Same(v, SumOf(dots, at, KernelRows), 2^kernel.qbits)
  BY <1>1, <1>11, SameLower
<1> QED BY <1>5, <1>12 DEF v, dots, a, b

(* The invariant: nothing prepared, or every column congruent to the sum of   *)
(* the rows taken so far, or equal to the whole sum modulo q once masked.     *)
Unprepared == kernel \in KernelTasks /\ query = << >> /\ row = 0
Summed == \A col \in Columns(kernel) :
    kout[col] \in Nat /\ Same(kout[col], SumOf(Dots(col), 0, row), 2^kernel.qbits)
Answered == \A col \in Columns(kernel) : kout[col] = SumOf(Dots(col), 0, KernelRows) % 2^kernel.qbits

KernelInv ==
    \/ Unprepared
    \/ /\ Ready /\ DOMAIN kout = Columns(kernel)
       /\ (row \in 0..KernelRows /\ Summed) \/ (row = KernelRows + 1 /\ Answered)

LEMMA ChunkStop ==
    ASSUME row \in 0..KernelRows, KernelRows \in Nat, NEW end \in Nat, end <= KernelRows, row < end
    PROVE  /\ ChunkEnd(row, end) \in Nat /\ row < ChunkEnd(row, end) /\ ChunkEnd(row, end) <= KernelRows
           /\ ChunkEnd(row, end) - row <= ChunkRows
<1> DEFINE S == {row + ChunkRows, end}
<1>1. S \subseteq Nat /\ S # {} /\ row + ChunkRows \in S /\ row \in Nat
  BY KernelSizes
<1>2. \A x \in S : row < x /\ (x <= KernelRows \/ x = row + ChunkRows)
  BY KernelSizes
<1>3. end \in S /\ ChunkEnd(row, end) = Min(S)
  BY DEF ChunkEnd
<1> HIDE DEF S
<1>4. Min(S) \in S /\ Min(S) \in Nat /\ Min(S) <= end /\ Min(S) <= row + ChunkRows
  BY <1>1, <1>3, MinIs
<1> QED BY <1>1, <1>2, <1>3, <1>4, KernelSizes

LEMMA ChunkKeeps ==
    ASSUME Ready, ByteKernel, row \in 0..KernelRows, Summed, NEW end \in Nat, end <= KernelRows, row < end,
           NEW col \in Columns(kernel)
    PROVE  LET x == LowWord(kout[col] + ChunkSum(col, row, ChunkEnd(row, end) - 1))
           IN  x \in Nat /\ Same(x, SumOf(Dots(col), 0, ChunkEnd(row, end)), 2^kernel.qbits)
<1> DEFINE stop == ChunkEnd(row, end)
           k == kout[col]
           c == ChunkSum(col, row, stop - 1)
           dots == Dots(col)
           q == 2^kernel.qbits
           before == SumOf(dots, 0, row)
           more == SumOf(dots, row, stop)
           y == k + c
<1>1. /\ KernelRows \in Nat /\ row \in Nat /\ kernel.qbits \in Nat /\ kernel.qbits <= LowWordBits
      /\ LowWordBits \in Nat
  BY TaskFacts, KernelSizes DEF Ready
<1>2. stop \in Nat /\ row < stop /\ stop <= KernelRows /\ stop - row <= ChunkRows
  BY <1>1, ChunkStop
<1> HIDE DEF stop
<1>3. Flushed(col, row, stop)
  BY <1>1, <1>2 DEF Flushed
<1>4. c \in Nat /\ Same(c, more, q)
  BY <1>3, ChunkExact
<1>5. k \in Nat /\ Same(k, before, q)
  BY DEF Summed
<1>6. SumOf(dots, 0, stop) = before + more
  <2>1. 0 \in 0..KernelRows /\ stop \in 0..KernelRows /\ row \in 0..stop
    BY <1>1, <1>2
  <2>2. IntTerms(dots, 0, stop)
    BY <2>1, DotTerms
  <2> HIDE DEF dots
  <2> QED BY <2>1, <2>2, SumSplit
<1> HIDE DEF c, k, dots, before, more, q
<1>7. Same(y, before + more, q)
  BY <1>4, <1>5, SameSum
<1>8. y \in Int
  BY <1>4, <1>5
<1> HIDE DEF y
<1>9. LowWord(y) \in Nat /\ Same(LowWord(y), y, 2^LowWordBits)
  BY <1>8, LowWordFacts
<1>10. Same(LowWord(y), y, q)
  BY <1>1, <1>9, SameLower DEF q
<1>11. Same(LowWord(y), before + more, q)
  BY <1>7, <1>10, SameTrans
<1> QED BY <1>6, <1>9, <1>11 DEF y, c, k, q, dots, stop

LEMMA FinishKeeps ==
    ASSUME Ready, row \in 0..KernelRows, Summed, NEW col \in Columns(kernel), NEW simd
    PROVE  Mask(kout[col] + vector_dot(RestAt(col, row), LeftWords(row), simd))
              = SumOf(Dots(col), 0, KernelRows) % 2^kernel.qbits
<1> DEFINE k == kout[col]
           v == vector_dot(RestAt(col, row), LeftWords(row), simd)
           dots == Dots(col)
           q == 2^kernel.qbits
           before == SumOf(dots, 0, row)
           more == SumOf(dots, row, KernelRows)
<1>1. KernelRows \in Nat
  BY TaskFacts DEF Ready
<1>2. Same(v, more, q)
  BY RestExact
<1>3. Same(k, before, q)
  BY DEF Summed
<1>4. SumOf(dots, 0, KernelRows) = before + more
  <2>1. 0 \in 0..KernelRows /\ KernelRows \in 0..KernelRows
    BY <1>1
  <2>2. IntTerms(dots, 0, KernelRows)
    BY <2>1, DotTerms
  <2> HIDE DEF dots
  <2> QED BY <2>1, <2>2, SumSplit
<1> HIDE DEF k, v, dots, q, before, more
<1>5. Same(k + v, before + more, q)
  BY <1>2, <1>3, SameSum
<1>6. (k + v) % q = (before + more) % q
  BY <1>5 DEF Same
<1> QED BY <1>4, <1>6, Zenon DEF Mask, k, v, q, dots

LEMMA KernelInitial == KernelInit => KernelInv
BY DEF KernelInit, KernelInv, Unprepared

LEMMA ReadyKept == Ready /\ UNCHANGED <<kernel, query, tiles>> => Ready'
<1> SUFFICES ASSUME Ready, kernel' = kernel, query' = query, tiles' = tiles PROVE Ready'
  OBVIOUS
<1>1. BytesOK'
  BY DEF Ready, BytesOK, LowAt, HighAt, EntryAt, KernelRows
<1> QED BY <1>1 DEF Ready

LEMMA PrepareKeeps == KernelInv /\ Prepare => KernelInv'
<1> SUFFICES ASSUME KernelInv, Prepare PROVE KernelInv'
  OBVIOUS
<1>1. kernel \in KernelTasks /\ row = 0 /\ kernel' = kernel /\ row' = row
  BY DEF KernelInv, Unprepared, Ready, Prepare
<1> DEFINE k == kernel
           n == new_query(k.words, k.qbits, k.simd = "vnni")
<1>2. query' = n
  BY DEF Prepare
<1>3. n # << >> /\ (n.digits # << >> => Decomposed(n, k.words, k.qbits))
  <2>1. CASE k.simd = "vnni"
    <3> DEFINE limbs == (k.qbits + DigitBits - 1) \div DigitBits
    <3>1. n = byte_digits(k.words, limbs)
      BY <2>1 DEF new_query
    <3>2. Decomposed(n, k.words, k.qbits)
      BY <1>1, <3>1, TaskFacts, DigitsDecompose
    <3>3. n = [digits |-> SubSeq(AllDigits(k.words, limbs), Skipped(k.words, limbs) + 1, limbs),
               skip |-> Skipped(k.words, limbs)]
      BY <3>1, BytesAre
    <3> HIDE DEF n
    <3>4. n # << >>
      BY <3>3
    <3> QED BY <3>2, <3>4
  <2>2. CASE k.simd # "vnni"
    <3>1. n = [digits |-> << >>, skip |-> 0]
      BY <2>2 DEF new_query
    <3> HIDE DEF n
    <3> QED BY <3>1
  <2> QED BY <2>1, <2>2
<1> HIDE DEF n
<1>4. Laid'
  <2>1. tiles' = Layout(kernel) /\ (Tiled(kernel) => KernelRows % GroupRows = 0)
    BY DEF Prepare, Layout, KernelRows
  <2> QED BY <1>1, <2>1 DEF Laid, KernelRows
<1>5. BytesOK'
  BY <1>4, LayoutReads, PTL
<1>6. Ready'
  BY <1>1, <1>2, <1>3, <1>5 DEF Ready
<1>7. kout' = [col \in Columns(kernel) |-> 0]
  BY DEF Prepare
<1>8. Summed'
  <2> SUFFICES ASSUME NEW col \in Columns(kernel)
               PROVE  kout'[col] \in Nat /\ Same(kout'[col], SumOf(Dots(col)', 0, 0), 2^kernel.qbits)
    BY <1>1 DEF Summed
  <2>1. SumOf(Dots(col)', 0, 0) = 0
    BY SumStep
  <2>2. kernel.qbits \in Nat
    BY <1>1, TaskFacts
  <2>3. 2^kernel.qbits \in Nat /\ 2^kernel.qbits > 0
    BY <2>2, PowerPositive
  <2>4. kout'[col] = 0
    BY <1>7
  <2>5. Same(0, 0, 2^kernel.qbits)
    BY <2>3, SameRefl
  <2> QED BY <2>1, <2>4, <2>5
<1>9. DOMAIN kout' = Columns(kernel')
  BY <1>1, <1>7
<1>10. row' \in 0..KernelRows'
  <2>1. KernelRows \in Nat
    BY <1>1, TaskFacts
  <2>2. KernelRows' = KernelRows
    BY <1>1 DEF KernelRows
  <2> QED BY <1>1, <2>1, <2>2
<1> QED BY <1>6, <1>8, <1>9, <1>10 DEF KernelInv

(* Chunk and Finish find prepared digits and rows that are not all taken. *)
LEMMA Running ==
    ASSUME KernelInv, query # << >>, row <= KernelRows
    PROVE  Ready /\ DOMAIN kout = Columns(kernel) /\ row \in 0..KernelRows /\ Summed /\ KernelRows \in Nat
<1>1. Ready /\ DOMAIN kout = Columns(kernel) /\ ((row \in 0..KernelRows /\ Summed) \/ (row = KernelRows + 1 /\ Answered))
  BY DEF KernelInv, Unprepared
<1>2. KernelRows \in Nat
  BY <1>1, TaskFacts DEF Ready
<1> QED BY <1>1, <1>2

LEMMA ChunkKeepsInv == KernelInv /\ Chunk => KernelInv'
<1> SUFFICES ASSUME KernelInv, Chunk PROVE KernelInv'
  OBVIOUS
<1> DEFINE end == IF Tiled(kernel) THEN KernelRows ELSE Down(KernelRows, ByteGroup)
           stop == ChunkEnd(row, end)
<1>1. /\ query # << >> /\ ByteKernel /\ row < end
      /\ kout' = [col \in DOMAIN kout |-> LowWord(kout[col] + ChunkSum(col, row, stop - 1))]
      /\ row' = stop /\ kernel' = kernel /\ query' = query /\ tiles' = tiles
  BY DEF Chunk, KernelRows
<1>2. kernel \in KernelTasks
  BY DEF KernelInv, Unprepared, Ready
<1>3. KernelRows \in Nat
  BY <1>2, TaskFacts
<1>4. end \in Nat /\ end <= KernelRows
  BY <1>3, KernelSizes, DownFacts
<1> HIDE DEF end
<1>5. row \in Nat
  BY <1>3 DEF KernelInv, Unprepared
<1>6. Ready /\ DOMAIN kout = Columns(kernel) /\ row \in 0..KernelRows /\ Summed
  <2>1. row <= KernelRows
    BY <1>1, <1>3, <1>4, <1>5
  <2> QED BY <1>1, <2>1, Running
<1>7. stop \in Nat /\ row < stop /\ stop <= KernelRows
  BY <1>1, <1>3, <1>4, <1>6, ChunkStop
<1>8. \A col \in Columns(kernel) :
        LET x == LowWord(kout[col] + ChunkSum(col, row, stop - 1))
        IN  x \in Nat /\ Same(x, SumOf(Dots(col), 0, stop), 2^kernel.qbits)
  BY <1>1, <1>4, <1>6, ChunkKeeps
<1> HIDE DEF stop
<1>9. \A col \in Columns(kernel) : kout'[col] \in Nat /\ Same(kout'[col], SumOf(Dots(col), 0, stop), 2^kernel.qbits)
  BY <1>1, <1>6, <1>8
<1>10. KernelRows' = KernelRows /\ \A col : Dots(col)' = Dots(col)
  BY <1>1 DEF Dots, EntryAt, KernelRows
<1>11. Summed'
  BY <1>1, <1>9, <1>10 DEF Summed
<1>12. Ready'
  BY <1>1, <1>6, ReadyKept
<1>13. DOMAIN kout' = Columns(kernel') /\ row' \in 0..KernelRows'
  BY <1>1, <1>3, <1>6, <1>7, <1>10
<1> QED BY <1>11, <1>12, <1>13 DEF KernelInv

LEMMA FinishKeepsInv == KernelInv /\ Finish => KernelInv'
<1> SUFFICES ASSUME KernelInv, Finish PROVE KernelInv'
  OBVIOUS
<1> DEFINE simd == IF Tiled(kernel) \/ ByteKernel THEN "scalar" ELSE kernel.simd
<1>1. /\ query # << >> /\ row <= KernelRows /\ row' = KernelRows + 1
      /\ kernel' = kernel /\ query' = query /\ tiles' = tiles
  BY DEF Finish, KernelRows
<1>2. kout' = [col \in DOMAIN kout |-> Mask(kout[col] + vector_dot(RestAt(col, row), LeftWords(row), simd))]
  BY Zenon DEF Finish, KernelRows, RestAt, LeftWords
<1>3. Ready /\ DOMAIN kout = Columns(kernel) /\ row \in 0..KernelRows /\ Summed /\ KernelRows \in Nat
  BY <1>1, Running
<1> HIDE DEF simd
<1>4. \A col \in Columns(kernel) : kout'[col] = SumOf(Dots(col), 0, KernelRows) % 2^kernel.qbits
  BY <1>2, <1>3, FinishKeeps
<1>5. KernelRows' = KernelRows /\ \A col : Dots(col)' = Dots(col)
  BY <1>1 DEF Dots, EntryAt, KernelRows
<1>6. Answered'
  BY <1>1, <1>4, <1>5 DEF Answered
<1>7. Ready'
  BY <1>1, <1>3, ReadyKept
<1>8. DOMAIN kout' = Columns(kernel') /\ row' = KernelRows' + 1
  BY <1>1, <1>2, <1>3, <1>5
<1> QED BY <1>6, <1>7, <1>8 DEF KernelInv

LEMMA KernelStutters == KernelInv /\ UNCHANGED kernelvars => KernelInv'
<1> SUFFICES ASSUME KernelInv, kernel' = kernel, query' = query, tiles' = tiles, row' = row, kout' = kout
             PROVE  KernelInv'
  BY DEF kernelvars
<1>1. KernelRows' = KernelRows /\ \A col : Dots(col)' = Dots(col)
  BY DEF Dots, EntryAt, KernelRows
<1>2. Ready => Ready'
  BY ReadyKept
<1>3. (Summed => Summed') /\ (Answered => Answered')
  BY <1>1 DEF Summed, Answered
<1> QED BY <1>1, <1>2, <1>3 DEF KernelInv, Unprepared

MaskedDots(col) ==
    [r \in 0..(KernelRows - 1) |-> Mask(Mask(Entry(kernel.db, Len(kernel.words), col, r)) * kernel.words[r + 1])]

(* Masking the entries and their products does not change the sum modulo q. *)
LEMMA MaskedSame ==
    ASSUME Ready, NEW col \in Columns(kernel)
    PROVE  SumOf(MaskedDots(col), 0, KernelRows) % 2^kernel.qbits = SumOf(Dots(col), 0, KernelRows) % 2^kernel.qbits
<1> DEFINE q == 2^kernel.qbits
           m == MaskedDots(col)
           dots == Dots(col)
           zero == 0
<1>1. /\ KernelRows \in Nat /\ kernel.qbits \in Nat
      /\ \A i \in 1..KernelRows : kernel.words[i] \in Nat
  BY TaskFacts DEF Ready
<1>2. q \in Nat /\ q > 0
  BY <1>1, PowerPositive
<1>3. \A r \in 0..(KernelRows - 1) : Same(m[r], dots[r], q)
  <2> TAKE r \in 0..(KernelRows - 1)
  <2> DEFINE e == EntryAt(col, r)
             w == kernel.words[r + 1]
             f == e % q
             g == f * w
  <2>1. e \in Int
    BY EntryIsNat
  <2>2. w \in Int
    BY <1>1
  <2>3. dots[r] = e * w
    BY DEF Dots
  <2>4. m[r] = g % q
    BY DEF MaskedDots, Mask, EntryAt, KernelRows
  <2> HIDE DEF e, w, m, dots, q
  <2>5. Same(f, e, q) /\ f \in Int
    BY <1>2, <2>1, SameOfMod DEF Same
  <2>6. Same(w, w, q)
    BY <1>2, <2>2, SameRefl
  <2> HIDE DEF f
  <2>7. Same(g, e * w, q)
    BY <2>5, <2>6, SameProduct
  <2>8. g \in Int
    BY <2>7 DEF Same
  <2> HIDE DEF g
  <2>9. Same(g % q, g, q)
    BY <1>2, <2>8, SameOfMod
  <2>10. Same(g % q, e * w, q)
    BY <2>7, <2>9, SameTrans
  <2> QED BY <2>3, <2>4, <2>10
<1> HIDE DEF m, dots, q
<1>4. SameTerms(m, dots, q, zero, KernelRows)
  <2>1. \A r \in zero..(KernelRows - 1) : m[r] \in Int /\ dots[r] \in Int /\ m[r] % q = dots[r] % q
    BY <1>3 DEF Same
  <2> QED BY <1>1, <1>2, <2>1 DEF SameTerms, IntTerms
<1> HIDE DEF zero
<1>5. SumOf(m, zero, KernelRows) % q = SumOf(dots, zero, KernelRows) % q
  BY <1>4, SumModulo
<1> QED BY <1>5 DEF m, dots, q, zero

LEMMA KernelExact == KernelInv => DotExact
<1> SUFFICES ASSUME KernelInv, row > Len(kernel.words), NEW col \in DOMAIN kout
             PROVE  kout[col] = SumOver(LAMBDA r : Mask(Mask(Entry(kernel.db, Len(kernel.words), col, r))
                                                         * kernel.words[r + 1]),
                                        0, Len(kernel.words) - 1) % 2^kernel.qbits
  BY DEF DotExact
<1>1. kernel \in KernelTasks /\ KernelRows \in Nat /\ KernelRows >= 1 /\ row > KernelRows
  BY TaskFacts DEF KernelInv, Unprepared, Ready, KernelRows
<1>2. Ready /\ Answered /\ DOMAIN kout = Columns(kernel)
  BY <1>1 DEF KernelInv, Unprepared
<1>3. kout[col] = SumOf(MaskedDots(col), 0, KernelRows) % 2^kernel.qbits
  BY <1>2, MaskedSame DEF Answered
<1>4. SumOver(LAMBDA r : Mask(Mask(Entry(kernel.db, Len(kernel.words), col, r)) * kernel.words[r + 1]),
              0, Len(kernel.words) - 1) = SumOf(MaskedDots(col), 0, (KernelRows - 1) + 1)
  BY Zenon DEF SumOver, MaskedDots, KernelRows
<1>5. (KernelRows - 1) + 1 = KernelRows
  BY <1>1
<1> QED BY <1>3, <1>4, <1>5, Zenon

(* Every kernel returns the dot products modulo q for every database, query   *)
(* and width the entry points accept (native_kernel.rs: dot_u8, dot_u16,      *)
(* interleaved_u8_vnni, interleaved_vnni): the digits with the skipped low    *)
(* ones rebuild each word modulo q, every layout reads back as the database,  *)
(* no lane wraps between two flushes, and shifts, tail and mask add up.       *)
THEOREM KernelsAreExact == KernelSpec => []DotExact
<1>1. KernelInit => KernelInv
  BY KernelInitial
<1>2. KernelInv /\ [KernelNext]_kernelvars => KernelInv'
  BY PrepareKeeps, ChunkKeepsInv, FinishKeepsInv, KernelStutters DEF KernelNext
<1>3. KernelInv => DotExact
  BY KernelExact
<1> QED BY <1>1, <1>2, <1>3, PTL DEF KernelSpec

-----------------------------------------------------------------------------
(* Concatenated rows *)

Pieces(s, S, N) == N \in Nat /\ N >= 1 /\ Len(s) = N /\ \A i \in 1..N : s[i] \in Seq(S)
JoinEq(f, s, N) == f = [i \in 1..N |-> IF i = 1 THEN s[i] ELSE f[i - 1] \o s[i]]
Joins(f, s, S, N) ==
    /\ f[1] = s[1] /\ \A i \in 2..N : f[i] = f[i - 1] \o s[i]
    /\ \A i \in 1..N : f[i] \in Seq(S)

LEMMA JoinExists ==
    ASSUME NEW s, NEW S, NEW N, Pieces(s, S, N)
    PROVE  \E f : JoinEq(f, s, N)
<1> DEFINE T == Seq(S)
           start == s[1]
           step == [y \in Nat \X T |-> IF y[1] + 2 <= N THEN y[2] \o s[y[1] + 2] ELSE y[2]]
<1>1. N \in Nat /\ N >= 1 /\ \A i \in 1..N : s[i] \in T
  BY DEF Pieces
<1>2. \A a, b \in T : a \o b \in T
  OBVIOUS
<1>3. start \in T
  BY <1>1
<1> HIDE DEF T, start
<1>4. step \in [Nat \X T -> T]
  <2>1. ASSUME NEW y \in Nat \X T PROVE (IF y[1] + 2 <= N THEN y[2] \o s[y[1] + 2] ELSE y[2]) \in T
    <3>1. y[1] \in Nat /\ y[2] \in T
      OBVIOUS
    <3>2. CASE y[1] + 2 <= N
      <4>1. y[1] + 2 \in 1..N
        BY <1>1, <3>1, <3>2
      <4> QED BY <1>1, <1>2, <3>1, <3>2, <4>1
    <3> QED BY <3>1, <3>2
  <2> QED BY <2>1
<1>5. Recurs(T, start, step)
  BY <1>3, <1>4 DEF Recurs
<1>6. PICK p \in [Nat -> T] : p[0] = start /\ \A n \in Nat : p[n + 1] = step[<<n, p[n]>>]
  <2> HIDE DEF step
  <2> QED BY <1>5, Recursion
<1>7. ASSUME NEW i \in 2..N PROVE p[i - 1] = p[i - 2] \o s[i]
  <2> DEFINE n == i - 2
             y == <<n, p[n]>>
  <2>1. n \in Nat /\ n + 1 = i - 1 /\ n + 2 = i
    OBVIOUS
  <2>2. y \in Nat \X T /\ y[1] = n /\ y[2] = p[n]
    BY <1>6, <2>1
  <2>3. p[n + 1] = step[y]
    BY <1>6, <2>1
  <2>4. step[y] = IF y[1] + 2 <= N THEN y[2] \o s[y[1] + 2] ELSE y[2]
    BY <2>2
  <2> HIDE DEF y, n, step
  <2>5. n + 2 <= N
    BY <1>1, <2>1
  <2> QED BY <2>1, <2>2, <2>3, <2>4, <2>5 DEF n
<1> DEFINE f == [i \in 1..N |-> p[i - 1]]
<1>8. ASSUME NEW i \in 1..N PROVE f[i] = IF i = 1 THEN s[i] ELSE f[i - 1] \o s[i]
  <2>1. CASE i = 1
    BY <1>6, <2>1 DEF start
  <2>2. CASE i # 1
    <3>1. i \in 2..N /\ i - 1 \in 1..N /\ (i - 1) - 1 = i - 2
      BY <1>1, <2>2
    <3>2. f[i - 1] = p[(i - 1) - 1]
      BY <3>1
    <3>3. f[i] = p[i - 1] /\ f[i - 1] = p[i - 2]
      BY <3>1, <3>2
    <3> HIDE DEF f
    <3> QED BY <1>7, <2>2, <3>1, <3>3
  <2> QED BY <2>1, <2>2
<1>9. f = [i \in 1..N |-> f[i]]
  OBVIOUS
<1> HIDE DEF f
<1>10. f = [i \in 1..N |-> IF i = 1 THEN s[i] ELSE f[i - 1] \o s[i]]
  BY <1>8, <1>9, Zenon
<1>11. JoinEq(f, s, N)
  BY <1>10 DEF JoinEq
<1> QED BY <1>11

LEMMA JoinIs ==
    ASSUME NEW s, NEW S, NEW N, Pieces(s, S, N)
    PROVE  \E f : Joins(f, s, S, N) /\ FlattenSeq(s) = f[N]
<1> DEFINE f == CHOOSE g : JoinEq(g, s, N)
<1>1. N \in Nat /\ N >= 1 /\ Len(s) = N /\ \A i \in 1..N : s[i] \in Seq(S)
  BY DEF Pieces
<1>2. JoinEq(f, s, N)
  BY JoinExists
<1>3. FlattenSeq(s) = f[N]
  <2>1. Len(s) # 0 /\ Len(s) = N
    BY <1>1
  <2>2. FlattenSeq(s) = (CHOOSE g : g = [i \in 1..Len(s) |-> IF i = 1 THEN s[i] ELSE g[i - 1] \o s[i]])[Len(s)]
    BY <2>1, Zenon DEF FlattenSeq
  <2> QED BY <2>1, <2>2, Zenon DEF JoinEq
<1> HIDE DEF f
<1>4. f[1] = s[1] /\ \A i \in 2..N : f[i] = f[i - 1] \o s[i]
  <2>1. 1 \in 1..N /\ \A i \in 2..N : i \in 1..N /\ i # 1
    BY <1>1
  <2>2. \A i \in 1..N : f[i] = IF i = 1 THEN s[i] ELSE f[i - 1] \o s[i]
    BY <1>2, Zenon DEF JoinEq
  <2> QED BY <2>1, <2>2
<1> DEFINE T == Seq(S)
           K == {n \in Nat : n + 1 <= N => f[n + 1] \in T}
<1>5. \A a, b \in T : a \o b \in T
  OBVIOUS
<1>6. \A i \in 1..N : s[i] \in T
  BY <1>1
<1> HIDE DEF T
<1>7. 0 \in K
  BY <1>1, <1>4, <1>6
<1>8. ASSUME NEW n \in Nat, n \in K PROVE n + 1 \in K
  <2> SUFFICES ASSUME (n + 1) + 1 <= N PROVE f[(n + 1) + 1] \in T
    OBVIOUS
  <2> DEFINE i == n + 2
  <2>1. i \in 2..N /\ i \in 1..N /\ i - 1 = n + 1 /\ (n + 1) + 1 = i /\ n + 1 <= N
    BY <1>1
  <2>2. f[n + 1] \in T
    BY <1>8, <2>1
  <2>3. f[i] = f[i - 1] \o s[i]
    BY <1>4, <2>1
  <2>4. s[i] \in T /\ f[i - 1] \in T
    BY <1>6, <2>1, <2>2
  <2> HIDE DEF i
  <2>5. f[i] \in T
    BY <1>5, <2>3, <2>4
  <2> QED BY <2>1, <2>5
<1>9. Nat \subseteq K
  <2> HIDE DEF K
  <2> QED BY <1>7, <1>8, SetInduction
<1>10. \A i \in 1..N : f[i] \in T
  <2> TAKE i \in 1..N
  <2>1. i - 1 \in Nat /\ (i - 1) + 1 = i /\ i <= N
    BY <1>1
  <2> QED BY <1>9, <2>1
<1>11. Joins(f, s, S, N)
  BY <1>4, <1>10 DEF Joins, T
<1> QED BY <1>3, <1>11

LEMMA ConcatFacts ==
    ASSUME NEW S, NEW a \in Seq(S), NEW b \in Seq(S)
    PROVE  /\ Len(a) \in Nat /\ Len(b) \in Nat /\ Len(a \o b) = Len(a) + Len(b)
           /\ \A j \in 1..Len(a) : (a \o b)[j] = a[j]
           /\ \A j \in 1..Len(b) : (a \o b)[Len(a) + j] = b[j]
  OBVIOUS

(* What place a piece takes in the whole. *)
LEMMA FlattenPlaces ==
    ASSUME NEW s, NEW S, NEW N, Pieces(s, S, N), NEW L, \A i \in 1..N : L[i] = Len(s[i])
    PROVE  /\ FlattenSeq(s) \in Seq(S) /\ Len(FlattenSeq(s)) = SumOf(L, 1, N + 1)
           /\ \A i \in 1..N : SumOf(L, 1, i) \in Nat
           /\ \A i \in 1..N : \A j \in 1..L[i] : SumOf(L, 1, i) + j \in 1..SumOf(L, 1, N + 1)
                                /\ FlattenSeq(s)[SumOf(L, 1, i) + j] = s[i][j]
<1> DEFINE B(i) == SumOf(L, 1, i)
           T == Seq(S)
<1>1. N \in Nat /\ N >= 1 /\ \A i \in 1..N : s[i] \in T /\ L[i] = Len(s[i])
  BY DEF Pieces
<1>2. \A i \in 1..N : L[i] \in Nat
  BY <1>1
<1>3. PICK f : Joins(f, s, S, N) /\ FlattenSeq(s) = f[N]
  BY JoinIs
<1>4. f[1] = s[1] /\ (\A i \in 2..N : f[i] = f[i - 1] \o s[i]) /\ \A i \in 1..N : f[i] \in T
  BY <1>3 DEF Joins
<1>5. \A i \in 1..N : B(i) \in Nat
  <2> TAKE i \in 1..N
  <2> DEFINE one == 1
  <2>1. one \in Nat /\ i \in Nat /\ one <= i /\ \A r \in one..(i - 1) : L[r] \in Nat
    BY <1>1, <1>2
  <2> HIDE DEF one
  <2>2. SumOf(L, one, i) \in Nat
    BY <2>1, SumIsNat
  <2> QED BY <2>2 DEF one
<1>6. B(1) = 0 /\ \A i \in 1..N : B(i + 1) = B(i) + L[i]
  <2>1. B(1) = 0
    BY SumStep
  <2>2. ASSUME NEW i \in 1..N PROVE B(i + 1) = B(i) + L[i]
    <3>1. i \in Nat /\ 1 <= i
      BY <1>1
    <3> QED BY <3>1, SumStep
  <2> QED BY <2>1, <2>2
<1> DEFINE Holds(k) == Len(f[k]) = B(k + 1) /\ \A i \in 1..k : \A j \in 1..L[i] :
                          B(i) + j \in 1..B(k + 1) /\ f[k][B(i) + j] = s[i][j]
           K == {n \in Nat : n + 1 <= N => Holds(n + 1)}
<1> HIDE DEF B
<1>7. 0 \in K
  <2> SUFFICES Holds(1)
    BY <1>1
  <2>1. 1 \in 1..N
    BY <1>1
  <2>2. B(2) = L[1] /\ B(1) = 0 /\ L[1] \in Nat /\ L[1] = Len(s[1])
    BY <1>1, <1>2, <1>6, <2>1
  <2>3. Len(f[1]) = B(2)
    BY <1>4, <2>2
  <2>4. ASSUME NEW i \in 1..1, NEW j \in 1..L[i] PROVE B(i) + j \in 1..B(2) /\ f[1][B(i) + j] = s[i][j]
    <3>1. i = 1
      OBVIOUS
    <3>2. j \in 1..L[1] /\ B(i) + j = j
      BY <2>2, <3>1
    <3> QED BY <1>4, <2>2, <3>1, <3>2
  <2> QED BY <2>3, <2>4
<1>8. ASSUME NEW n \in Nat, n \in K PROVE n + 1 \in K
  <2> SUFFICES ASSUME (n + 1) + 1 <= N PROVE Holds((n + 1) + 1)
    OBVIOUS
  <2> DEFINE k == n + 1
             m == k + 1
             a == f[k]
             b == s[m]
  <2>1. k \in 1..N /\ m \in 1..N /\ m \in 2..N /\ m - 1 = k /\ n + 1 <= N /\ (n + 1) + 1 = m
    BY <1>1
  <2>2. Holds(k)
    BY <1>8, <2>1
  <2>3. f[m] = a \o b /\ a \in T /\ b \in T
    BY <1>1, <1>4, <2>1
  <2>4. /\ Len(a) \in Nat /\ Len(b) \in Nat /\ Len(f[m]) = Len(a) + Len(b)
        /\ \A j \in 1..Len(a) : f[m][j] = a[j]
        /\ \A j \in 1..Len(b) : f[m][Len(a) + j] = b[j]
    <3>1. /\ Len(a) \in Nat /\ Len(b) \in Nat /\ Len(a \o b) = Len(a) + Len(b)
          /\ \A j \in 1..Len(a) : (a \o b)[j] = a[j]
          /\ \A j \in 1..Len(b) : (a \o b)[Len(a) + j] = b[j]
      <4> HIDE DEF a, b
      <4> QED BY <2>3, ConcatFacts DEF T
    <3> HIDE DEF a, b
    <3> QED BY <2>3, <3>1
  <2>5. B(m) = Len(a) /\ B(m + 1) = Len(a) + Len(b) /\ L[m] = Len(b)
    BY <1>1, <1>6, <2>1, <2>2
  <2>6. \A i \in 1..k : \A j \in 1..L[i] : B(i) + j \in 1..Len(a) /\ a[B(i) + j] = s[i][j]
    BY <2>2, <2>5
  <2>7. ASSUME NEW i \in 1..m, NEW j \in 1..L[i] PROVE B(i) + j \in 1..B(m + 1) /\ f[m][B(i) + j] = s[i][j]
    <3>1. CASE i = m
      <4>1. j \in 1..Len(b)
        BY <2>5, <3>1
      <4>2. f[m][Len(a) + j] = b[j]
        BY <2>4, <4>1
      <4> HIDE DEF a, m
      <4>3. Len(a) + j \in 1..B(m + 1)
        BY <2>4, <2>5, <4>1
      <4> QED BY <2>5, <3>1, <4>2, <4>3
    <3>2. CASE i # m
      <4>1. i \in 1..k
        BY <2>1, <3>2
      <4>2. B(i) + j \in 1..Len(a) /\ a[B(i) + j] = s[i][j]
        BY <2>6, <4>1
      <4> HIDE DEF a, m, b
      <4>3. f[m][B(i) + j] = a[B(i) + j]
        BY <2>4, <4>2
      <4>4. B(i) + j \in 1..B(m + 1)
        BY <2>4, <2>5, <4>2
      <4> QED BY <4>2, <4>3, <4>4
    <3> QED BY <3>1, <3>2
  <2>8. Len(f[m]) = B(m + 1)
    BY <2>4, <2>5
  <2> HIDE DEF m
  <2>9. Holds(m)
    BY <2>7, <2>8
  <2> QED BY <2>1, <2>9
<1>9. Nat \subseteq K
  <2> HIDE DEF K
  <2> QED BY <1>7, <1>8, SetInduction
<1>10. Holds(N)
  <2>1. N - 1 \in Nat /\ (N - 1) + 1 = N /\ N <= N
    BY <1>1
  <2>2. N - 1 \in K
    BY <1>9, <2>1
  <2> HIDE DEF Holds
  <2>3. Holds((N - 1) + 1)
    BY <2>1, <2>2
  <2> QED BY <2>1, <2>3
<1>11. FlattenSeq(s) \in Seq(S)
  <2>1. N \in 1..N
    BY <1>1
  <2> QED BY <1>3, <1>4, <2>1
<1> QED BY <1>3, <1>5, <1>10, <1>11 DEF B

(* Pieces of one length. *)
OneLength(s, N, W) == \A i \in 1..N : Len(s[i]) = W

LEMMA FlattenEven ==
    ASSUME NEW s, NEW S, NEW N, Pieces(s, S, N), NEW W \in Nat, OneLength(s, N, W)
    PROVE  /\ FlattenSeq(s) \in Seq(S) /\ Len(FlattenSeq(s)) = N * W
           /\ \A i \in 1..N : \A j \in 1..W : (i - 1) * W + j \in 1..(N * W)
                                /\ FlattenSeq(s)[(i - 1) * W + j] = s[i][j]
<1> DEFINE L == [i \in 1..N |-> W]
           B(i) == SumOf(L, 1, i)
           K == {n \in Nat : n <= N => B(n + 1) = n * W}
<1>1. N \in Nat /\ N >= 1
  BY DEF Pieces
<1>2. \A i \in 1..N : L[i] = Len(s[i]) /\ L[i] = W
  BY DEF OneLength
<1> HIDE DEF L
<1>3. B(1) = 0 /\ \A i \in 1..N : B(i + 1) = B(i) + L[i]
  <2>1. B(1) = 0
    BY SumStep
  <2>2. ASSUME NEW i \in 1..N PROVE B(i + 1) = B(i) + L[i]
    <3>1. i \in Nat /\ 1 <= i
      BY <1>1
    <3> QED BY <3>1, SumStep
  <2> QED BY <2>1, <2>2
<1> HIDE DEF B
<1>4. 0 \in K
  BY <1>3
<1>5. ASSUME NEW n \in Nat, n \in K PROVE n + 1 \in K
  <2> SUFFICES ASSUME n + 1 <= N PROVE B((n + 1) + 1) = (n + 1) * W
    OBVIOUS
  <2>1. n + 1 \in 1..N /\ n <= N
    BY <1>1
  <2>2. B((n + 1) + 1) = B(n + 1) + W /\ B(n + 1) = n * W
    BY <1>2, <1>3, <1>5, <2>1
  <2>3. (n + 1) * W = n * W + W
    BY SMT
  <2> QED BY <2>2, <2>3
<1>6. Nat \subseteq K
  <2> HIDE DEF K
  <2> QED BY <1>4, <1>5, SetInduction
<1>7. \A n \in 0..N : B(n + 1) = n * W
  BY <1>1, <1>6
<1>8. B(N + 1) = N * W
  BY <1>1, <1>7
<1>9. \A i \in 1..N : B(i) = (i - 1) * W
  <2> TAKE i \in 1..N
  <2>1. i - 1 \in 0..N /\ (i - 1) + 1 = i
    BY <1>1
  <2> QED BY <1>7, <2>1
<1>10. /\ FlattenSeq(s) \in Seq(S) /\ Len(FlattenSeq(s)) = B(N + 1)
       /\ \A i \in 1..N : \A j \in 1..L[i] : B(i) + j \in 1..B(N + 1) /\ FlattenSeq(s)[B(i) + j] = s[i][j]
  BY <1>2, FlattenPlaces DEF B
<1>11. ASSUME NEW i \in 1..N, NEW j \in 1..W
       PROVE  (i - 1) * W + j \in 1..(N * W) /\ FlattenSeq(s)[(i - 1) * W + j] = s[i][j]
  <2>1. j \in 1..L[i]
    BY <1>2
  <2>2. B(i) + j \in 1..B(N + 1) /\ FlattenSeq(s)[B(i) + j] = s[i][j]
    BY <1>10, <2>1
  <2> QED BY <1>8, <1>9, <2>2
<1> QED BY <1>8, <1>10, <1>11

-----------------------------------------------------------------------------
(* Digits and streams of bits *)

LEMMA ModSplit ==
    ASSUME NEW y \in Nat, NEW P \in Nat, P > 0, NEW Z \in Nat, Z > 0
    PROVE  y % (P * Z) = (y % P) + ((y \div P) % Z) * P
<1> DEFINE d == y \div P
           r == y % P
           e == d \div Z
           s == d % Z
           w == P * Z
           t == s * P + r
<1>1. d \in Nat /\ r \in 0..(P - 1) /\ y = d * P + r
  BY Divided
<1>2. e \in Nat /\ s \in 0..(Z - 1) /\ d = e * Z + s
  <2> HIDE DEF d
  <2> QED BY <1>1, Divided
<1> HIDE DEF d, r, e, s
<1>3. w \in Nat /\ w > 0
  BY SMT
<1>4. s * P \in Nat /\ s * P <= (Z - 1) * P
  BY <1>2, SMT
<1>5. (Z - 1) * P = w - P
  BY SMT
<1>6. t \in 0..(w - 1)
  <2> HIDE DEF w
  <2> QED BY <1>1, <1>3, <1>4, <1>5
<1>7. y = e * w + t
  <2>1. (e * Z + s) * P = e * (P * Z) + s * P
    BY <1>2, SMT
  <2>2. e * (P * Z) \in Nat
    BY <1>2, SMT
  <2> QED BY <1>1, <1>2, <1>4, <2>1, <2>2
<1> HIDE DEF w, t
<1>8. y % w = t
  BY <1>2, <1>3, <1>6, <1>7, ModUnique
<1> QED BY <1>1, <1>4, <1>8 DEF w, t, d, r, s

DigitsOf(g, y, L, k) == \A i \in 0..(k - 1) : g[i] = ((y \div 2^(i * L)) % 2^L) * 2^(i * L)

LEMMA PowerTimes ==
    ASSUME NEW i \in Nat, NEW L \in Nat
    PROVE  /\ i * L \in Nat /\ 2^(i * L) \in Nat /\ 2^(i * L) > 0 /\ 2^L \in Nat /\ 2^L > 0
           /\ 2^((i + 1) * L) = 2^(i * L) * 2^L
<1>1. i * L \in Nat /\ (i + 1) * L = i * L + L
  BY SMT
<1>2. 2^(i * L + L) = 2^(i * L) * 2^L
  <2> DEFINE e == i * L
  <2> HIDE DEF e
  <2>1. e \in Nat
    BY <1>1 DEF e
  <2> QED BY <2>1, PowerSum DEF e
<1> QED BY <1>1, <1>2, PowerPositive

(* The digits of a number in a base that is a power of two, summed. *)
LEMMA DigitSum ==
    ASSUME NEW y \in Nat, NEW L \in Nat, NEW k \in Nat, NEW g, DigitsOf(g, y, L, k)
    PROVE  SumOf(g, 0, k) = y % 2^(k * L)
<1> DEFINE S == {n \in Nat : n <= k => SumOf(g, 0, n) = y % 2^(n * L)}
<1>1. 0 \in S
  <2>1. 0 * L = 0 /\ y % 1 = 0
    BY SMT
  <2>2. SumOf(g, 0, 0) = 0
    BY SumStep
  <2> QED BY <2>1, <2>2, PowerZero
<1>2. ASSUME NEW n \in Nat, n \in S PROVE n + 1 \in S
  <2> SUFFICES ASSUME n + 1 <= k PROVE SumOf(g, 0, n + 1) = y % 2^((n + 1) * L)
    OBVIOUS
  <2> DEFINE P == 2^(n * L)
             Z == 2^L
  <2>1. P \in Nat /\ P > 0 /\ Z \in Nat /\ Z > 0 /\ 2^((n + 1) * L) = P * Z
    BY PowerTimes
  <2>2. n \in 0..(k - 1) /\ n <= k
    OBVIOUS
  <2>3. g[n] = ((y \div P) % Z) * P
    BY <2>2 DEF DigitsOf
  <2>4. SumOf(g, 0, n) = y % P
    BY <1>2, <2>2
  <2>5. SumOf(g, 0, n + 1) = SumOf(g, 0, n) + g[n]
    <3> DEFINE zero == 0
    <3>1. zero \in Nat /\ zero <= n
      OBVIOUS
    <3> HIDE DEF zero
    <3>2. SumOf(g, zero, n + 1) = SumOf(g, zero, n) + g[n]
      BY <3>1, SumStep
    <3> QED BY <3>2 DEF zero
  <2> HIDE DEF P, Z
  <2>6. y % (P * Z) = (y % P) + ((y \div P) % Z) * P
    BY <2>1, ModSplit
  <2> QED BY <2>1, <2>3, <2>4, <2>5, <2>6
<1> HIDE DEF S
<1>3. k \in S
  BY <1>1, <1>2, SetInduction
<1> QED BY <1>3 DEF S

(* Bits from a on, least significant first. *)
IsStream(g) == \A i \in Nat : g[i] \in 0..1
BitValue(g, a, n) == SumOf([i \in 0..(n - 1) |-> g[a + i] * 2^i], 0, n)

LEMMA StreamTerm ==
    ASSUME NEW g, IsStream(g), NEW a \in Nat, NEW i \in Nat
    PROVE  g[a + i] \in 0..1 /\ g[a + i] * 2^i \in Nat /\ g[a + i] * 2^i <= 2^i /\ 2^i \in Nat /\ 2^i > 0
<1>1. a + i \in Nat
  OBVIOUS
<1>2. g[a + i] \in 0..1
  BY <1>1 DEF IsStream
<1>3. 2^i \in Nat /\ 2^i > 0
  BY PowerPositive
<1>4. CASE g[a + i] = 0
  BY <1>3, <1>4, SMT
<1>5. CASE g[a + i] = 1
  BY <1>3, <1>5, SMT
<1> QED BY <1>2, <1>3, <1>4, <1>5

LEMMA ValueStep ==
    ASSUME NEW g, IsStream(g), NEW a \in Nat, NEW n \in Nat
    PROVE  BitValue(g, a, 0) = 0 /\ BitValue(g, a, n + 1) = BitValue(g, a, n) + g[a + n] * 2^n
<1> DEFINE f == [i \in 0..(n - 1) |-> g[a + i] * 2^i]
           h == [i \in 0..((n + 1) - 1) |-> g[a + i] * 2^i]
           z == [i \in 0..(0 - 1) |-> g[a + i] * 2^i]
<1>1. BitValue(g, a, 0) = 0
  <2>1. SumOf(z, 0, 0) = 0
    BY SumStep
  <2> QED BY <2>1 DEF BitValue
<1>2. \A i \in 0..(n - 1) : f[i] \in Int /\ h[i] = f[i]
  <2> TAKE i \in 0..(n - 1)
  <2>1. i \in Nat /\ i \in 0..((n + 1) - 1)
    OBVIOUS
  <2>2. g[a + i] * 2^i \in Int
    BY <2>1, StreamTerm
  <2> QED BY <2>1, <2>2
<1>3. h[n] = g[a + n] * 2^n
  OBVIOUS
<1>4. BitValue(g, a, n + 1) = SumOf(h, 0, n + 1) /\ BitValue(g, a, n) = SumOf(f, 0, n)
  BY Zenon DEF BitValue
<1> HIDE DEF f, h
<1>5. IntTerms(f, 0, n)
  BY <1>2 DEF IntTerms
<1>6. SumOf(h, 0, n) = SumOf(f, 0, n)
  BY <1>2, <1>5, SumSame
<1>7. SumOf(h, 0, n + 1) = SumOf(h, 0, n) + h[n]
  BY SumStep
<1> QED BY <1>1, <1>3, <1>4, <1>6, <1>7

LEMMA ValueBound ==
    ASSUME NEW g, IsStream(g), NEW a \in Nat, NEW n \in Nat
    PROVE  BitValue(g, a, n) \in Nat /\ BitValue(g, a, n) \in 0..(2^n - 1)
<1> DEFINE S == {k \in Nat : BitValue(g, a, k) \in 0..(2^k - 1)}
<1>1. 0 \in S
  <2>1. BitValue(g, a, 0) = 0
    BY ValueStep
  <2> QED BY <2>1, PowerZero
<1>2. ASSUME NEW k \in Nat, k \in S PROVE k + 1 \in S
  <2> DEFINE v == BitValue(g, a, k)
             t == g[a + k] * 2^k
             p == 2^k
  <2>1. v \in 0..(p - 1)
    BY <1>2
  <2>2. t \in Nat /\ t <= p /\ p \in Nat
    BY StreamTerm
  <2>3. BitValue(g, a, k + 1) = v + t
    BY ValueStep
  <2>4. 2^(k + 1) = 2 * p
    BY PowerDoubles
  <2> HIDE DEF v, t, p
  <2>5. v + t \in 0..(2 * p - 1)
    BY <2>1, <2>2
  <2> QED BY <2>3, <2>4, <2>5
<1>3. n \in S
  <2> HIDE DEF S
  <2> QED BY <1>1, <1>2, SetInduction
<1>4. 2^n \in Nat
  BY PowerPositive
<1> QED BY <1>3, <1>4

LEMMA ValueSplit ==
    ASSUME NEW g, IsStream(g), NEW a \in Nat, NEW m \in Nat, NEW n \in Nat
    PROVE  BitValue(g, a, m + n) = BitValue(g, a, m) + 2^m * BitValue(g, a + m, n)
<1> DEFINE S == {k \in Nat : BitValue(g, a, m + k) = BitValue(g, a, m) + 2^m * BitValue(g, a + m, k)}
<1>0. a + m \in Nat /\ BitValue(g, a, m) \in Nat /\ 2^m \in Nat
  BY ValueBound, PowerPositive
<1>1. 0 \in S
  <2>1. BitValue(g, a + m, 0) = 0
    BY <1>0, ValueStep
  <2>2. m + 0 = m /\ 2^m * 0 = 0
    BY <1>0
  <2> QED BY <1>0, <2>1, <2>2
<1>2. ASSUME NEW k \in Nat, k \in S PROVE k + 1 \in S
  <2> DEFINE v == BitValue(g, a, m)
             p == 2^m
             u == BitValue(g, a + m, k)
             b == g[(a + m) + k]
             o == 2^k
  <2>1. m + k \in Nat /\ m + (k + 1) = (m + k) + 1 /\ a + (m + k) = (a + m) + k
    OBVIOUS
  <2>2. BitValue(g, a, (m + k) + 1) = BitValue(g, a, m + k) + b * 2^(m + k)
    BY <2>1, ValueStep
  <2>3. BitValue(g, a + m, k + 1) = u + b * o
    BY <1>0, ValueStep
  <2>4. 2^(m + k) = p * o
    BY PowerSum
  <2>5. BitValue(g, a, m + k) = v + p * u
    BY <1>2
  <2>6. u \in Nat /\ b \in 0..1 /\ o \in Nat /\ v \in Nat /\ p \in Nat
    BY <1>0, ValueBound, StreamTerm
  <2> HIDE DEF v, p, u, b, o
  <2>7. b * (p * o) = p * (b * o) /\ p * (u + b * o) = p * u + p * (b * o)
        /\ p * u \in Nat /\ b * o \in Nat /\ p * (b * o) \in Nat
    BY <2>6, SMT
  <2>8. BitValue(g, a, m + (k + 1)) = (v + p * u) + p * (b * o)
    BY <2>1, <2>2, <2>4, <2>5, <2>7
  <2>9. v + p * BitValue(g, a + m, k + 1) = v + (p * u + p * (b * o))
    BY <2>3, <2>7
  <2> QED BY <2>6, <2>7, <2>8, <2>9 DEF v, p
<1>3. n \in S
  <2> HIDE DEF S
  <2> QED BY <1>1, <1>2, SetInduction
<1> QED BY <1>3

LEMMA ValueSlice ==
    ASSUME NEW g, IsStream(g), NEW a \in Nat, NEW s \in Nat, NEW n \in Nat, NEW w \in Nat, s + n <= w
    PROVE  BitValue(g, a, w) \div 2^s \in Nat /\ (BitValue(g, a, w) \div 2^s) % 2^n = BitValue(g, a + s, n)
<1> DEFINE t == w - (s + n)
           low == BitValue(g, a, s)
           mid == BitValue(g, a + s, n)
           top == BitValue(g, (a + s) + n, t)
           rest == BitValue(g, a + s, n + t)
<1>1. t \in Nat /\ n + t \in Nat /\ w = s + (n + t) /\ a + s \in Nat /\ (a + s) + n \in Nat
  OBVIOUS
<1>2. 2^s \in Nat /\ 2^s > 0 /\ 2^n \in Nat /\ 2^n > 0
  BY PowerPositive
<1> HIDE DEF t
<1>3. low \in 0..(2^s - 1) /\ mid \in 0..(2^n - 1) /\ top \in Nat /\ rest \in Nat /\ low \in Nat /\ mid \in Nat
  BY <1>1, ValueBound
<1>4. BitValue(g, a, s + (n + t)) = low + 2^s * rest
  BY <1>1, ValueSplit
<1>5. rest = mid + 2^n * top
  BY <1>1, ValueSplit
<1> HIDE DEF low, mid, top, rest
<1>6. 2^s * rest = rest * 2^s /\ 2^n * top = top * 2^n /\ rest * 2^s \in Nat /\ top * 2^n \in Nat
  BY <1>2, <1>3, SMT
<1>7. low + 2^s * rest = rest * 2^s + low /\ mid + 2^n * top = top * 2^n + mid
  BY <1>3, <1>6
<1>8. (rest * 2^s + low) \div 2^s = rest
  BY <1>2, <1>3, ModUnique
<1>9. (top * 2^n + mid) % 2^n = mid
  BY <1>2, <1>3, ModUnique
<1>10. BitValue(g, a, w) = rest * 2^s + low
  BY <1>1, <1>4, <1>7
<1>11. rest = top * 2^n + mid
  BY <1>5, <1>7
<1> QED BY <1>3, <1>8, <1>9, <1>10, <1>11 DEF mid

BitsAre(g, a, n, u) == \A i \in 0..(n - 1) : g[a + i] = (u \div 2^i) % 2

LEMMA ValueIs ==
    ASSUME NEW g, IsStream(g), NEW a \in Nat, NEW n \in Nat, NEW u \in Nat, BitsAre(g, a, n, u)
    PROVE  BitValue(g, a, n) = u % 2^n
<1> DEFINE f == [i \in 0..(n - 1) |-> g[a + i] * 2^i]
           one == 1
<1>1. BitValue(g, a, n) = SumOf(f, 0, n)
  BY Zenon DEF BitValue
<1>2. 2^one = 2 /\ n * one = n /\ one \in Nat
  BY PowerZero, PowerDoubles
<1>3. ASSUME NEW i \in 0..(n - 1) PROVE f[i] = ((u \div 2^(i * one)) % 2^one) * 2^(i * one)
  <2>1. i * one = i
    OBVIOUS
  <2>2. f[i] = ((u \div 2^i) % 2) * 2^i
    BY DEF BitsAre
  <2> HIDE DEF f, one
  <2> QED BY <1>2, <2>1, <2>2
<1> HIDE DEF f, one
<1>4. DigitsOf(f, u, one, n)
  BY <1>3 DEF DigitsOf
<1>5. SumOf(f, 0, n) = u % 2^(n * one)
  BY <1>2, <1>4, DigitSum
<1> QED BY <1>1, <1>2, <1>5

(* Units of P bits put together again. *)
UnitsOf(f, g, a, P, k) == \A b \in 0..(k - 1) : f[b] = BitValue(g, a + P * b, P) * 2^(P * b)

LEMMA UnitsValue ==
    ASSUME NEW g, IsStream(g), NEW a \in Nat, NEW P \in Nat, NEW k \in Nat, NEW f, UnitsOf(f, g, a, P, k)
    PROVE  SumOf(f, 0, k) = BitValue(g, a, P * k)
<1> DEFINE S == {n \in Nat : n <= k => SumOf(f, 0, n) = BitValue(g, a, P * n)}
<1>1. 0 \in S
  <2>1. P * 0 = 0 /\ SumOf(f, 0, 0) = 0 /\ BitValue(g, a, 0) = 0
    BY SumStep, ValueStep
  <2> QED BY <2>1
<1>2. ASSUME NEW n \in Nat, n \in S PROVE n + 1 \in S
  <2> SUFFICES ASSUME n + 1 <= k PROVE SumOf(f, 0, n + 1) = BitValue(g, a, P * (n + 1))
    OBVIOUS
  <2> DEFINE e == P * n
             zero == 0
  <2>1. e \in Nat /\ P * (n + 1) = e + P /\ a + e \in Nat
    BY SMT
  <2>2. n \in 0..(k - 1) /\ n <= k /\ zero \in Nat /\ zero <= n
    OBVIOUS
  <2>3. f[n] = BitValue(g, a + e, P) * 2^e
    BY <2>2 DEF UnitsOf
  <2>4. SumOf(f, 0, n) = BitValue(g, a, e)
    BY <1>2, <2>2
  <2> HIDE DEF e, zero
  <2>5. SumOf(f, zero, n + 1) = SumOf(f, zero, n) + f[n]
    BY <2>2, SumStep
  <2>6. BitValue(g, a, e + P) = BitValue(g, a, e) + 2^e * BitValue(g, a + e, P)
    BY <2>1, ValueSplit
  <2>7. 2^e \in Nat /\ BitValue(g, a + e, P) \in Nat
    BY <2>1, PowerPositive, ValueBound
  <2>8. 2^e * BitValue(g, a + e, P) = BitValue(g, a + e, P) * 2^e
    BY <2>7, SMT
  <2> QED BY <2>1, <2>3, <2>4, <2>5, <2>6, <2>8 DEF zero
<1> HIDE DEF S
<1>3. k \in S
  BY <1>1, <1>2, SetInduction
<1> QED BY <1>3 DEF S

LEMMA SignedIs ==
    ASSUME NEW x \in Int, NEW n \in Nat, n >= 1, NEW v \in Int, -(2^(n - 1)) <= v, v < 2^(n - 1),
           x % 2^n = v % 2^n
    PROVE  Signed(x, n) = v
<1> DEFINE h == 2^(n - 1)
           w == 2^n
           s == Signed(x, n)
<1>1. h \in Nat /\ w = 2 * h /\ h >= 1 /\ s \in Int /\ -h <= s /\ s < h /\ Same(s, x, w)
  BY SignedFacts
<1>2. w \in Nat /\ w > 0
  BY <1>1
<1>3. s % w = v % w
  BY <1>1 DEF Same
<1>4. v \in Int /\ -h <= v /\ v < h
  OBVIOUS
<1> HIDE DEF h, w, s
<1>5. PICK k \in Int : s = v + k * w
  BY <1>1, <1>2, <1>3, Congruent
<1>6. CASE k >= 1
  <2>1. k * w >= w /\ k * w \in Int
    BY <1>2, <1>6, SMT
  <2> QED BY <1>1, <1>4, <1>5, <2>1
<1>7. CASE k <= -1
  <2>1. k * w <= -w /\ k * w \in Int
    BY <1>2, <1>7, SMT
  <2> QED BY <1>1, <1>4, <1>5, <2>1
<1>8. CASE k = 0
  <2>1. k * w = 0
    BY <1>2, <1>8
  <2> QED BY <1>4, <1>5, <2>1 DEF s
<1> QED BY <1>6, <1>7, <1>8

-----------------------------------------------------------------------------
(* Packed words *)

Wide(bits) == bits \in Nat /\ bits >= 1 /\ bits + PackByte - 1 <= PackByte * ReadBytes

LEMMA MatrixSizes ==
    /\ NarrowBits \in Nat /\ NarrowBits >= 1 /\ LimbBits \in Nat /\ LimbBits >= 1
    /\ PackByte \in Nat /\ PackByte >= 1 /\ ReadBytes \in Nat /\ ReadBytes >= 1
    /\ GroupCols = PackByte /\ MaxCols \in Nat
    /\ Wide(PackBits[1]) /\ Wide(PackBits[2])
    /\ MaxCols * (2^(NarrowBits - 1) * (2^LimbBits - 1)) < 2^(LowWordBits - 1)
<1>1. /\ PackBits[1] \in Nat \ {0} /\ PackBits[2] \in Nat \ {0} /\ NarrowBits \in Nat \ {0}
      /\ LimbBits \in Nat \ {0} /\ PackByte \in Nat \ {0} /\ ReadBytes \in Nat \ {0}
      /\ GroupCols = PackByte /\ MaxCols \in Nat
      /\ MaxCols * (2^(NarrowBits - 1) * (2^LimbBits - 1)) < 2^(LowWordBits - 1)
  BY MatrixConstants
<1>2. \A k \in 1..2 : PackBits[k] + PackByte - 1 <= PackByte * ReadBytes
  BY MatrixConstants
<1>3. 1 \in 1..2 /\ 2 \in 1..2
  OBVIOUS
<1>4. PackBits[1] + PackByte - 1 <= PackByte * ReadBytes /\ PackBits[2] + PackByte - 1 <= PackByte * ReadBytes
  BY <1>2, <1>3
<1>5. Wide(PackBits[1]) /\ Wide(PackBits[2])
  BY <1>1, <1>4 DEF Wide
<1> QED BY <1>1, <1>5

(* The bits of T words, then zeros. *)
StreamOf(U, T, bits) == [i \in Nat |-> IF i < T * bits THEN (U[i \div bits] \div 2^(i % bits)) % 2 ELSE 0]
WordsOf(U, T, bits) == T \in Nat /\ Wide(bits) /\ \A n \in 0..(T - 1) : U[n] \in 0..(2^bits - 1)

LEMMA BelowProduct ==
    ASSUME NEW a \in Nat, NEW b \in Nat, NEW T \in Nat, b > 0, a < T * b
    PROVE  a \div b \in 0..(T - 1) /\ a % b \in 0..(b - 1)
<1> DEFINE d == a \div b
<1>1. d \in Nat /\ a % b \in 0..(b - 1) /\ a = d * b + (a % b)
  BY Divided
<1> HIDE DEF d
<1>2. CASE d >= T
  <2>1. d * b >= T * b /\ d * b \in Nat /\ T * b \in Nat
    BY <1>1, <1>2, SMT
  <2> QED BY <1>1, <2>1
<1>3. CASE d < T
  BY <1>1, <1>3 DEF d
<1> QED BY <1>1, <1>2, <1>3

LEMMA StreamFacts ==
    ASSUME NEW U, NEW T, NEW bits, WordsOf(U, T, bits)
    PROVE  /\ IsStream(StreamOf(U, T, bits))
           /\ \A n \in 0..(T - 1) : \A i \in 0..(bits - 1) :
                n * bits + i \in Nat /\ StreamOf(U, T, bits)[n * bits + i] = (U[n] \div 2^i) % 2
<1> DEFINE g == StreamOf(U, T, bits)
<1>1. T \in Nat /\ bits \in Nat /\ bits >= 1 /\ T * bits \in Nat
  <2>1. T \in Nat /\ bits \in Nat /\ bits >= 1
    BY DEF WordsOf, Wide
  <2> QED BY <2>1, ProductsAreNat
<1>2. \A n \in 0..(T - 1) : U[n] \in Nat
  <2>1. 2^bits \in Nat
    BY <1>1, PowerPositive
  <2> QED BY <2>1 DEF WordsOf
<1>3. ASSUME NEW i \in Nat PROVE g[i] \in 0..1
  <2>1. CASE i < T * bits
    <3>1. i \div bits \in 0..(T - 1) /\ i % bits \in Nat
      BY <1>1, <2>1, BelowProduct
    <3> DEFINE u == U[i \div bits]
               p == 2^(i % bits)
    <3>2. u \in Nat /\ p \in Nat /\ p > 0
      BY <1>2, <3>1, PowerPositive
    <3>3. g[i] = (u \div p) % 2
      BY <2>1 DEF StreamOf
    <3> HIDE DEF u, p
    <3>4. u \div p \in Nat
      BY <3>2, Divided
    <3>5. (u \div p) % 2 \in 0..1
      BY <3>4
    <3> QED BY <3>3, <3>5
  <2>2. CASE ~(i < T * bits)
    BY <2>2 DEF StreamOf
  <2> QED BY <2>1, <2>2
<1>4. IsStream(g)
  BY <1>3 DEF IsStream
<1>5. ASSUME NEW n \in 0..(T - 1), NEW i \in 0..(bits - 1)
      PROVE  n * bits + i \in Nat /\ g[n * bits + i] = (U[n] \div 2^i) % 2
  <2> DEFINE a == n * bits + i
  <2>1. n \in Nat /\ n * bits \in Nat /\ i \in Nat /\ a \in Nat
    <3>1. n \in Nat /\ i \in Nat
      OBVIOUS
    <3>2. n * bits \in Nat
      BY <1>1, <3>1, ProductsAreNat
    <3> QED BY <3>1, <3>2
  <2>2. a % bits = i /\ a \div bits = n
    BY <1>1, <2>1, ModUnique
  <2>3. a < T * bits
    <3>1. n * bits <= (T - 1) * bits /\ (T - 1) * bits = T * bits - bits
      BY <1>1, SMT
    <3> QED BY <1>1, <2>1, <3>1
  <2> HIDE DEF a
  <2>4. g[a] = (U[a \div bits] \div 2^(a % bits)) % 2
    BY <2>1, <2>3 DEF StreamOf
  <2> QED BY <2>1, <2>2, <2>4 DEF a
<1> QED BY <1>4, <1>5

(* B bytes of packed words and the padding after them. *)
PackedIn(D, U, T, B, bits) ==
    /\ WordsOf(U, T, bits) /\ B \in Nat /\ T * bits = B * PackByte
    /\ \A k \in 0..(B + ReadBytes - 1) : D[k + 1] = BitValue(StreamOf(U, T, bits), PackByte * k, PackByte)

LEMMA PackedRead ==
    ASSUME NEW D, NEW U, NEW T, NEW B, NEW bits, PackedIn(D, U, T, B, bits), NEW n \in 0..(T - 1),
           NEW v \in Int, -(2^(bits - 1)) <= v, v < 2^(bits - 1), v % 2^bits = U[n]
    PROVE  read_packed(D, n, bits) = v
<1> DEFINE g == StreamOf(U, T, bits)
           x == n * bits
           o == x \div PackByte
           s == x % PackByte
           w == PackByte * ReadBytes
           f == [b \in 0..(ReadBytes - 1) |-> D[o + b + 1] * 2^(PackByte * b)]
<1>1. /\ T \in Nat /\ bits \in Nat /\ bits >= 1 /\ bits + PackByte - 1 <= w /\ B \in Nat
      /\ T * bits = B * PackByte /\ n \in Nat
      /\ PackByte \in Nat /\ PackByte >= 1 /\ ReadBytes \in Nat /\ ReadBytes >= 1
  BY MatrixSizes DEF PackedIn, WordsOf, Wide
<1>2. x \in Nat /\ w \in Nat /\ x < B * PackByte
  <2>1. n * bits <= (T - 1) * bits /\ (T - 1) * bits = T * bits - bits /\ n * bits \in Nat /\ T * bits \in Nat
    BY <1>1, SMT
  <2>2. w \in Nat
    BY <1>1, ProductsAreNat
  <2> QED BY <1>1, <2>1, <2>2
<1>3. o \in 0..(B - 1) /\ s \in 0..(PackByte - 1) /\ x = o * PackByte + s
  <2> HIDE DEF x
  <2> QED BY <1>1, <1>2, BelowProduct, Divided
<1>4. IsStream(g) /\ \A i \in 0..(bits - 1) : g[x + i] = (U[n] \div 2^i) % 2
  BY StreamFacts DEF PackedIn
<1>5. \A k \in 0..(B + ReadBytes - 1) : D[k + 1] = BitValue(g, PackByte * k, PackByte)
  BY DEF PackedIn
<1>6. read_packed(D, n, bits) = Signed(SumOf(f, 0, (ReadBytes - 1) + 1) \div 2^s, bits)
  BY Zenon DEF read_packed, ReadWord, SumOver
<1>7. U[n] \in Nat /\ U[n] \in 0..(2^bits - 1) /\ 2^bits \in Nat
  <2>1. 2^bits \in Nat /\ U[n] \in 0..(2^bits - 1)
    BY <1>1, PowerPositive DEF PackedIn, WordsOf
  <2> QED BY <2>1
<1> DEFINE a == PackByte * o
<1>8. ASSUME NEW b \in 0..(ReadBytes - 1) PROVE f[b] = BitValue(g, a + PackByte * b, PackByte) * 2^(PackByte * b)
  <2>1. f[b] = D[o + b + 1] * 2^(PackByte * b)
    OBVIOUS
  <2>2. o + b \in 0..(B + ReadBytes - 1) /\ o + b + 1 = (o + b) + 1 /\ o \in Nat /\ b \in Nat
    BY <1>1, <1>3
  <2>3. D[(o + b) + 1] = BitValue(g, PackByte * (o + b), PackByte)
    BY <1>5, <2>2
  <2> HIDE DEF o
  <2>4. PackByte * (o + b) = a + PackByte * b
    BY <1>1, <2>2, SMT
  <2> HIDE DEF f, g, a
  <2> QED BY <2>1, <2>2, <2>3, <2>4
<1>9. a \in Nat /\ a + s = x /\ s \in Nat /\ s + bits <= w
  <2>1. o \in Nat
    BY <1>3
  <2> HIDE DEF o, s, x, w
  <2>2. PackByte * o = o * PackByte /\ PackByte * o \in Nat
    BY <1>1, <2>1, SMT
  <2> QED BY <1>1, <1>2, <1>3, <2>2
<1> HIDE DEF f, g, o, a, s, w, x
<1>10. UnitsOf(f, g, a, PackByte, ReadBytes)
  BY <1>8 DEF UnitsOf
<1>11. SumOf(f, 0, ReadBytes) = BitValue(g, a, w)
  BY <1>1, <1>4, <1>9, <1>10, UnitsValue DEF w
<1>12. BitValue(g, a, w) \div 2^s \in Nat /\ (BitValue(g, a, w) \div 2^s) % 2^bits = BitValue(g, x, bits)
  <2>1. BitValue(g, a, w) \div 2^s \in Nat /\ (BitValue(g, a, w) \div 2^s) % 2^bits = BitValue(g, a + s, bits)
    <3>1. IsStream(g) /\ bits \in Nat
      BY <1>1, <1>4
    <3> QED BY <1>2, <1>9, <3>1, ValueSlice
  <2> QED BY <1>9, <2>1
<1>13. BitValue(g, x, bits) = U[n] % 2^bits
  <2> DEFINE u == U[n]
  <2>1. IsStream(g) /\ u \in Nat /\ bits \in Nat /\ BitsAre(g, x, bits, u)
    BY <1>1, <1>4, <1>7 DEF BitsAre
  <2> HIDE DEF u
  <2>2. BitValue(g, x, bits) = u % 2^bits
    BY <1>2, <2>1, ValueIs
  <2> QED BY <2>2 DEF u
<1>14. U[n] % 2^bits = U[n]
  BY <1>7, ModSmall
<1>15. (ReadBytes - 1) + 1 = ReadBytes
  BY <1>1
<1> DEFINE z == BitValue(g, a, w) \div 2^s
<1>16. z \in Int /\ z % 2^bits = v % 2^bits
  BY <1>12, <1>13, <1>14
<1> HIDE DEF z
<1>17. Signed(z, bits) = v
  BY <1>1, <1>16, SignedIs
<1> QED BY <1>6, <1>11, <1>15, <1>17 DEF z

-----------------------------------------------------------------------------
(* Compiled blocks side by side *)

Loaded(m) == m \in MatrixTasks /\ BlocksValid(m)
RowEntries(t) == {t[c] : c \in DOMAIN t}
BlockEntries(b) == UNION {RowEntries(b[r]) : r \in DOMAIN b}
Entries(m) == UNION {BlockEntries(m.blocks[n]) : n \in DOMAIN m.blocks}

LEMMA EntriesAre ==
    ASSUME NEW m, NEW x
    PROVE  x \in Entries(m) <=> \E n \in DOMAIN m.blocks : \E r \in DOMAIN m.blocks[n] :
                                   \E c \in DOMAIN m.blocks[n][r] : x = m.blocks[n][r][c]
<1>1. \A t : x \in RowEntries(t) <=> \E c \in DOMAIN t : x = t[c]
  BY DEF RowEntries
<1>2. \A b : x \in BlockEntries(b) <=> \E r \in DOMAIN b : x \in RowEntries(b[r])
  BY DEF BlockEntries
<1>3. x \in Entries(m) <=> \E n \in DOMAIN m.blocks : x \in BlockEntries(m.blocks[n])
  BY DEF Entries
<1> QED BY <1>1, <1>2, <1>3

LEMMA TaskTyped ==
    ASSUME NEW m, Loaded(m)
    PROVE  /\ m.q \in Nat /\ m.q >= 2 /\ m.q <= 2^(4 * LimbBits) /\ m.y \in Seq(Nat)
           /\ Len(m.blocks) \in Nat /\ Len(m.blocks) >= 1 /\ DOMAIN m.blocks = 1..Len(m.blocks)
           /\ RowCount(m) \in Nat /\ RowCount(m) >= 1 /\ ColCount(m) <= MaxCols
           /\ \A n \in 1..Len(m.blocks) : DOMAIN m.blocks[n] = 1..RowCount(m)
           /\ \A n \in 1..Len(m.blocks) : \A r \in 1..RowCount(m) :
                m.blocks[n][r] \in Seq(Nat) /\ Len(m.blocks[n][r]) = Len(m.blocks[n][1])
           /\ Entries(m) \subseteq 0..(m.q - 1)
<1> DEFINE B == m.blocks
           T == Seq(Nat)
           TT == Seq(T)
           TTT == Seq(TT)
<1>1. /\ m.q \in 0..2^(4 * LimbBits) /\ m.y \in Seq(Nat) /\ B \in TTT
      /\ \A n \in DOMAIN B : \A r \in DOMAIN B[n] : Len(B[n][r]) = Len(B[n][1])
  BY MatrixConstants DEF Loaded
<1>2. /\ B # << >> /\ m.q >= 2 /\ RowCount(m) > 0 /\ ColCount(m) <= MaxCols
      /\ \A n \in DOMAIN B : Len(B[n]) = RowCount(m)
      /\ \A n \in DOMAIN B : \A r \in DOMAIN B[n] : \A c \in DOMAIN B[n][r] : B[n][r][c] < m.q
  BY DEF Loaded, BlocksValid
<1>3. m.q \in Nat /\ m.q >= 2 /\ m.q <= 2^(4 * LimbBits)
  <2>1. 4 * LimbBits \in Nat
    BY MatrixSizes
  <2>2. 2^(4 * LimbBits) \in Nat
    BY <2>1, PowerPositive
  <2> QED BY <1>1, <1>2, <2>2
<1> HIDE DEF B
<1>4. Len(B) \in Nat /\ Len(B) >= 1 /\ DOMAIN B = 1..Len(B) /\ \A n \in 1..Len(B) : B[n] \in TT
  <2> HIDE DEF TT
  <2> QED BY <1>1, <1>2
<1>5. \A n \in 1..Len(B) : Len(B[n]) \in Nat /\ DOMAIN B[n] = 1..Len(B[n]) /\ \A r \in 1..Len(B[n]) : B[n][r] \in T
  <2> HIDE DEF T
  <2> QED BY <1>4
<1>6. RowCount(m) \in Nat
  <2>1. 1 \in 1..Len(B)
    BY <1>4
  <2> QED BY <1>5, <2>1 DEF RowCount, B
<1>7. \A n \in 1..Len(B) : DOMAIN B[n] = 1..RowCount(m)
  BY <1>2, <1>4, <1>5
<1>8. ASSUME NEW n \in 1..Len(B), NEW r \in 1..RowCount(m) PROVE B[n][r] \in T /\ Len(B[n][r]) = Len(B[n][1])
  BY <1>1, <1>2, <1>4, <1>5, <1>7
<1>9. ASSUME NEW x \in Entries(m) PROVE x \in 0..(m.q - 1)
  <2>1. PICK n \in DOMAIN B : \E r \in DOMAIN B[n] : \E c \in DOMAIN B[n][r] : x = B[n][r][c]
    BY <1>9, EntriesAre DEF B
  <2>2. PICK r \in DOMAIN B[n] : \E c \in DOMAIN B[n][r] : x = B[n][r][c]
    BY <2>1
  <2>3. PICK c \in DOMAIN B[n][r] : x = B[n][r][c]
    BY <2>2
  <2>4. B[n][r] \in T
    BY <1>4, <1>5
  <2>5. B[n][r][c] \in Nat
    BY <2>4
  <2>6. B[n][r][c] < m.q
    BY <1>2
  <2> QED BY <1>3, <2>3, <2>5, <2>6
<1> QED BY <1>1, <1>2, <1>3, <1>4, <1>6, <1>7, <1>8, <1>9 DEF B, T

LEMMA JoinedFacts ==
    ASSUME NEW m, Loaded(m)
    PROVE  /\ ColCount(m) \in Nat
           /\ \A r \in 1..RowCount(m) : JoinedRow(m, r) \in Seq(Entries(m)) /\ Len(JoinedRow(m, r)) = ColCount(m)
           /\ \A r \in 1..RowCount(m) : \A c \in 1..ColCount(m) :
                JoinedRow(m, r)[c] \in Entries(m) /\ JoinedRow(m, r)[c] \in 0..(m.q - 1)
<1> DEFINE N == Len(m.blocks)
           E == Entries(m)
           R == RowCount(m)
           L == [n \in 1..N |-> Len(m.blocks[n][1])]
           s(r) == [n \in DOMAIN m.blocks |-> m.blocks[n][r]]
<1>1. /\ N \in Nat /\ N >= 1 /\ DOMAIN m.blocks = 1..N /\ R \in Nat /\ R >= 1
      /\ \A n \in 1..N : DOMAIN m.blocks[n] = 1..R
      /\ \A n \in 1..N : \A r \in 1..R : m.blocks[n][r] \in Seq(Nat) /\ Len(m.blocks[n][r]) = Len(m.blocks[n][1])
      /\ E \subseteq 0..(m.q - 1)
  BY TaskTyped
<1>2. ASSUME NEW n \in 1..N, NEW r \in 1..R PROVE m.blocks[n][r] \in Seq(E)
  <2> DEFINE t == m.blocks[n][r]
  <2>1. t \in Seq(Nat)
    BY <1>1
  <2>2. ASSUME NEW c \in DOMAIN t PROVE t[c] \in E
    <3>1. n \in DOMAIN m.blocks /\ r \in DOMAIN m.blocks[n]
      BY <1>1
    <3> QED BY <2>2, <3>1, EntriesAre
  <2> HIDE DEF t, E
  <2>3. Len(t) \in Nat /\ DOMAIN t = 1..Len(t) /\ t = [c \in 1..Len(t) |-> t[c]]
    BY <2>1
  <2>4. t \in [1..Len(t) -> E]
    BY <2>2, <2>3, Zenon
  <2>5. t \in Seq(E)
    BY <2>3, <2>4
  <2> QED BY <2>5 DEF t
<1> HIDE DEF E
<1>3. ASSUME NEW r \in 1..R
      PROVE  JoinedRow(m, r) \in Seq(E) /\ Len(JoinedRow(m, r)) = SumOf(L, 1, N + 1)
  <2> DEFINE t == s(r)
  <2>1. JoinedRow(m, r) = FlattenSeq(t)
    BY Zenon DEF JoinedRow
  <2>2. t = [n \in 1..N |-> m.blocks[n][r]]
    BY <1>1
  <2>3. Len(t) = N /\ \A n \in 1..N : t[n] \in Seq(E) /\ L[n] = Len(t[n])
    <3>1. \A n \in 1..N : t[n] = m.blocks[n][r]
      BY <2>2
    <3>2. Len(t) = N
      <4> HIDE DEF N
      <4> QED BY <1>1, <2>2
    <3> QED BY <1>1, <1>2, <3>1, <3>2
  <2> HIDE DEF t, L, N
  <2>4. Pieces(t, E, N)
    BY <1>1, <2>3 DEF Pieces
  <2>5. FlattenSeq(t) \in Seq(E) /\ Len(FlattenSeq(t)) = SumOf(L, 1, N + 1)
    <3>1. \A n \in 1..N : L[n] = Len(t[n])
      BY <2>3
    <3> QED BY <2>4, <3>1, FlattenPlaces
  <2> QED BY <2>1, <2>5
<1> HIDE DEF L, N, R
<1>4. 1 \in 1..R
  BY <1>1
<1>5. ColCount(m) = SumOf(L, 1, N + 1) /\ JoinedRow(m, 1) \in Seq(E)
  BY <1>3, <1>4 DEF ColCount
<1>6. ColCount(m) \in Nat
  BY <1>5 DEF ColCount
<1>7. ASSUME NEW r \in 1..R, NEW c \in 1..ColCount(m) PROVE JoinedRow(m, r)[c] \in E
  <2>1. JoinedRow(m, r) \in Seq(E) /\ Len(JoinedRow(m, r)) = ColCount(m)
    BY <1>3, <1>5
  <2> QED BY <2>1
<1> QED BY <1>1, <1>3, <1>5, <1>6, <1>7 DEF E, R

CentredAt(m, r, c) == centered_mod(JoinedRow(m, r)[c], m.q)
CentredRow(m, r) == [c \in 1..ColCount(m) |-> CentredAt(m, r, c)]

LEMMA CentredFacts ==
    ASSUME NEW m, Loaded(m), NEW r \in 1..RowCount(m), NEW c \in 1..ColCount(m)
    PROVE  /\ CentredAt(m, r, c) \in Int /\ CentredAt(m, r, c) \in Centred(m)
           /\ CentredAt(m, r, c) % m.q = JoinedRow(m, r)[c]
<1> DEFINE x == JoinedRow(m, r)[c]
           q == m.q
           v == centered_mod(x, q)
<1>1. x \in Entries(m) /\ x \in 0..(q - 1) /\ q \in Nat /\ q >= 2
  BY JoinedFacts, TaskTyped
<1>2. v \in Centred(m)
  <2>1. Centred(m) = {centered_mod(y, m.q) : y \in Entries(m)}
    BY Zenon DEF Centred, Entries, BlockEntries, RowEntries
  <2> QED BY <1>1, <2>1
<1> HIDE DEF x, q
<1>3. q \div 2 \in Int
  BY <1>1
<1>4. x % q = x /\ (x + (-1) * q) % q = x % q /\ x + (-1) * q = x - q
  <2>1. x \in Int /\ -1 \in Int /\ q > 0
    BY <1>1
  <2>2. (x + (-1) * q) % q = x % q
    BY <1>1, <2>1, IntModShift
  <2>3. x % q = x
    BY <1>1, ModSmall
  <2>4. x + (-1) * q = x - q
    BY <1>1
  <2> QED BY <2>2, <2>3, <2>4
<1>5. v \in Int /\ v % q = x
  BY <1>1, <1>3, <1>4 DEF centered_mod
<1> QED BY <1>2, <1>5 DEF x, q, CentredAt

-----------------------------------------------------------------------------
(* What from_blocks stores *)

MayPack(m) ==
    /\ PowerOfTwo(m.q) /\ RowCount(m) % 4 = 0 /\ m.packs
    /\ FitsSigned(Centred(m), PackBits[2]) /\ ColCount(m) % GroupCols = 0
WidthOf(m) == IF FitsSigned(Centred(m), PackBits[1]) THEN PackBits[1] ELSE PackBits[2]
PackedRows(m, bits) == [r \in 1..RowCount(m) |-> PackedRow(CentredRow(m, r), bits)]
CentredRows(m) == [r \in 1..RowCount(m) |-> CentredRow(m, r)]
Padding == [b \in 1..ReadBytes |-> 0]

LEMMA FromBlocksIs ==
    ASSUME NEW m
    PROVE  from_blocks(m) =
             IF MayPack(m)
             THEN [kind |-> "packed", bits |-> WidthOf(m), data |-> FlattenSeq(PackedRows(m, WidthOf(m))) \o Padding]
             ELSE [kind |-> IF FitsSigned(Centred(m), NarrowBits) THEN "narrow" ELSE "wide", bits |-> 0,
                   data |-> FlattenSeq(CentredRows(m))]
  BY Zenon DEF from_blocks, MayPack, WidthOf, PackedRows, CentredRows, CentredRow, CentredAt, Padding

PackedWords(m, bits) == [n \in 0..(RowCount(m) * ColCount(m) - 1) |->
    CentredAt(m, (n \div ColCount(m)) + 1, (n % ColCount(m)) + 1) % 2^bits]

(* Row and column of a word. *)
LEMMA PlaceOf ==
    ASSUME NEW m, Loaded(m), NEW n \in 0..(RowCount(m) * ColCount(m) - 1)
    PROVE  /\ ColCount(m) \in Nat /\ ColCount(m) > 0 /\ n \in Nat
           /\ (n \div ColCount(m)) + 1 \in 1..RowCount(m) /\ (n % ColCount(m)) + 1 \in 1..ColCount(m)
           /\ n = (n \div ColCount(m)) * ColCount(m) + (n % ColCount(m))
<1> DEFINE R == RowCount(m)
           C == ColCount(m)
<1>1. R \in Nat /\ C \in Nat
  BY TaskTyped, JoinedFacts
<1> HIDE DEF R, C
<1>2. R * C \in Nat
  BY <1>1, ProductsAreNat
<1>3. n \in Nat /\ n < R * C
  BY <1>2 DEF R, C
<1>4. C > 0
  <2>1. CASE C = 0
    <3>1. R * C = 0
      BY <1>1, <2>1
    <3> QED BY <1>3, <3>1
  <2> QED BY <1>1, <2>1
<1>5. n \div C \in 0..(R - 1) /\ n % C \in 0..(C - 1)
  BY <1>1, <1>3, <1>4, BelowProduct
<1>6. n = (n \div C) * C + (n % C)
  BY <1>1, <1>3, <1>4, Divided
<1> DEFINE d == n \div C
           e == n % C
<1>7. d + 1 \in 1..R /\ e + 1 \in 1..C
  <2> HIDE DEF d, e
  <2>1. d \in 0..(R - 1) /\ e \in 0..(C - 1)
    BY <1>5 DEF d, e
  <2> QED BY <1>1, <2>1
<1> QED BY <1>1, <1>3, <1>4, <1>6, <1>7, Zenon DEF R, C

LEMMA WidthFacts ==
    ASSUME NEW m, Loaded(m), MayPack(m)
    PROVE  /\ Wide(WidthOf(m)) /\ FitsSigned(Centred(m), WidthOf(m))
           /\ Stride(ColCount(m), WidthOf(m)) \in Nat
           /\ Stride(ColCount(m), WidthOf(m)) * PackByte = ColCount(m) * WidthOf(m)
<1> DEFINE C == ColCount(m)
           w == WidthOf(m)
           k == C \div PackByte
<1>1. Wide(w) /\ FitsSigned(Centred(m), w)
  BY MatrixSizes DEF WidthOf, MayPack
<1>2. w \in Nat
  BY <1>1 DEF Wide
<1>3. C \in Nat /\ C % PackByte = 0 /\ PackByte \in Nat /\ PackByte > 0 /\ GroupCols = PackByte
  BY JoinedFacts, MatrixSizes DEF MayPack
<1> HIDE DEF C, w
<1>4. k \in Nat /\ C = k * PackByte + (C % PackByte)
  BY <1>3, Divided
<1> HIDE DEF k
<1>5. C = k * PackByte
  BY <1>3, <1>4, ProductsAreNat
<1>6. k * w \in Nat /\ (k * w) * PackByte = (k * PackByte) * w
  BY <1>2, <1>3, <1>4, SMT
<1>7. Stride(C, w) = k * w
  BY <1>3 DEF Stride, k
<1> QED BY <1>1, <1>5, <1>6, <1>7 DEF C, w

LEMMA PackedWordsFit ==
    ASSUME NEW m, Loaded(m), NEW bits, Wide(bits)
    PROVE  WordsOf(PackedWords(m, bits), RowCount(m) * ColCount(m), bits)
<1> DEFINE T == RowCount(m) * ColCount(m)
           U == PackedWords(m, bits)
<1>1. RowCount(m) \in Nat /\ ColCount(m) \in Nat /\ bits \in Nat
  BY TaskTyped, JoinedFacts DEF Wide
<1>2. T \in Nat /\ 2^bits \in Nat /\ 2^bits > 0
  BY <1>1, ProductsAreNat, PowerPositive
<1>3. ASSUME NEW n \in 0..(T - 1) PROVE U[n] \in 0..(2^bits - 1)
  <2> DEFINE v == CentredAt(m, (n \div ColCount(m)) + 1, (n % ColCount(m)) + 1)
  <2>1. (n \div ColCount(m)) + 1 \in 1..RowCount(m) /\ (n % ColCount(m)) + 1 \in 1..ColCount(m)
    BY PlaceOf
  <2>2. v \in Int
    BY <2>1, CentredFacts
  <2>3. U[n] = v % 2^bits
    BY DEF PackedWords
  <2> HIDE DEF v, U
  <2>4. v % 2^bits \in 0..(2^bits - 1)
    BY <1>2, <2>2, IntDivided
  <2> QED BY <2>3, <2>4
<1> HIDE DEF U, T
<1>4. WordsOf(U, T, bits)
  BY <1>2, <1>3 DEF WordsOf
<1> QED BY <1>4 DEF U, T

BitAt(m, r, bits, n) == ((CentredRow(m, r)[(n \div bits) + 1] % 2^bits) \div 2^(n % bits)) % 2

LEMMA PackedRowIs ==
    ASSUME NEW m, NEW r, NEW bits
    PROVE  PackedRow(CentredRow(m, r), bits) =
             [b \in 1..Stride(Len(CentredRow(m, r)), bits) |->
                SumOf([i \in 0..(PackByte - 1) |-> BitAt(m, r, bits, (b - 1) * PackByte + i) * 2^i], 0, (PackByte - 1) + 1)]
  BY Zenon DEF PackedRow, SumOver, BitAt

(* A bit of a row in the stream of all rows. *)
LEMMA RowBit ==
    ASSUME NEW m, Loaded(m), NEW bits, Wide(bits), NEW r \in 1..RowCount(m), NEW n \in Nat, n < ColCount(m) * bits
    PROVE  LET T == RowCount(m) * ColCount(m)
           IN  StreamOf(PackedWords(m, bits), T, bits)[((r - 1) * ColCount(m)) * bits + n] = BitAt(m, r, bits, n)
<1> DEFINE R == RowCount(m)
           C == ColCount(m)
           T == R * C
           U == PackedWords(m, bits)
           d == n \div bits
           s == n % bits
           x == (r - 1) * C + d
<1>1. R \in Nat /\ C \in Nat /\ bits \in Nat /\ bits > 0 /\ r - 1 \in Nat /\ r - 1 <= R - 1
  BY TaskTyped, JoinedFacts DEF Wide
<1>2. d \in 0..(C - 1) /\ s \in 0..(bits - 1) /\ n = d * bits + s
  <2> HIDE DEF C
  <2> QED BY <1>1, BelowProduct, Divided DEF C
<1> HIDE DEF C, R
<1>3. (r - 1) * C \in Nat /\ (r - 1) * C <= T - C /\ T \in Nat
  <2>1. (r - 1) * C <= (R - 1) * C /\ (R - 1) * C = R * C - C
    BY <1>1, SMT
  <2>2. (r - 1) * C \in Nat /\ R * C \in Nat
    BY <1>1, ProductsAreNat
  <2> QED BY <1>1, <2>1, <2>2
<1>4. x \in 0..(T - 1)
  <2> HIDE DEF T, d
  <2> QED BY <1>1, <1>2, <1>3
<1>5. x % C = d /\ x \div C = r - 1
  <2>1. C > 0
    BY <1>1, <1>2
  <2> HIDE DEF d
  <2> QED BY <1>1, <1>2, <2>1, ModUnique
<1>6. ((r - 1) * C) * bits + n = x * bits + s
  <2> HIDE DEF d, s
  <2>1. ((r - 1) * C + d) * bits = ((r - 1) * C) * bits + d * bits
    BY <1>1, <1>2, <1>3, SMT
  <2>2. ((r - 1) * C) * bits \in Nat /\ d * bits \in Nat /\ s \in Nat
    BY <1>1, <1>2, <1>3, ProductsAreNat
  <2> QED BY <1>2, <2>1, <2>2
<1>7. WordsOf(U, T, bits)
  BY PackedWordsFit DEF R, C
<1>8. U[x] = CentredAt(m, (r - 1) + 1, d + 1) % 2^bits
  <2>1. U[x] = CentredAt(m, (x \div C) + 1, (x % C) + 1) % 2^bits
    BY <1>4 DEF PackedWords, R, C
  <2> HIDE DEF U, x
  <2> QED BY <1>5, <2>1
<1>9. CentredRow(m, r)[d + 1] = CentredAt(m, r, d + 1)
  <2>1. d + 1 \in 1..C
    BY <1>1, <1>2
  <2> QED BY <2>1 DEF CentredRow, C
<1>10. (r - 1) + 1 = r
  OBVIOUS
<1> HIDE DEF x, U, T
<1>11. StreamOf(U, T, bits)[x * bits + s] = (U[x] \div 2^s) % 2
  <2> HIDE DEF s
  <2> QED BY <1>2, <1>4, <1>7, StreamFacts
<1>12. BitAt(m, r, bits, n) = (U[x] \div 2^s) % 2
  BY <1>8, <1>9, <1>10 DEF BitAt
<1>13. StreamOf(U, T, bits)[((r - 1) * C) * bits + n] = BitAt(m, r, bits, n)
  BY <1>6, <1>11, <1>12
<1> QED BY <1>13 DEF U, T, R, C

LEMMA PackedByte ==
    ASSUME NEW m, Loaded(m), MayPack(m), NEW r \in 1..RowCount(m),
           NEW b \in 1..Stride(ColCount(m), WidthOf(m))
    PROVE  LET w == WidthOf(m)
               S == Stride(ColCount(m), w)
               k == (r - 1) * S + (b - 1)
           IN  PackedRow(CentredRow(m, r), w)[b] =
                 BitValue(StreamOf(PackedWords(m, w), RowCount(m) * ColCount(m), w), PackByte * k, PackByte)
<1> DEFINE w == WidthOf(m)
           C == ColCount(m)
           S == Stride(C, w)
           k == (r - 1) * S + (b - 1)
           g == StreamOf(PackedWords(m, w), RowCount(m) * C, w)
           f == [i \in 0..(PackByte - 1) |-> BitAt(m, r, w, (b - 1) * PackByte + i) * 2^i]
           h == [i \in 0..(PackByte - 1) |-> g[PackByte * k + i] * 2^i]
<1>1. Wide(w) /\ S \in Nat /\ S * PackByte = C * w
  BY WidthFacts
<1>2. C \in Nat /\ PackByte \in Nat /\ PackByte >= 1 /\ r - 1 \in Nat /\ b - 1 \in Nat /\ b - 1 <= S - 1 /\ w \in Nat
  BY <1>1, JoinedFacts, TaskTyped, MatrixSizes DEF Wide
<1>3. Len(CentredRow(m, r)) = C
  BY <1>2 DEF CentredRow
<1>4. PackedRow(CentredRow(m, r), w)[b] = SumOf(f, 0, (PackByte - 1) + 1)
  <2>1. PackedRow(CentredRow(m, r), w) = [e \in 1..S |->
          SumOf([i \in 0..(PackByte - 1) |-> BitAt(m, r, w, (e - 1) * PackByte + i) * 2^i], 0, (PackByte - 1) + 1)]
    BY <1>3, PackedRowIs
  <2>2. b \in 1..S
    OBVIOUS
  <2> HIDE DEF S, w
  <2> QED BY <2>1, <2>2
<1>5. BitValue(g, PackByte * k, PackByte) = SumOf(h, 0, PackByte)
  BY Zenon DEF BitValue
<1>6. IsStream(g)
  BY <1>1, PackedWordsFit, StreamFacts
<1> HIDE DEF w, S, C
<1>7. (r - 1) * S \in Nat /\ k \in Nat /\ PackByte * k \in Nat
  <2>1. (r - 1) * S \in Nat
    BY <1>1, <1>2, ProductsAreNat
  <2>2. k \in Nat
    BY <1>2, <2>1
  <2> HIDE DEF k
  <2> QED BY <1>2, <2>1, <2>2, ProductsAreNat
<1>8. PackByte * k = ((r - 1) * C) * w + (b - 1) * PackByte
  <2> DEFINE a == r - 1
             e == b - 1
  <2>1. a \in Nat /\ e \in Nat
    BY <1>2
  <2> HIDE DEF a, e
  <2>2. PackByte * (a * S + e) = a * (S * PackByte) + e * PackByte
    BY <1>1, <1>2, <2>1, SMT
  <2>3. a * (C * w) = (a * C) * w
    BY <1>2, <2>1, SMT
  <2> QED BY <1>1, <2>2, <2>3 DEF a, e
<1>9. ASSUME NEW i \in 0..(PackByte - 1) PROVE h[i] \in Int /\ f[i] = h[i]
  <2> DEFINE n == (b - 1) * PackByte + i
             p == ((r - 1) * C) * w
             e == (b - 1) * PackByte
  <2>1. e \in Nat /\ e <= S * PackByte - PackByte /\ p \in Nat
    <3>1. (b - 1) * PackByte <= (S - 1) * PackByte /\ (S - 1) * PackByte = S * PackByte - PackByte
      BY <1>1, <1>2, SMT
    <3>2. (b - 1) * PackByte \in Nat /\ (r - 1) * C \in Nat
      BY <1>2, ProductsAreNat
    <3>3. p \in Nat
      BY <1>2, <3>2, ProductsAreNat
    <3> QED BY <3>1, <3>2, <3>3
  <2>2. n \in Nat /\ n < C * w
    <3>1. S * PackByte \in Nat
      BY <1>1, <1>2, ProductsAreNat
    <3> HIDE DEF e
    <3>2. e + i \in Nat /\ e + i < S * PackByte
      BY <1>2, <2>1, <3>1
    <3> QED BY <1>1, <3>2 DEF e
  <2>3. g[p + n] = BitAt(m, r, w, n)
    <3> HIDE DEF n
    <3> QED BY <1>1, <2>2, RowBit DEF C, w
  <2>4. PackByte * k + i = p + n
    <3> HIDE DEF p, e, k
    <3>1. PackByte * k = p + e
      BY <1>8 DEF p, e
    <3> QED BY <1>2, <2>1, <3>1 DEF e
  <2>5. f[i] = BitAt(m, r, w, n) * 2^i /\ h[i] = g[PackByte * k + i] * 2^i
    OBVIOUS
  <2>6. g[PackByte * k + i] * 2^i \in Nat
    <3> DEFINE a == PackByte * k
    <3>1. a \in Nat /\ i \in Nat
      BY <1>7
    <3> HIDE DEF a, g
    <3> QED BY <1>6, <3>1, StreamTerm DEF a
  <2> HIDE DEF f, h, g, n, p, k
  <2> QED BY <2>3, <2>4, <2>5, <2>6
<1> HIDE DEF f, h, g, k
<1>10. (PackByte - 1) + 1 = PackByte
  BY <1>2
<1>11. IntTerms(h, 0, PackByte) /\ \A i \in 0..(PackByte - 1) : f[i] = h[i]
  BY <1>2, <1>9 DEF IntTerms
<1>12. SumOf(f, 0, PackByte) = SumOf(h, 0, PackByte)
  BY <1>11, SumSame
<1> QED BY <1>4, <1>5, <1>10, <1>12 DEF k, S, C, w, g

LEMMA PaddingByte ==
    ASSUME NEW U, NEW T, NEW bits, WordsOf(U, T, bits), NEW a \in Nat, a >= T * bits
    PROVE  BitValue(StreamOf(U, T, bits), a, PackByte) = 0
<1> DEFINE g == StreamOf(U, T, bits)
           zero == 0
<1>1. IsStream(g)
  BY StreamFacts
<1>2. T * bits \in Nat /\ PackByte \in Nat
  <2>1. T \in Nat /\ bits \in Nat
    BY DEF WordsOf, Wide
  <2> QED BY <2>1, ProductsAreNat, MatrixSizes
<1>3. ASSUME NEW i \in 0..(PackByte - 1) PROVE g[a + i] = (zero \div 2^i) % 2
  <2>1. a + i \in Nat /\ ~(a + i < T * bits)
    BY <1>2
  <2>2. g[a + i] = 0
    BY <2>1 DEF StreamOf
  <2>3. 2^i \in Nat /\ 2^i > 0
    BY PowerPositive
  <2>4. zero \div 2^i = 0
    <3> DEFINE p == 2^i
    <3> HIDE DEF p
    <3>1. p \in Nat /\ p > 0 /\ 0 \in 0..(p - 1) /\ 0 \in Nat
      BY <2>3 DEF p
    <3>2. (0 * p + 0) \div p = 0
      BY <3>1, ModUnique
    <3>3. 0 * p + 0 = 0
      BY <3>1
    <3> QED BY <3>2, <3>3 DEF p, zero
  <2> HIDE DEF zero
  <2> QED BY <2>2, <2>4
<1>4. zero \in Nat
  OBVIOUS
<1> HIDE DEF g, zero
<1>5. BitsAre(g, a, PackByte, zero)
  BY <1>3 DEF BitsAre
<1>6. BitValue(g, a, PackByte) = zero % 2^PackByte
  BY <1>1, <1>2, <1>4, <1>5, ValueIs
<1>7. zero % 2^PackByte = 0
  <2>1. 2^PackByte \in Nat /\ 2^PackByte > 0
    BY <1>2, PowerPositive
  <2> DEFINE p == 2^PackByte
  <2> HIDE DEF p
  <2>2. p \in Nat /\ 0 \in 0..(p - 1)
    BY <2>1 DEF p
  <2>3. 0 % p = 0
    BY <2>2, ModSmall
  <2> QED BY <2>3 DEF zero, p
<1> QED BY <1>6, <1>7 DEF g

LEMMA PackedIs ==
    ASSUME NEW m, Loaded(m), MayPack(m)
    PROVE  LET w == WidthOf(m)
           IN  PackedIn(FlattenSeq(PackedRows(m, w)) \o Padding, PackedWords(m, w), RowCount(m) * ColCount(m),
                     RowCount(m) * Stride(ColCount(m), w), w)
<1> DEFINE w == WidthOf(m)
           R == RowCount(m)
           C == ColCount(m)
           S == Stride(C, w)
           T == R * C
           U == PackedWords(m, w)
           g == StreamOf(U, T, w)
           s == PackedRows(m, w)
           F == FlattenSeq(s)
           D == F \o Padding
           B == R * S
<1>1. Wide(w) /\ S \in Nat /\ S * PackByte = C * w /\ w \in Nat
  BY WidthFacts DEF Wide
<1>2. R \in Nat /\ R >= 1 /\ C \in Nat /\ PackByte \in Nat /\ PackByte >= 1 /\ ReadBytes \in Nat
  BY TaskTyped, JoinedFacts, MatrixSizes
<1>3. WordsOf(U, T, w)
  BY <1>1, PackedWordsFit
<1>4. IsStream(g)
  BY <1>3, StreamFacts
<1>5. \A r \in 1..R : \A b \in 1..S :
        PackedRow(CentredRow(m, r), w)[b] = BitValue(g, PackByte * ((r - 1) * S + (b - 1)), PackByte)
  BY PackedByte
<1>6. ASSUME NEW r \in 1..R
      PROVE  /\ s[r] = PackedRow(CentredRow(m, r), w)
             /\ \E h : s[r] = [b \in 1..S |-> h[b]]
  <2>1. s[r] = PackedRow(CentredRow(m, r), w)
    BY DEF PackedRows
  <2>2. Len(CentredRow(m, r)) = C
    BY <1>2 DEF CentredRow
  <2> DEFINE h == [b \in 1..S |->
                SumOf([i \in 0..(PackByte - 1) |-> BitAt(m, r, w, (b - 1) * PackByte + i) * 2^i], 0, (PackByte - 1) + 1)]
  <2>3. s[r] = h
    BY <2>1, <2>2, PackedRowIs
  <2>4. h = [b \in 1..S |-> h[b]]
    OBVIOUS
  <2> HIDE DEF h, s
  <2> QED BY <2>1, <2>3, <2>4
<1>7. s = [r \in 1..R |-> s[r]] /\ Len(s) = R
  <2>1. s = [r \in 1..R |-> PackedRow(CentredRow(m, r), w)]
    BY DEF PackedRows
  <2> HIDE DEF w, R, s
  <2> QED BY <1>2, <2>1
<1> HIDE DEF w, R, C, S, g, s, U
<1>8. ASSUME NEW r \in 1..R PROVE s[r] \in Seq(Nat) /\ Len(s[r]) = S
  <2>1. PICK h : s[r] = [b \in 1..S |-> h[b]]
    BY <1>6
  <2>2. \A b \in 1..S : s[r][b] \in Nat
    <3> TAKE b \in 1..S
    <3> DEFINE k == (r - 1) * S + (b - 1)
               a == PackByte * k
    <3>1. s[r][b] = BitValue(g, a, PackByte)
      BY <1>5, <1>6
    <3>2. a \in Nat
      <4>1. (r - 1) \in Nat /\ b - 1 \in Nat
        BY <1>1, <1>2
      <4>2. (r - 1) * S \in Nat
        BY <1>1, <4>1, ProductsAreNat
      <4>3. k \in Nat
        BY <4>1, <4>2
      <4> HIDE DEF k
      <4> QED BY <1>2, <4>3, ProductsAreNat
    <3> HIDE DEF a
    <3> QED BY <1>2, <1>4, <3>1, <3>2, ValueBound
  <2> DEFINE t == s[r]
  <2>3. t = [b \in 1..S |-> h[b]] /\ \A b \in 1..S : t[b] \in Nat
    BY <2>1, <2>2
  <2> HIDE DEF t
  <2>4. t \in Seq(Nat) /\ Len(t) = S
    BY <1>1, <2>3
  <2> QED BY <2>4 DEF t
<1>9. Pieces(s, Nat, R)
  BY <1>2, <1>7, <1>8 DEF Pieces
<1>10. /\ F \in Seq(Nat) /\ Len(F) = B
       /\ \A r \in 1..R : \A b \in 1..S : F[(r - 1) * S + b] = s[r][b]
  <2>1. S \in Nat /\ OneLength(s, R, S)
    BY <1>1, <1>8 DEF OneLength
  <2> QED BY <1>9, <2>1, FlattenEven
<1>11. Padding \in Seq(Nat) /\ Len(Padding) = ReadBytes /\ \A b \in 1..ReadBytes : Padding[b] = 0
  BY <1>2 DEF Padding
<1>12. B \in Nat
  BY <1>1, <1>2, ProductsAreNat
<1> HIDE DEF F, B
<1>13. /\ \A j \in 1..B : D[j] = F[j]
       /\ \A j \in 1..ReadBytes : D[B + j] = 0
  <2>1. /\ \A j \in 1..Len(F) : (F \o Padding)[j] = F[j]
        /\ \A j \in 1..Len(Padding) : (F \o Padding)[Len(F) + j] = Padding[j]
    BY <1>10, <1>11, ConcatFacts
  <2> QED BY <1>10, <1>11, <2>1
<1>14. T * w = B * PackByte
  <2>1. (R * C) * w = R * (C * w) /\ (R * S) * PackByte = R * (S * PackByte)
    BY <1>1, <1>2, SMT
  <2> QED BY <1>1, <2>1 DEF B
<1> HIDE DEF D, T
<1>15. ASSUME NEW k \in 0..(B + ReadBytes - 1) PROVE D[k + 1] = BitValue(g, PackByte * k, PackByte)
  <2>1. CASE k < B
    <3> DEFINE d == k \div S
               e == k % S
    <3>0. S > 0
      <4>1. CASE S = 0
        <5>1. R * S = 0
          BY <1>2, <4>1
        <5> QED BY <2>1, <5>1 DEF B
      <4> QED BY <1>1, <4>1
    <3>1. d \in 0..(R - 1) /\ e \in 0..(S - 1) /\ k = d * S + e
      <4>1. k \in Nat /\ k < R * S
        BY <2>1, <1>12 DEF B
      <4> QED BY <1>1, <1>2, <3>0, <4>1, BelowProduct, Divided
    <3> HIDE DEF d, e
    <3> DEFINE r == d + 1
               b == e + 1
    <3>2. r \in 1..R /\ b \in 1..S /\ r - 1 = d /\ b - 1 = e
      BY <1>1, <1>2, <3>1
    <3> HIDE DEF r, b
    <3>3. (r - 1) * S + b = k + 1 /\ (r - 1) * S + (b - 1) = k
      <4>1. d * S \in Nat /\ e \in Nat
        BY <1>1, <1>2, <3>1, ProductsAreNat
      <4> QED BY <3>1, <3>2, <4>1 DEF b
    <3>4. F[(r - 1) * S + b] = s[r][b]
      BY <1>10, <3>2
    <3>5. s[r][b] = BitValue(g, PackByte * ((r - 1) * S + (b - 1)), PackByte)
      BY <1>5, <1>6, <3>2
    <3>6. k + 1 \in 1..B
      BY <1>12, <2>1
    <3> QED BY <1>13, <3>3, <3>4, <3>5, <3>6
  <2>2. CASE k >= B
    <3> DEFINE j == k - B + 1
               a == PackByte * k
    <3>1. j \in 1..ReadBytes /\ B + j = k + 1 /\ k \in Nat
      BY <1>2, <1>12, <2>2
    <3> HIDE DEF j
    <3>2. D[k + 1] = 0
      BY <1>13, <3>1
    <3>3. a \in Nat /\ a >= T * w
      <4>1. PackByte * k >= B * PackByte /\ PackByte * k \in Nat
        BY <1>2, <1>12, <2>2, <3>1, SMT
      <4> QED BY <1>14, <4>1
    <3> HIDE DEF a
    <3>4. BitValue(g, a, PackByte) = 0
      BY <1>3, <3>3, PaddingByte DEF g
    <3> QED BY <3>2, <3>4 DEF a
  <2> QED BY <1>12, <2>1, <2>2
<1>16. PackedIn(D, U, T, B, w)
  BY <1>3, <1>12, <1>14, <1>15 DEF PackedIn, g
<1> QED BY <1>16 DEF D, F, U, T, B, S, R, C, w, s

WordIn(st, n) == IF st.kind = "packed" THEN read_packed(st.data, n, st.bits) ELSE st.data[n + 1]

(* Words read back as the centred entries. *)
LEMMA WordsRead ==
    ASSUME NEW m, Loaded(m), NEW n \in 0..(RowCount(m) * ColCount(m) - 1)
    PROVE  WordIn(from_blocks(m), n) = CentredAt(m, (n \div ColCount(m)) + 1, (n % ColCount(m)) + 1)
<1> DEFINE R == RowCount(m)
           C == ColCount(m)
           r == (n \div C) + 1
           c == (n % C) + 1
           v == CentredAt(m, r, c)
<1>1. /\ C \in Nat /\ C > 0 /\ n \in Nat /\ r \in 1..R /\ c \in 1..C
      /\ n = (n \div C) * C + (n % C)
  BY PlaceOf
<1>2. v \in Int /\ v \in Centred(m)
  BY <1>1, CentredFacts
<1>3. R \in Nat /\ R >= 1
  BY TaskTyped
<1>4. CASE MayPack(m)
  <2> DEFINE w == WidthOf(m)
             D == FlattenSeq(PackedRows(m, w)) \o Padding
             U == PackedWords(m, w)
             B == R * Stride(C, w)
             T == R * C
  <2>1. from_blocks(m) = [kind |-> "packed", bits |-> w, data |-> D]
    BY <1>4, FromBlocksIs
  <2>2. WordIn(from_blocks(m), n) = read_packed(D, n, w)
    <3> HIDE DEF D, w
    <3> QED BY <2>1 DEF WordIn
  <2>3. PackedIn(D, U, T, B, w)
    BY <1>4, PackedIs
  <2>4. FitsSigned(Centred(m), w)
    BY <1>4, WidthFacts
  <2>5. -(2^(w - 1)) <= v /\ v < 2^(w - 1)
    <3>1. v >= -(2^(w - 1)) /\ v < 2^(w - 1)
      <4> HIDE DEF v, w
      <4> QED BY <1>2, <2>4 DEF FitsSigned
    <3>2. 2^(w - 1) \in Int
      <4>1. w - 1 \in Nat
        BY <1>4, WidthFacts DEF Wide
      <4> QED BY <4>1, PowerPositive
    <3> HIDE DEF v, w
    <3> QED BY <1>2, <3>1, <3>2
  <2>6. v % 2^w = U[n]
    BY DEF PackedWords
  <2>7. n \in 0..(T - 1)
    OBVIOUS
  <2> HIDE DEF D, U, B, T, v, w
  <2>8. read_packed(D, n, w) = v
    BY <1>2, <2>3, <2>5, <2>6, <2>7, PackedRead
  <2> QED BY <2>2, <2>8 DEF v
<1>5. CASE ~MayPack(m)
  <2> DEFINE s == CentredRows(m)
             kind == IF FitsSigned(Centred(m), NarrowBits) THEN "narrow" ELSE "wide"
             F == FlattenSeq(s)
  <2>1. from_blocks(m) = [kind |-> kind, bits |-> 0, data |-> F]
    BY <1>5, FromBlocksIs
  <2>2. WordIn(from_blocks(m), n) = F[n + 1]
    <3>1. kind # "packed"
      OBVIOUS
    <3> HIDE DEF kind, F
    <3> QED BY <2>1, <3>1 DEF WordIn
  <2>3. \A i \in 1..R : s[i] \in Seq(Int) /\ Len(s[i]) = C /\ \A j \in 1..C : s[i][j] = CentredAt(m, i, j)
    <3> TAKE i \in 1..R
    <3> DEFINE t == CentredRow(m, i)
    <3>1. \A j \in 1..C : t[j] = CentredAt(m, i, j) /\ CentredAt(m, i, j) \in Int
      BY CentredFacts DEF CentredRow
    <3>2. t = [j \in 1..C |-> t[j]]
      BY DEF CentredRow
    <3>3. s[i] = t
      BY DEF CentredRows
    <3> HIDE DEF t, C, s
    <3>4. t \in Seq(Int) /\ Len(t) = C
      <4>1. \A j \in 1..C : t[j] \in Int
        BY <3>1
      <4>2. C \in Nat
        BY <1>1
      <4>3. DOMAIN t = 1..C
        BY <3>2
      <4>4. t \in [1..C -> Int]
        BY <3>2, <4>1, Zenon
      <4> QED BY <4>2, <4>4
    <3> QED BY <3>1, <3>3, <3>4
  <2>4. Len(s) = R
    <3>1. s = [i \in 1..R |-> CentredRow(m, i)]
      BY DEF CentredRows
    <3> HIDE DEF R, s
    <3> QED BY <1>3, <3>1
  <2> HIDE DEF s, R, C
  <2>5. Pieces(s, Int, R)
    BY <1>3, <2>3, <2>4 DEF Pieces
  <2>6. \A i \in 1..R : \A j \in 1..C : F[(i - 1) * C + j] = s[i][j]
    <3>1. C \in Nat /\ OneLength(s, R, C)
      BY <1>1, <2>3 DEF OneLength
    <3> QED BY <2>5, <3>1, FlattenEven
  <2> DEFINE d == n \div C
             e == n % C
  <2>7. (r - 1) * C + c = n + 1
    <3>1. d \in Nat /\ e \in Nat /\ n = d * C + e
      BY <1>1, Divided
    <3>2. r - 1 = d /\ c = e + 1
      <4>1. r = d + 1 /\ c = e + 1
        OBVIOUS
      <4> HIDE DEF r, c, d, e
      <4> QED BY <3>1, <4>1
    <3> HIDE DEF d, e, r, c
    <3>3. d * C \in Nat
      BY <1>1, <3>1, ProductsAreNat
    <3> QED BY <3>1, <3>2, <3>3
  <2> HIDE DEF r, c, F
  <2>8. F[(r - 1) * C + c] = CentredAt(m, r, c)
    BY <1>1, <2>3, <2>6
  <2> QED BY <2>2, <2>7, <2>8 DEF r, c, C
<1> QED BY <1>4, <1>5

-----------------------------------------------------------------------------
(* Products *)

Held == Loaded(matrix) /\ store = from_blocks(matrix)
Asked == Len(matrix.y) = ColCount(matrix) /\ \A c \in DOMAIN matrix.y : matrix.y[c] < matrix.q
Wanted(r) == [c \in 1..Len(matrix.y) |-> (JoinedRow(matrix, r)[c] * matrix.y[c]) % matrix.q]

LEMMA RowIndex ==
    ASSUME NEW R \in Nat, NEW C \in Nat, NEW r \in 1..R, NEW c \in 1..C
    PROVE  LET n == (r - 1) * C + c - 1
           IN  n \in 0..(R * C - 1) /\ n \div C = r - 1 /\ n % C = c - 1
<1> DEFINE a == r - 1
           e == c - 1
           n == (r - 1) * C + c - 1
<1>1. a \in Nat /\ a <= R - 1 /\ e \in 0..(C - 1) /\ C > 0 /\ e \in Nat /\ c = e + 1
  OBVIOUS
<1>2. a * C \in Nat /\ R * C \in Nat
  BY <1>1, ProductsAreNat
<1>3. a * C <= (R - 1) * C /\ (R - 1) * C = R * C - C
  BY <1>1, SMT
<1>4. n = a * C + e
  <2>1. n = a * C + c - 1
    OBVIOUS
  <2> HIDE DEF a, n, e
  <2> QED BY <1>1, <1>2, <2>1
<1> HIDE DEF a, e
<1>5. (a * C + e) % C = e /\ (a * C + e) \div C = a
  BY <1>1, ModUnique
<1>6. n \in 0..(R * C - 1)
  <2> HIDE DEF n
  <2> QED BY <1>1, <1>2, <1>3, <1>4
<1> HIDE DEF n
<1>7. n \in 0..(R * C - 1) /\ n \div C = a /\ n % C = e
  BY <1>4, <1>5, <1>6
<1> QED BY <1>7 DEF n, a, e

LEMMA StoredRowIs ==
    ASSUME Held, NEW r \in 1..RowCount(matrix)
    PROVE  /\ StoredRow(r) = CentredRow(matrix, r)
           /\ \A c \in 1..ColCount(matrix) :
                WordAt((r - 1) * ColCount(matrix) + c - 1) = CentredAt(matrix, r, c)
<1> DEFINE R == RowCount(matrix)
           C == ColCount(matrix)
<1>1. R \in Nat /\ C \in Nat /\ Loaded(matrix) /\ store = from_blocks(matrix)
  BY TaskTyped, JoinedFacts DEF Held
<1>2. ASSUME NEW c \in 1..C PROVE WordAt((r - 1) * C + c - 1) = CentredAt(matrix, r, c)
  <2> DEFINE n == (r - 1) * C + c - 1
  <2>1. n \in 0..(R * C - 1) /\ n \div C = r - 1 /\ n % C = c - 1
    <3> HIDE DEF R, C
    <3> QED BY <1>1, RowIndex DEF R
  <2> HIDE DEF n
  <2>2. WordIn(from_blocks(matrix), n) = CentredAt(matrix, (n \div C) + 1, (n % C) + 1)
    BY <1>1, <2>1, WordsRead
  <2>3. WordAt(n) = WordIn(store, n)
    BY DEF WordAt, WordIn
  <2>4. (r - 1) + 1 = r /\ (c - 1) + 1 = c
    OBVIOUS
  <2> HIDE DEF C
  <2>5. WordAt(n) = CentredAt(matrix, r, c)
    BY <1>1, <2>1, <2>2, <2>3, <2>4
  <2> QED BY <2>5 DEF n
<1>3. StoredRow(r) = [c \in 1..C |-> WordAt((r - 1) * C + c - 1)]
  BY DEF StoredRow
<1>4. CentredRow(matrix, r) = [c \in 1..C |-> CentredAt(matrix, r, c)]
  BY DEF CentredRow
<1> HIDE DEF C
<1>5. StoredRow(r) = CentredRow(matrix, r)
  BY <1>2, <1>3, <1>4
<1> QED BY <1>2, <1>5 DEF C

LEMMA Queried ==
    ASSUME Held, Asked
    PROVE  /\ ColCount(matrix) \in Nat /\ Len(matrix.y) = ColCount(matrix) /\ DOMAIN matrix.y = 1..ColCount(matrix)
           /\ \A c \in 1..ColCount(matrix) : matrix.y[c] \in Nat /\ matrix.y[c] < matrix.q
           /\ matrix.q \in Nat /\ matrix.q >= 2
           /\ \A r \in 1..RowCount(matrix) : Factors(CentredRow(matrix, r), matrix.y)
<1>1. Loaded(matrix)
  BY DEF Held
<1>2. matrix.q \in Nat /\ matrix.q >= 2 /\ matrix.y \in Seq(Nat) /\ ColCount(matrix) \in Nat
  BY <1>1, TaskTyped, JoinedFacts
<1>3. Len(matrix.y) = ColCount(matrix) /\ \A c \in DOMAIN matrix.y : matrix.y[c] < matrix.q
  BY DEF Asked
<1>4. DOMAIN matrix.y = 1..ColCount(matrix) /\ \A c \in 1..ColCount(matrix) : matrix.y[c] \in Nat
  BY <1>2, <1>3
<1>5. ASSUME NEW r \in 1..RowCount(matrix), NEW c \in 1..ColCount(matrix) PROVE CentredRow(matrix, r)[c] \in Int
  BY <1>1, CentredFacts DEF CentredRow
<1>6. \A r \in 1..RowCount(matrix) : Factors(CentredRow(matrix, r), matrix.y)
  BY <1>2, <1>3, <1>4, <1>5 DEF Factors
<1> QED BY <1>2, <1>3, <1>4, <1>6

(* The exact sum of the products of row r, whose remainder is asked for. *)
RowSum(r) == SumOf(Products(CentredRow(matrix, r), matrix.y), 1, ColCount(matrix) + 1)

LEMMA TermsUpto ==
    ASSUME NEW f, NEW n \in Nat, \A c \in 1..n : f[c] \in Int
    PROVE  IntTerms(f, 1, n + 1)
<1>1. (n + 1) - 1 = n /\ 1 \in Nat /\ n + 1 \in Nat /\ 1 <= n + 1
  OBVIOUS
<1> QED BY <1>1 DEF IntTerms

LEMMA WantedIs ==
    ASSUME Held, Asked, NEW r \in 1..RowCount(matrix)
    PROVE  /\ RowSum(r) \in Int /\ IntTerms(Products(CentredRow(matrix, r), matrix.y), 1, ColCount(matrix) + 1)
           /\ RowSum(r) % matrix.q = SumOf(Wanted(r), 1, ColCount(matrix) + 1) % matrix.q
<1> DEFINE C == ColCount(matrix)
           q == matrix.q
           p == Products(CentredRow(matrix, r), matrix.y)
           u == Wanted(r)
<1>1. /\ C \in Nat /\ Len(matrix.y) = C /\ q \in Nat /\ q >= 2 /\ Factors(CentredRow(matrix, r), matrix.y)
      /\ \A c \in 1..C : matrix.y[c] \in Nat
  BY Queried
<1>2. Loaded(matrix)
  BY DEF Held
<1>3. IntTerms(p, 1, C + 1)
  <2>1. 1 \in 1..(Len(matrix.y) + 1)
    BY <1>1
  <2> HIDE DEF p
  <2> QED BY <1>1, <2>1, ProductTerms DEF p
<1>4. ASSUME NEW c \in 1..C PROVE u[c] \in Int /\ p[c] % q = u[c] % q
  <2> DEFINE v == CentredAt(matrix, r, c)
             x == JoinedRow(matrix, r)[c]
             y == matrix.y[c]
  <2>1. v \in Int /\ v % q = x /\ y \in Nat
    BY <1>1, <1>2, CentredFacts
  <2>2. x \in Int
    BY <1>1, <2>1, IntDivided
  <2>3. p[c] = v * y
    BY <1>1 DEF Products, CentredRow
  <2>4. u[c] = (x * y) % q
    BY <1>1 DEF Wanted
  <2> HIDE DEF v, x, y, p, u, q
  <2>5. Same(x, v, q) /\ Same(y, y, q)
    <3>1. q > 0
      BY <1>1
    <3>2. Same(v % q, v, q)
      BY <1>1, <2>1, <3>1, SameOfMod
    <3>3. Same(y, y, q)
      BY <1>1, <2>1, <3>1, SameRefl
    <3> QED BY <2>1, <3>2, <3>3
  <2>6. Same(x * y, v * y, q)
    BY <2>5, SameProduct
  <2>7. x * y \in Int /\ (x * y) % q = (v * y) % q
    BY <2>6 DEF Same
  <2> DEFINE z == x * y
  <2> HIDE DEF z
  <2>8. z % q \in Int /\ (z % q) % q = z % q
    <3>1. z \in Int /\ q > 0
      BY <1>1, <2>7 DEF z
    <3> QED BY <1>1, <3>1, ModTwice
  <2> QED BY <2>3, <2>4, <2>7, <2>8 DEF z
<1> HIDE DEF p, u, q, C
<1>5. SameTerms(p, u, q, 1, C + 1)
  <2>1. (C + 1) - 1 = C
    BY <1>1
  <2>2. IntTerms(u, 1, C + 1)
    <3>1. C \in Nat /\ \A c \in 1..C : u[c] \in Int
      BY <1>1, <1>4
    <3> QED BY <3>1, TermsUpto
  <2> QED BY <1>1, <1>3, <1>4, <2>1, <2>2 DEF SameTerms
<1>6. SumOf(p, 1, C + 1) \in Int /\ SumOf(p, 1, C + 1) % q = SumOf(u, 1, C + 1) % q
  BY <1>5, SumModulo
<1> QED BY <1>3, <1>6 DEF p, u, q, C, RowSum

LEMMA PowerProduct ==
    ASSUME Held, Asked, NEW r \in 1..RowCount(matrix), PowerOfTwo(matrix.q), NEW x, Same(x, RowSum(r), 2^LowWordBits)
    PROVE  x % matrix.q = SumOf(Wanted(r), 1, ColCount(matrix) + 1) % matrix.q
<1>1. PICK k \in 0..LowWordBits : matrix.q = 2^k
  BY DEF PowerOfTwo
<1>2. LowWordBits \in Nat /\ k \in Nat /\ k <= LowWordBits
  BY <1>1, KernelSizes
<1>3. Same(x, RowSum(r), 2^k)
  BY <1>2, SameLower
<1>4. x % matrix.q = RowSum(r) % matrix.q
  BY <1>1, <1>3 DEF Same
<1> QED BY <1>4, WantedIs

LaneWord(r, c) ==
    LET stride == Stride(ColCount(matrix), store.bits)
        group == (r - 1) * stride + ((c - 1) \div GroupCols) * store.bits
        i == (c - 1) % GroupCols
    IN  Signed(ReadWord(store.data, group + (i * store.bits) \div PackByte)
                   \div 2^((i * store.bits) % PackByte), store.bits)
PackedTerms(r) == [c \in 1..ColCount(matrix) |-> WrapMul(LaneWord(r, c), matrix.y[c])]

LEMMA PackedRowDot ==
    ASSUME NEW r PROVE dot_packed_row(r) = LowWord(SumOf(PackedTerms(r), 1, ColCount(matrix) + 1))
  BY Zenon DEF dot_packed_row, WordSum, SumOver, PackedTerms, LaneWord

(* A lane takes the bytes that read_packed takes. *)
LEMMA LaneOffset ==
    ASSUME NEW C \in Nat, NEW w \in Nat, NEW S \in Nat, NEW P \in Nat, P >= 1, S * P = C * w,
           NEW a \in Nat, NEW e \in Nat, NEW n, n = a * C + e
    PROVE  /\ (n * w) \div P = (a * S + (e \div P) * w) + (((e % P) * w) \div P)
           /\ (n * w) % P = ((e % P) * w) % P
<1> DEFINE d == e \div P
           i == e % P
           j == (i * w) \div P
           t == (i * w) % P
           o == (a * S + d * w) + j
<1>1. d \in Nat /\ i \in 0..(P - 1) /\ e = d * P + i /\ i \in Nat
  BY Divided
<1> HIDE DEF d, i
<1>2. i * w \in Nat
  BY <1>1, ProductsAreNat
<1>3. j \in Nat /\ t \in 0..(P - 1) /\ i * w = j * P + t
  <2> DEFINE x == i * w
  <2> HIDE DEF x
  <2>1. x \div P \in Nat /\ x % P \in 0..(P - 1) /\ x = (x \div P) * P + (x % P)
    BY <1>2, Divided DEF x
  <2> QED BY <2>1 DEF x
<1> HIDE DEF j, t
<1>4. a * S \in Nat /\ d * w \in Nat /\ o \in Nat
  <2>1. a * S \in Nat /\ d * w \in Nat
    BY <1>1, ProductsAreNat
  <2> QED BY <1>3, <2>1
<1>5. n * w = o * P + t
  <2>1. (a * C + (d * P + i)) * w = a * (C * w) + ((d * w) * P + i * w)
    BY <1>1, SMT
  <2>2. ((a * S + d * w) + j) * P = a * (S * P) + ((d * w) * P + j * P)
    BY <1>1, <1>3, SMT
  <2>3. a * (S * P) \in Nat /\ (d * w) * P \in Nat /\ j * P \in Nat /\ t \in Nat
    <3>1. S * P \in Nat /\ t \in Nat
      BY <1>3, ProductsAreNat
    <3> QED BY <1>3, <1>4, <3>1, ProductsAreNat
  <2>4. n * w = a * (S * P) + ((d * w) * P + (j * P + t))
    BY <1>1, <1>3, <2>1
  <2> DEFINE b1 == a * (S * P)
             b2 == (d * w) * P
             b3 == j * P
  <2>5. n * w = b1 + (b2 + (b3 + t)) /\ o * P = b1 + (b2 + b3) /\ b1 \in Nat /\ b2 \in Nat /\ b3 \in Nat /\ t \in Nat
    BY <2>2, <2>3, <2>4
  <2> DEFINE x == n * w
             y == o * P
  <2>6. x = b1 + (b2 + (b3 + t)) /\ y = b1 + (b2 + b3)
    BY <2>5
  <2> HIDE DEF b1, b2, b3, o, x, y
  <2>7. x = y + t
    BY <2>5, <2>6
  <2> QED BY <2>7 DEF x, y
<1> HIDE DEF o
<1>6. (o * P + t) % P = t /\ (o * P + t) \div P = o
  BY <1>3, <1>4, ModUnique
<1>7. (n * w) \div P = o /\ (n * w) % P = t
  BY <1>5, <1>6
<1> QED BY <1>7 DEF o, j, t, i, d

LEMMA StoreKind ==
    ASSUME Held
    PROVE  /\ MayPack(matrix) => /\ store.kind = "packed" /\ store.bits = WidthOf(matrix)
           /\ ~MayPack(matrix) => store.kind \in {"narrow", "wide"}
           /\ store.kind = "narrow" => FitsSigned(Centred(matrix), NarrowBits)
<1>1. store = from_blocks(matrix)
  BY DEF Held
<1>2. CASE MayPack(matrix)
  <2> DEFINE D == FlattenSeq(PackedRows(matrix, WidthOf(matrix))) \o Padding
  <2>1. store = [kind |-> "packed", bits |-> WidthOf(matrix), data |-> D]
    BY <1>1, <1>2, FromBlocksIs
  <2> HIDE DEF D
  <2> QED BY <1>2, <2>1
<1>3. CASE ~MayPack(matrix)
  <2> DEFINE D == FlattenSeq(CentredRows(matrix))
             kind == IF FitsSigned(Centred(matrix), NarrowBits) THEN "narrow" ELSE "wide"
  <2>1. store = [kind |-> kind, bits |-> 0, data |-> D]
    BY <1>1, <1>3, FromBlocksIs
  <2>2. kind \in {"narrow", "wide"} /\ (kind = "narrow" => FitsSigned(Centred(matrix), NarrowBits))
    OBVIOUS
  <2> HIDE DEF D, kind
  <2>3. store.kind = kind
    BY <2>1
  <2> QED BY <1>3, <2>2, <2>3
<1> QED BY <1>2, <1>3

LEMMA LaneIsWord ==
    ASSUME Held, MayPack(matrix), NEW r \in 1..RowCount(matrix), NEW c \in 1..ColCount(matrix)
    PROVE  LaneWord(r, c) = CentredAt(matrix, r, c)
<1> DEFINE C == ColCount(matrix)
           w == WidthOf(matrix)
           S == Stride(C, w)
           a == r - 1
           e == c - 1
           n == a * C + e
<1>1. Loaded(matrix) /\ store.kind = "packed" /\ store.bits = w
  BY StoreKind DEF Held
<1>2. w \in Nat /\ S \in Nat /\ S * PackByte = C * w
  BY <1>1, WidthFacts DEF Wide
<1>3. C \in Nat /\ PackByte \in Nat /\ PackByte >= 1 /\ GroupCols = PackByte /\ a \in Nat /\ e \in Nat
  BY <1>1, TaskTyped, JoinedFacts, MatrixSizes
<1>4. WordAt((r - 1) * C + c - 1) = CentredAt(matrix, r, c)
  BY StoredRowIs
<1>5. (r - 1) * C + c - 1 = n
  <2>1. a * C \in Nat
    BY <1>3, ProductsAreNat
  <2> HIDE DEF C
  <2> QED BY <2>1
<1>6. read_packed(store.data, n, w) = CentredAt(matrix, r, c)
  BY <1>1, <1>4, <1>5 DEF WordAt
<1>7. LaneWord(r, c) = Signed(ReadWord(store.data, (a * S + (e \div PackByte) * w) + (((e % PackByte) * w) \div PackByte))
                                 \div 2^(((e % PackByte) * w) % PackByte), w)
  BY <1>1, <1>3 DEF LaneWord
<1>0. n = a * C + e
  OBVIOUS
<1> HIDE DEF C, w, S, a, e, n
<1>8. /\ (n * w) \div PackByte = (a * S + (e \div PackByte) * w) + (((e % PackByte) * w) \div PackByte)
      /\ (n * w) % PackByte = ((e % PackByte) * w) % PackByte
  BY <1>0, <1>2, <1>3, LaneOffset
<1>9. read_packed(store.data, n, w) = Signed(ReadWord(store.data, (n * w) \div PackByte) \div 2^((n * w) % PackByte), w)
  BY DEF read_packed
<1> QED BY <1>6, <1>7, <1>8, <1>9

LEMMA PackedProduct ==
    ASSUME Held, Asked, MayPack(matrix), NEW r \in 1..RowCount(matrix)
    PROVE  Same(dot_packed_row(r), RowSum(r), 2^LowWordBits)
<1> DEFINE C == ColCount(matrix)
           f == PackedTerms(r)
           p == Products(CentredRow(matrix, r), matrix.y)
           w == 2^LowWordBits
           s == SumOf(f, 1, C + 1)
<1>1. C \in Nat /\ Len(matrix.y) = C /\ (\A c \in 1..C : matrix.y[c] \in Nat) /\ w \in Nat /\ w > 0 /\ Loaded(matrix)
  BY Queried, WordFacts DEF Held
<1>2. IntTerms(p, 1, C + 1)
  BY WantedIs
<1>3. ASSUME NEW c \in 1..C PROVE f[c] \in Int /\ f[c] % w = p[c] % w
  <2> DEFINE v == CentredAt(matrix, r, c)
             y == matrix.y[c]
  <2>1. v \in Int /\ y \in Int
    BY <1>1, CentredFacts
  <2>2. f[c] = WrapMul(v, y)
    BY LaneIsWord DEF PackedTerms
  <2>3. p[c] = v * y
    BY <1>1 DEF Products, CentredRow
  <2> HIDE DEF v, y, f, p
  <2>4. WrapMul(v, y) \in Nat /\ Same(WrapMul(v, y), v * y, w)
    BY <2>1, WrapMulIs
  <2> QED BY <2>2, <2>3, <2>4 DEF Same
<1> HIDE DEF f, p, C
<1>4. SameTerms(f, p, w, 1, C + 1)
  <2>1. (C + 1) - 1 = C
    BY <1>1
  <2>2. IntTerms(f, 1, C + 1)
    <3>1. C \in Nat /\ \A c \in 1..C : f[c] \in Int
      BY <1>1, <1>3
    <3> QED BY <3>1, TermsUpto
  <2> HIDE DEF w
  <2> QED BY <1>1, <1>2, <1>3, <2>1, <2>2 DEF SameTerms
<1>5. s \in Int /\ SumOf(p, 1, C + 1) \in Int /\ s % w = SumOf(p, 1, C + 1) % w
  <2> HIDE DEF w
  <2> QED BY <1>4, SumModulo
<1>6. Same(s, RowSum(r), w)
  BY <1>1, <1>5 DEF Same, RowSum, p, C
<1>7. dot_packed_row(r) = LowWord(s)
  BY PackedRowDot DEF f, C
<1> HIDE DEF s
<1>8. Same(LowWord(s), s, w)
  BY <1>5, LowWordFacts
<1> QED BY <1>6, <1>7, <1>8, SameTrans

LimbOf(j) == [c \in DOMAIN matrix.y |-> (matrix.y[c] \div 2^(j * LimbBits)) % 2^LimbBits]
LimbTerms(r) == [j \in 0..3 |->
    Signed(vector_dot(StoredRow(r), LimbOf(j), matrix.simd), LowWordBits) * 2^(j * LimbBits)]

LEMMA OddProduct ==
    ASSUME NEW r
    PROVE  multiply_odd(r) = IF store.kind = "wide"
                             THEN SumOf(Products(StoredRow(r), matrix.y), 1, Len(matrix.y) + 1) % matrix.q
                             ELSE SumOf(LimbTerms(r), 0, 3 + 1) % matrix.q
  BY Zenon DEF multiply_odd, SumOver, Products, LimbTerms, LimbOf

LEMMA LimbFacts ==
    ASSUME Held, Asked, NEW j \in Nat
    PROVE  /\ Len(LimbOf(j)) = ColCount(matrix)
           /\ \A c \in 1..ColCount(matrix) :
                /\ LimbOf(j)[c] = (matrix.y[c] \div 2^(j * LimbBits)) % 2^LimbBits
                /\ LimbOf(j)[c] \in Nat /\ LimbOf(j)[c] <= 2^LimbBits - 1
<1> DEFINE C == ColCount(matrix)
           t == LimbOf(j)
<1>1. C \in Nat /\ DOMAIN matrix.y = 1..C /\ \A c \in 1..C : matrix.y[c] \in Nat
  BY Queried
<1>2. t = [c \in 1..C |-> (matrix.y[c] \div 2^(j * LimbBits)) % 2^LimbBits]
  BY <1>1 DEF LimbOf
<1>3. 2^(j * LimbBits) \in Nat /\ 2^(j * LimbBits) > 0 /\ 2^LimbBits \in Nat /\ 2^LimbBits > 0
  BY MatrixSizes, PowerTimes
<1>4. Len(t) = C
  <2> HIDE DEF t, C
  <2> QED BY <1>1, <1>2
<1>5. ASSUME NEW c \in 1..C
      PROVE  /\ t[c] = (matrix.y[c] \div 2^(j * LimbBits)) % 2^LimbBits
             /\ t[c] \in Nat /\ t[c] <= 2^LimbBits - 1
  <2> DEFINE y == matrix.y[c]
             z == 2^LimbBits
             p == 2^(j * LimbBits)
             x == y \div p
  <2>1. t[c] = x % z
    <3> HIDE DEF t
    <3> QED BY <1>2
  <2>2. y \in Nat /\ p \in Nat /\ p > 0 /\ z \in Nat /\ z > 0
    BY <1>1, <1>3
  <2> HIDE DEF y, z, p
  <2>3. x \in Nat
    BY <2>2, Divided
  <2> HIDE DEF x
  <2>4. x % z \in 0..(z - 1)
    BY <2>2, <2>3, Divided
  <2>5. x % z \in Nat /\ x % z <= z - 1
    BY <2>2, <2>4
  <2> HIDE DEF t
  <2> QED BY <2>1, <2>5 DEF x, y, z, p
<1> QED BY <1>4, <1>5

(* A word times a limb. *)
LEMMA LimbProductBounded ==
    ASSUME NEW h \in Nat, NEW t \in Nat, NEW v \in Int, -h <= v, v <= h, NEW b \in Nat, b <= t
    PROVE  h * t \in Nat /\ v * b \in Int /\ -(h * t) <= v * b /\ v * b <= h * t
<1>1. h * t \in Nat /\ v * b \in Int /\ h * b \in Nat
  BY ProductsAreNat, ProductsAreInt
<1>2. h * b <= h * t
  BY ProductMonotone
<1>3. v * b <= h * b
  BY SMT
<1>4. -(h * b) <= v * b
  <2>1. (-h) * b <= v * b /\ (-h) * b = -(h * b)
    BY SMT
  <2> QED BY <2>1
<1> DEFINE x == h * t
           y == h * b
           z == v * b
<1>5. x \in Nat /\ y \in Nat /\ z \in Int /\ y <= x /\ z <= y /\ -y <= z
  BY <1>1, <1>2, <1>3, <1>4
<1> HIDE DEF x, y, z
<1>6. x \in Nat /\ z \in Int /\ -x <= z /\ z <= x
  BY <1>5
<1> QED BY <1>6 DEF x, z

(* Signed sums of limb products fit a word. *)
LEMMA LimbExact ==
    ASSUME Held, Asked, NEW r \in 1..RowCount(matrix), NEW j \in Nat, FitsSigned(Centred(matrix), NarrowBits)
    PROVE  LET p == Products(CentredRow(matrix, r), LimbOf(j))
           IN  /\ Signed(vector_dot(StoredRow(r), LimbOf(j), matrix.simd), LowWordBits) = SumOf(p, 1, ColCount(matrix) + 1)
               /\ IntTerms(p, 1, ColCount(matrix) + 1)
<1> DEFINE C == ColCount(matrix)
           a == CentredRow(matrix, r)
           b == LimbOf(j)
           p == Products(a, b)
           h == 2^(NarrowBits - 1)
           t == 2^LimbBits - 1
           M == h * t
           H == 2^(LowWordBits - 1)
           x == SumOf(p, 1, C + 1)
           d == vector_dot(a, b, matrix.simd)
<1>1. C \in Nat /\ Loaded(matrix) /\ C <= MaxCols /\ MaxCols \in Nat
  BY Queried, TaskTyped, MatrixSizes DEF Held
<1>2. Len(b) = C /\ \A c \in 1..C : b[c] \in Nat /\ b[c] <= t
  BY LimbFacts
<1>3. h \in Nat /\ t \in Nat /\ H \in Nat /\ MaxCols * M < H /\ LowWordBits \in Nat /\ LowWordBits >= 1
  <2>1. NarrowBits - 1 \in Nat /\ LimbBits \in Nat /\ LowWordBits - 1 \in Nat /\ LowWordBits \in Nat
    BY MatrixSizes, KernelSizes
  <2>2. h \in Nat /\ H \in Nat /\ 2^LimbBits \in Nat /\ 2^LimbBits > 0
    BY <2>1, PowerPositive
  <2>3. MaxCols * M < H
    BY MatrixSizes
  <2>4. t \in Nat
    <3> DEFINE z == 2^LimbBits
    <3> HIDE DEF z
    <3>1. z \in Nat /\ z > 0
      BY <2>2 DEF z
    <3>2. z - 1 \in Nat
      BY <3>1
    <3> QED BY <3>2 DEF z
  <2> QED BY <2>1, <2>2, <2>3, <2>4
<1>4. ASSUME NEW c \in 1..C PROVE a[c] \in Int /\ -h <= a[c] /\ a[c] <= h
  <2> DEFINE v == CentredAt(matrix, r, c)
  <2>1. v \in Int /\ v \in Centred(matrix)
    BY <1>1, CentredFacts
  <2>2. a[c] = v
    BY DEF CentredRow
  <2> HIDE DEF v, a
  <2>3. v >= -h /\ v < h
    BY <2>1 DEF FitsSigned
  <2> HIDE DEF h
  <2> QED BY <1>3, <2>1, <2>2, <2>3
<1> HIDE DEF a, b, h, t, C, H
<1>5. Factors(a, b)
  BY <1>1, <1>2, <1>4 DEF Factors
<1>6. IntTerms(p, 1, C + 1)
  <2>1. 1 \in 1..(Len(b) + 1)
    BY <1>1, <1>2
  <2> HIDE DEF p
  <2> QED BY <1>2, <1>5, <2>1, ProductTerms DEF p
<1>7. ASSUME NEW c \in 1..C PROVE M \in Nat /\ -M <= p[c] /\ p[c] <= M
  <2> DEFINE v == a[c]
             y == b[c]
  <2>1. p[c] = v * y
    BY <1>2 DEF Products
  <2>2. v \in Int /\ -h <= v /\ v <= h /\ y \in Nat /\ y <= t
    BY <1>2, <1>4
  <2> HIDE DEF v, y, p
  <2> QED BY <1>3, <2>1, <2>2, LimbProductBounded
<1>8. M \in Nat
  BY <1>3, ProductsAreNat
<1> HIDE DEF p, M
<1>9. x \in Int /\ -(C * M) <= x /\ x <= C * M
  <2> DEFINE one == 1
             to == C + 1
  <2>1. to - 1 = C /\ to - one = C
    BY <1>1
  <2>2. IntTerms(p, one, to) /\ \A c \in one..(to - 1) : -M <= p[c] /\ p[c] <= M
    BY <1>6, <1>7, <2>1
  <2> HIDE DEF one, to
  <2>3. /\ SumOf(p, one, to) \in Int /\ -((to - one) * M) <= SumOf(p, one, to)
        /\ SumOf(p, one, to) <= (to - one) * M
    BY <1>8, <2>2, IntSumBounded
  <2> QED BY <2>1, <2>3 DEF one, to
<1>10. C * M <= MaxCols * M /\ C * M \in Nat /\ MaxCols * M \in Nat
  BY <1>1, <1>8, ProductMonotone, ProductsAreNat
<1>11. -H <= x /\ x < H
  <2> DEFINE y == C * M
             z == MaxCols * M
  <2>1. y \in Nat /\ z \in Nat /\ y <= z /\ z < H /\ -y <= x /\ x <= y
    BY <1>3, <1>9, <1>10 DEF M
  <2> HIDE DEF x, y, z
  <2> QED BY <1>3, <1>9, <2>1
<1>12. d \in Nat /\ Same(d, x, 2^LowWordBits)
  BY <1>2, <1>5, VectorDot DEF p
<1> HIDE DEF d, x
<1>13. d \in Int /\ d % 2^LowWordBits = x % 2^LowWordBits
  BY <1>12 DEF Same
<1>14. Signed(d, LowWordBits) = x
  BY <1>3, <1>9, <1>11, <1>13, SignedIs DEF H
<1>15. StoredRow(r) = a
  BY StoredRowIs DEF a
<1> QED BY <1>6, <1>14, <1>15 DEF d, x, p, C, a, b

(* The limbs of the query, weighed, give back its words. *)
LEMMA LimbsJoin ==
    ASSUME Held, Asked, NEW r \in 1..RowCount(matrix), FitsSigned(Centred(matrix), NarrowBits)
    PROVE  SumOf(LimbTerms(r), 0, 3 + 1) = RowSum(r)
<1> DEFINE C == ColCount(matrix)
           to == C + 1
           four == 4
           a == CentredRow(matrix, r)
           p == Products(a, matrix.y)
           z(j) == 2^(j * LimbBits)
           part(j) == Products(a, LimbOf(j))
           t == [j \in 0..3 |-> [c \in 1..C |-> z(j) * (a[c] * LimbOf(j)[c])]]
           u == [c \in 1..C |-> [j \in 0..3 |-> z(j) * (a[c] * LimbOf(j)[c])]]
           f == LimbTerms(r)
<1>1. /\ C \in Nat /\ Len(matrix.y) = C /\ Loaded(matrix) /\ Factors(a, matrix.y)
      /\ \A c \in 1..C : matrix.y[c] \in Nat /\ matrix.y[c] < matrix.q
  BY Queried DEF Held
<1>2. \A c \in 1..C : a[c] \in Int /\ p[c] = a[c] * matrix.y[c]
  BY <1>1 DEF Factors, Products
<1>3. LimbBits \in Nat /\ matrix.q \in Nat /\ matrix.q <= 2^(4 * LimbBits)
  BY <1>1, MatrixSizes, TaskTyped
<1>4. \A j \in 0..3 : z(j) \in Nat /\ \A c \in 1..C : LimbOf(j)[c] \in Nat
        /\ LimbOf(j)[c] = (matrix.y[c] \div 2^(j * LimbBits)) % 2^LimbBits
  <2> TAKE j \in 0..3
  <2>1. j \in Nat
    OBVIOUS
  <2>2. z(j) \in Nat
    BY <1>3, <2>1, PowerTimes
  <2> QED BY <2>1, <2>2, LimbFacts
<1>5. to \in Nat /\ to - 1 = C /\ 1 <= to /\ four \in Nat /\ four - 1 = 3
  BY <1>1
<1>6. \A j \in 0..3 : \A c \in 1..C :
        /\ t[j][c] = z(j) * (a[c] * LimbOf(j)[c]) /\ u[c][j] = t[j][c]
        /\ a[c] * LimbOf(j)[c] \in Int /\ t[j][c] \in Int
  <2> TAKE j \in 0..3
  <2> TAKE c \in 1..C
  <2> DEFINE l == LimbOf(j)[c]
  <2>1. t[j][c] = z(j) * (a[c] * l) /\ u[c][j] = z(j) * (a[c] * l)
    OBVIOUS
  <2>2. l \in Int /\ a[c] \in Int /\ z(j) \in Int
    BY <1>2, <1>4
  <2> HIDE DEF l, t, u, a, z
  <2>3. a[c] * l \in Int
    BY <2>2, ProductsAreInt
  <2>4. z(j) * (a[c] * l) \in Int
    BY <2>2, <2>3, ProductsAreInt
  <2> QED BY <2>1, <2>3, <2>4 DEF l
<1> HIDE DEF t, u
<1>7. ASSUME NEW j \in 0..3 PROVE f[j] = SumOf(t[j], 1, to)
  <2>1. j \in Nat
    OBVIOUS
  <2>2. /\ Signed(vector_dot(StoredRow(r), LimbOf(j), matrix.simd), LowWordBits) = SumOf(part(j), 1, to)
        /\ IntTerms(part(j), 1, to)
    BY <2>1, LimbExact
  <2>3. f[j] = SumOf(part(j), 1, to) * z(j)
    BY <2>2 DEF LimbTerms
  <2>4. Len(LimbOf(j)) = C
    BY <2>1, LimbFacts
  <2>5. \A c \in 1..C : part(j)[c] = a[c] * LimbOf(j)[c]
    BY <2>4 DEF Products
  <2> DEFINE g == part(j)
             h == t[j]
             m == z(j)
  <2>6. m \in Int /\ IntTerms(g, 1, to) /\ \A c \in 1..C : h[c] = m * g[c]
    BY <1>4, <1>6, <2>2, <2>5
  <2>7. f[j] = SumOf(g, 1, to) * m
    BY <2>3
  <2> HIDE DEF g, h, m, to, C, f
  <2>8. Scales(h, g, m, 1, to)
    BY <1>5, <2>6 DEF Scales
  <2>9. SumOf(g, 1, to) \in Int /\ SumOf(h, 1, to) = m * SumOf(g, 1, to)
    BY <2>8, SumScale
  <2>10. m * SumOf(g, 1, to) = SumOf(g, 1, to) * m
    BY <2>6, <2>9, SMT
  <2> QED BY <2>7, <2>9, <2>10 DEF h
<1>8. ASSUME NEW c \in 1..C PROVE p[c] = SumOf(u[c], 0, four)
  <2> DEFINE y == matrix.y[c]
             g == [j \in 0..3 |-> ((y \div 2^(j * LimbBits)) % 2^LimbBits) * 2^(j * LimbBits)]
             h == u[c]
             m == a[c]
  <2>1. y \in Nat /\ y < matrix.q /\ m \in Int /\ p[c] = m * y
    BY <1>1, <1>2
  <2>2. \A j \in 0..3 : g[j] \in Int /\ h[j] = m * g[j]
    <3> TAKE j \in 0..3
    <3> DEFINE l == LimbOf(j)[c]
               k == z(j)
    <3>1. l \in Nat /\ k \in Nat /\ m \in Int
      BY <1>4, <2>1
    <3>2. g[j] = l * k
      BY <1>4
    <3>3. h[j] = k * (m * l)
      BY <1>6
    <3> HIDE DEF l, k, m, g, h
    <3>4. k * (m * l) = m * (l * k) /\ l * k \in Int
      BY <3>1, SMT
    <3> QED BY <3>2, <3>3, <3>4
  <2>3. DigitsOf(g, y, LimbBits, four)
    BY DEF DigitsOf
  <2>4. SumOf(g, 0, four) = y % 2^(four * LimbBits)
    <3> HIDE DEF g, y, four
    <3> QED BY <1>3, <1>5, <2>1, <2>3, DigitSum
  <2>5. y % 2^(four * LimbBits) = y
    <3> DEFINE w == 2^(four * LimbBits)
    <3>1. w \in Nat
      <4>1. four * LimbBits \in Nat
        BY <1>3, <1>5, ProductsAreNat
      <4> HIDE DEF four
      <4> QED BY <4>1, PowerPositive
    <3>2. matrix.q <= w
      BY <1>3
    <3> HIDE DEF w, y
    <3>3. y \in 0..(w - 1)
      BY <1>3, <2>1, <3>1, <3>2
    <3>4. y % w = y
      BY <3>1, <3>3, ModSmall
    <3> QED BY <3>4 DEF w
  <2> HIDE DEF g, h, m, y, four, p
  <2>6. IntTerms(g, 0, four)
    BY <1>5, <2>2 DEF IntTerms
  <2>7. Scales(h, g, m, 0, four)
    BY <1>5, <2>1, <2>2, <2>6 DEF Scales
  <2>8. SumOf(h, 0, four) = m * SumOf(g, 0, four)
    BY <2>7, SumScale
  <2> QED BY <2>1, <2>4, <2>5, <2>8 DEF h
<1> HIDE DEF f, p, four, to, C, z, a
<1>9. Crossed(t, u, f, p, 0, four, 1, to)
  <2>1. \A j \in 0..(four - 1) : \A c \in 1..(to - 1) : t[j][c] \in Int /\ u[c][j] = t[j][c]
    BY <1>5, <1>6
  <2>2. \A j \in 0..(four - 1) : f[j] = SumOf(t[j], 1, to)
    BY <1>5, <1>7
  <2>3. \A c \in 1..(to - 1) : p[c] = SumOf(u[c], 0, four)
    BY <1>5, <1>8
  <2>4. 0 <= four
    BY <1>5
  <2> QED BY <1>5, <2>1, <2>2, <2>3, <2>4 DEF Crossed
<1>10. SumOf(f, 0, four) = SumOf(p, 1, to)
  BY <1>9, SumExchange
<1> QED BY <1>10 DEF f, p, four, to, C, a, RowSum

Expected(r) == SumOf(Wanted(r), 1, Len(matrix.y) + 1) % matrix.q

LEMMA RowProductIs ==
    ASSUME Held, Asked, NEW r \in 1..RowCount(matrix)
    PROVE  RowProduct(r) = Expected(r)
<1> DEFINE C == ColCount(matrix)
           a == CentredRow(matrix, r)
           y == matrix.y
           q == matrix.q
<1>1. Len(y) = C /\ Factors(a, y) /\ StoredRow(r) = a
  BY Queried, StoredRowIs
<1>2. Expected(r) = SumOf(Wanted(r), 1, C + 1) % q
  BY <1>1 DEF Expected
<1>3. RowSum(r) = SumOf(Products(a, y), 1, Len(y) + 1)
  BY <1>1 DEF RowSum
<1>4. RowSum(r) % q = SumOf(Wanted(r), 1, C + 1) % q
  BY WantedIs
<1>5. CASE ~PowerOfTwo(q)
  <2>1. RowProduct(r) = multiply_odd(r)
    BY <1>5 DEF RowProduct
  <2>2. ~MayPack(matrix)
    BY <1>5 DEF MayPack
  <2>3. store.kind \in {"narrow", "wide"} /\ (store.kind = "narrow" => FitsSigned(Centred(matrix), NarrowBits))
    BY <2>2, StoreKind
  <2>4. CASE store.kind = "wide"
    <3>1. multiply_odd(r) = SumOf(Products(StoredRow(r), y), 1, Len(y) + 1) % q
      BY <2>4, OddProduct
    <3> HIDE DEF a, y, q, C
    <3> QED BY <1>1, <1>2, <1>3, <1>4, <2>1, <3>1
  <2>5. CASE store.kind = "narrow"
    <3>1. multiply_odd(r) = SumOf(LimbTerms(r), 0, 3 + 1) % q
      BY <2>5, OddProduct
    <3>2. SumOf(LimbTerms(r), 0, 3 + 1) = RowSum(r)
      BY <2>3, <2>5, LimbsJoin
    <3> HIDE DEF a, y, q, C
    <3> QED BY <1>2, <1>4, <2>1, <3>1, <3>2, Zenon
  <2> QED BY <2>3, <2>4, <2>5
<1>6. CASE PowerOfTwo(q)
  <2>1. CASE MayPack(matrix)
    <3>1. store.kind = "packed"
      BY <2>1, StoreKind
    <3>2. RowProduct(r) = dot_packed_row(r) % q
      BY <1>6, <3>1 DEF RowProduct
    <3>3. Same(dot_packed_row(r), RowSum(r), 2^LowWordBits)
      BY <2>1, PackedProduct
    <3>4. dot_packed_row(r) % q = SumOf(Wanted(r), 1, C + 1) % q
      BY <1>6, <3>3, PowerProduct
    <3> QED BY <1>2, <3>2, <3>4
  <2>2. CASE ~MayPack(matrix)
    <3>1. store.kind \in {"narrow", "wide"}
      BY <2>2, StoreKind
    <3>2. \A simd : Same(vector_dot(a, y, simd), RowSum(r), 2^LowWordBits)
      <4> HIDE DEF a, y
      <4> QED BY <1>1, <1>3, VectorDot
    <3>3. \A simd : vector_dot(a, y, simd) % q = SumOf(Wanted(r), 1, C + 1) % q
      BY <1>6, <3>2, PowerProduct
    <3>4. \E simd : RowProduct(r) = vector_dot(StoredRow(r), y, simd) % q
      <4>1. CASE store.kind = "narrow"
        <5>1. RowProduct(r) = vector_dot(StoredRow(r), y, matrix.simd) % q
          BY <1>6, <4>1 DEF RowProduct
        <5> QED BY <5>1
      <4>2. CASE store.kind = "wide"
        <5>1. RowProduct(r) = vector_dot(StoredRow(r), y, "scalar") % q
          BY <1>6, <4>2 DEF RowProduct
        <5> QED BY <5>1
      <4> QED BY <3>1, <4>1, <4>2
    <3> QED BY <1>1, <1>2, <3>3, <3>4
  <2> QED BY <2>1, <2>2
<1> QED BY <1>5, <1>6

-----------------------------------------------------------------------------
(* Before from_blocks nothing is stored; after it the store is a function of  *)
(* the task, and every row written is the expected one.                       *)
MatrixInv ==
    \/ matrix \in MatrixTasks /\ store = <<>>
    \/ /\ Held /\ DOMAIN mout = 1..RowCount(matrix)
       /\ \A r \in 1..RowCount(matrix) : mout[r] = -1 \/ mout[r] = Expected(r)

LEMMA MatrixStutters ==
    ASSUME matrix' = matrix, store' = store
    PROVE  (Held <=> Held') /\ \A r : Expected(r)' = Expected(r)
  BY DEF Held, Expected, Wanted

LEMMA FromBlocksKeeps == MatrixInv /\ FromBlocks => MatrixInv'
<1> SUFFICES ASSUME MatrixInv, FromBlocks PROVE MatrixInv'
  OBVIOUS
<1>1. /\ store = << >> /\ BlocksValid(matrix) /\ store' = from_blocks(matrix) /\ matrix' = matrix
      /\ mout' = [r \in 1..RowCount(matrix) |-> -1]
  BY DEF FromBlocks
<1>2. matrix \in MatrixTasks
  BY DEF MatrixInv, Held, Loaded
<1>3. Held'
  BY <1>1, <1>2 DEF Held, Loaded
<1>4. RowCount(matrix)' = RowCount(matrix)
  BY <1>1
<1>5. DOMAIN mout' = 1..RowCount(matrix) /\ \A r \in 1..RowCount(matrix) : mout'[r] = -1
  BY <1>1
<1>6. (DOMAIN mout)' = (1..RowCount(matrix))' /\ \A r \in (1..RowCount(matrix))' : mout'[r] = -1 \/ mout'[r] = Expected(r)'
  BY <1>4, <1>5
<1> QED BY <1>3, <1>6 DEF MatrixInv

LEMMA MultiplyKeeps == MatrixInv /\ MultiplyTile => MatrixInv'
<1> SUFFICES ASSUME MatrixInv, MultiplyTile PROVE MatrixInv'
  OBVIOUS
<1>1. store # << >> /\ Asked /\ matrix' = matrix /\ store' = store
  BY DEF MultiplyTile, Asked
<1>2. PICK tile : mout' = [r \in DOMAIN mout |-> IF Down(r - 1, TileRows) = tile THEN RowProduct(r) ELSE mout[r]]
  BY DEF MultiplyTile
<1>3. /\ Held /\ DOMAIN mout = 1..RowCount(matrix)
      /\ \A r \in 1..RowCount(matrix) : mout[r] = -1 \/ mout[r] = Expected(r)
  BY <1>1 DEF MatrixInv
<1>4. Held' /\ (\A r : Expected(r)' = Expected(r)) /\ RowCount(matrix)' = RowCount(matrix)
  BY <1>1, <1>3, MatrixStutters
<1>5. DOMAIN mout' = 1..RowCount(matrix)
  BY <1>2, <1>3
<1>6. ASSUME NEW r \in 1..RowCount(matrix) PROVE mout'[r] = -1 \/ mout'[r] = Expected(r)
  <2>1. mout'[r] = IF Down(r - 1, TileRows) = tile THEN RowProduct(r) ELSE mout[r]
    BY <1>2, <1>3
  <2>2. RowProduct(r) = Expected(r)
    BY <1>1, <1>3, RowProductIs
  <2> QED BY <1>3, <2>1, <2>2
<1>7. (DOMAIN mout)' = (1..RowCount(matrix))' /\ \A r \in (1..RowCount(matrix))' : mout'[r] = -1 \/ mout'[r] = Expected(r)'
  BY <1>4, <1>5, <1>6
<1> QED BY <1>4, <1>7 DEF MatrixInv

LEMMA MatrixUnchanged == MatrixInv /\ UNCHANGED matrixvars => MatrixInv'
<1> SUFFICES ASSUME MatrixInv, matrix' = matrix, store' = store, mout' = mout PROVE MatrixInv'
  BY DEF matrixvars
<1>1. (Held <=> Held') /\ \A r : Expected(r)' = Expected(r)
  BY MatrixStutters
<1>2. RowCount(matrix)' = RowCount(matrix)
  OBVIOUS
<1> QED BY <1>1, <1>2 DEF MatrixInv

LEMMA CompiledBack ==
    ASSUME Held
    PROVE  to_compiled = [n \in DOMAIN to_compiled |->
                            JoinedRow(matrix, (n \div ColCount(matrix)) + 1)[(n % ColCount(matrix)) + 1]]
<1> DEFINE C == ColCount(matrix)
           I == 0..(RowCount(matrix) * C - 1)
           back(n) == JoinedRow(matrix, (n \div C) + 1)[(n % C) + 1]
<1>1. to_compiled = [n \in I |-> WordAt(n) % matrix.q]
  BY DEF to_compiled
<1>2. ASSUME NEW n \in I PROVE WordAt(n) % matrix.q = back(n)
  <2> DEFINE r == (n \div C) + 1
             c == (n % C) + 1
  <2>1. Loaded(matrix) /\ store = from_blocks(matrix)
    BY DEF Held
  <2>2. r \in 1..RowCount(matrix) /\ c \in 1..C
    BY <2>1, PlaceOf
  <2>3. WordIn(from_blocks(matrix), n) = CentredAt(matrix, r, c)
    BY <2>1, WordsRead
  <2>4. WordAt(n) = WordIn(store, n)
    BY DEF WordAt, WordIn
  <2> HIDE DEF r, c
  <2>5. CentredAt(matrix, r, c) % matrix.q = JoinedRow(matrix, r)[c]
    BY <2>1, <2>2, CentredFacts
  <2>6. WordAt(n) % matrix.q = JoinedRow(matrix, r)[c]
    BY <2>1, <2>3, <2>4, <2>5
  <2> QED BY <2>6 DEF r, c
<1> HIDE DEF I, back
<1>3. DOMAIN to_compiled = I
  BY <1>1
<1>4. to_compiled = [n \in I |-> back(n)]
  BY <1>1, <1>2
<1>5. to_compiled = [n \in DOMAIN to_compiled |-> back(n)]
  BY <1>3, <1>4
<1> QED BY <1>5 DEF back

LEMMA MatrixInvExact == MatrixInv => MatrixExact
<1> SUFFICES ASSUME MatrixInv, store # << >> PROVE MatrixExact
  BY DEF MatrixExact
<1>1. /\ Held /\ DOMAIN mout = 1..RowCount(matrix)
      /\ \A r \in 1..RowCount(matrix) : mout[r] = -1 \/ mout[r] = Expected(r)
  BY DEF MatrixInv
<1>2. to_compiled = [n \in DOMAIN to_compiled |->
                       JoinedRow(matrix, (n \div ColCount(matrix)) + 1)[(n % ColCount(matrix)) + 1]]
  BY <1>1, CompiledBack
<1>3. ASSUME NEW r \in DOMAIN mout, mout[r] # -1
      PROVE  mout[r] = SumOver(LAMBDA c : (JoinedRow(matrix, r)[c] * matrix.y[c]) % matrix.q, 1, Len(matrix.y)) % matrix.q
  <2>1. mout[r] = Expected(r)
    BY <1>1, <1>3
  <2>2. Expected(r) = SumOver(LAMBDA c : (JoinedRow(matrix, r)[c] * matrix.y[c]) % matrix.q, 1, Len(matrix.y)) % matrix.q
    BY Zenon DEF Expected, Wanted, SumOver
  <2> QED BY <2>1, <2>2
<1> HIDE DEF to_compiled
<1> QED BY <1>2, <1>3 DEF MatrixExact

(* For every compiled matrix, width, host and query, within the size limits:  *)
(* entries read back unchanged at whatever width they were stored, and every  *)
(* row of a product is exact modulo q (native_matrix.rs:60, 289, 345).        *)
THEOREM MatricesAreExact == MatrixSpec => []MatrixExact
<1>1. MatrixInit => MatrixInv
  BY DEF MatrixInit, MatrixInv
<1>2. MatrixInv /\ [MatrixNext]_matrixvars => MatrixInv'
  BY FromBlocksKeeps, MultiplyKeeps, MatrixUnchanged DEF MatrixNext
<1>3. MatrixInv => MatrixExact
  BY MatrixInvExact
<1> QED BY <1>1, <1>2, <1>3, PTL DEF MatrixSpec
==============================================================================
