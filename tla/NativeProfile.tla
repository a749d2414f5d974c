---------------------------- MODULE NativeProfile ----------------------------
(***************************************************************************)
(* The builder of native transport profiles (ipir-native-client) and the   *)
(* setup identifier derived from a finished profile.                       *)
(*                                                                         *)
(* A caller starts from NativeProfile::new and chains the with_* methods   *)
(* in any order and any number of times.  Each method consumes the         *)
(* profile and returns either the changed profile or an error, which       *)
(* drops it.  Moduli are kept as their base-2 logarithms.                  *)
(***************************************************************************)
EXTENDS Integers

CONSTANTS
    Builders,      \* independent callers, each chaining methods on its own profile
    Packs,         \* packing parameter sets, already accepted by NativeParams::new
    Dims,          \* row and column counts tried
    Widths,        \* bit widths passed to the with_* methods
    ByteEntries,   \* database entries admitted when p <= 2^8   (2^31 in the code)
    WordEntries    \* database entries admitted otherwise        (2^30 in the code)

(* A packing parameter set: ring degree, log2 q, log2 p, gadget digit width,  *)
(* gadget digit count and whether the secret is Gaussian (NativeParams).      *)
Pack == [d: Nat \ {0}, qbits: 16..56, pbits: 1..55, gbits: 1..27, ell: 1..8,
         gaussian: BOOLEAN]

ASSUME ConstantTypes ==
    /\ Packs \subseteq {k \in Pack : k.pbits < k.qbits}
    /\ Dims \subseteq Nat
    /\ Widths \subseteq Nat
    /\ ByteEntries \in Nat
    /\ WordEntries \in Nat

VARIABLE held   \* what each builder holds: {profile}, or {} before new and after an error

Profile ==
    [pack: Packs, rows: Dims, cols: Dims, query: Nat, response: Nat, kh: Nat,
     twoMask: BOOLEAN, mask: Nat, dithered: BOOLEAN]

AtMost(a, b) == IF a <= b THEN a ELSE b

default_response_bits(k) == AtMost(k.pbits + 6, k.qbits)

(* The certified transport floors of a plaintext and gadget pair.  No rounded *)
(* mask width is certified where the floor is 33, above the 32-bit ceiling.   *)
floors(k) ==
    CASE k.pbits = 16 /\ k.gbits = 19 /\ k.ell = 2 ->
           [query2 |-> 43, query1 |-> 43, mask2 |-> 27, mask1 |-> 28,
            response2 |-> default_response_bits(k)]
      [] k.pbits = 8 /\ <<k.gbits, k.ell>> \in {<<19, 2>>, <<27, 1>>} ->
           [query2 |-> 28, query1 |-> 49, mask2 |-> 22, mask1 |-> 33,
            response2 |-> 10]
      [] OTHER ->
           [query2 |-> 49, query1 |-> 49, mask2 |-> 33, mask1 |-> 33,
            response2 |-> default_response_bits(k)]

mask_width_allowed(bits, floor) == bits \in {54, 64} \/ bits \in floor..32

QueryFloor(k, twoMask) == IF twoMask THEN floors(k).query2 ELSE floors(k).query1
MaskFloor(k, twoMask) == IF twoMask THEN floors(k).mask2 ELSE floors(k).mask1
ResponseFloor(k, twoMask) ==
    IF twoMask THEN floors(k).response2 ELSE default_response_bits(k)

ProfileInit == held = [b \in Builders |-> {}]

(* A method either replaces the builder's profile or, on an error, drops it. *)
Return(b, accepted, next) ==
    held' = [held EXCEPT ![b] = IF accepted THEN {next} ELSE {}]

ShapeAccepted(k, rows, cols) ==
    /\ rows # 0 /\ cols # 0
    /\ rows % k.d = 0 /\ cols % k.d = 0
    /\ rows * cols <= (IF k.pbits <= 8 THEN ByteEntries ELSE WordEntries)
    /\ k.gaussian
    /\ k.pbits <= 16

new(b) == \E k \in Packs, rows \in Dims, cols \in Dims :
    /\ held[b] = {}
    /\ Return(b, ShapeAccepted(k, rows, cols),
              [pack |-> k, rows |-> rows, cols |-> cols,
               query |-> AtMost(49, k.qbits),
               response |-> default_response_bits(k),
               kh |-> k.qbits, twoMask |-> FALSE, mask |-> 64,
               dithered |-> FALSE])

with_kh_bits(b) == \E p \in held[b], bits \in Widths :
    Return(b, \/ bits = p.pack.qbits
              \/ ~p.twoMask /\ bits >= 40 /\ bits < p.pack.qbits,
           [p EXCEPT !.kh = bits])

(* Mutation: a shortened K_h is not refused, though the setup hash omits it. *)
with_two_mask_output_any_kh(b) == \E p \in held[b] :
    Return(b, mask_width_allowed(p.mask, floors(p.pack).mask2),
           [p EXCEPT !.twoMask = TRUE])

with_two_mask_output(b) == \E p \in held[b] :
    Return(b, /\ p.kh = p.pack.qbits
              /\ mask_width_allowed(p.mask, floors(p.pack).mask2),
           [p EXCEPT !.twoMask = TRUE])

(* Mutation: the two-mask floor is applied in both output modes. *)
with_published_mask_bits_one_floor(b) == \E p \in held[b], bits \in Widths :
    Return(b, \/ bits = 64
              \/ /\ p.pack.qbits = 54
                 /\ mask_width_allowed(bits, floors(p.pack).mask2),
           [p EXCEPT !.mask = bits])

with_published_mask_bits(b) == \E p \in held[b], bits \in Widths :
    Return(b, \/ bits = 64
              \/ /\ p.pack.qbits = 54
                 /\ mask_width_allowed(bits, MaskFloor(p.pack, p.twoMask)),
           [p EXCEPT !.mask = bits])

(* Mutation: the q = 2^54 guard is missing. *)
with_dithered_query_bits_any_q(b) == \E p \in held[b], bits \in Widths :
    Return(b, bits \in QueryFloor(p.pack, p.twoMask)..49,
           [p EXCEPT !.query = bits, !.dithered = TRUE])

with_dithered_query_bits(b) == \E p \in held[b], bits \in Widths :
    Return(b, /\ p.pack.qbits = 54
              /\ bits \in QueryFloor(p.pack, p.twoMask)..49,
           [p EXCEPT !.query = bits, !.dithered = TRUE])

with_response_bits(b) == \E p \in held[b], bits \in Widths :
    Return(b, /\ bits \in ResponseFloor(p.pack, p.twoMask)
                              ..default_response_bits(p.pack)
              /\ \/ bits = default_response_bits(p.pack)
                 \/ p.pack.qbits = 54,
           [p EXCEPT !.response = bits])

ProfileNext == \E b \in Builders :
    \/ new(b)
    \/ with_kh_bits(b)
    \/ with_two_mask_output(b)
    \/ with_published_mask_bits(b)
    \/ with_dithered_query_bits(b)
    \/ with_response_bits(b)

ProfileSpec == ProfileInit /\ [][ProfileNext]_held

request_magic(p) ==
    IF p.twoMask THEN "RNQ3" ELSE IF p.kh = p.pack.qbits THEN "RNQ1" ELSE "RNQ2"

(* What NativePublicSetup::new hashes besides the seed and the snapshot ID.   *)
(* Every optional field is preceded by a tag that no row count can be read as *)
(* (tags start with an odd byte, rows are even), so the byte string determines*)
(* which fields are present; SHA-256 is taken to be injective.                *)
SetupId(p) ==
    [pack     |-> p.pack,
     kh       |-> IF request_magic(p) = "RNQ2" THEN {p.kh} ELSE {},
     twoMask  |-> p.twoMask,
     mask     |-> IF p.mask # 64 THEN {p.mask} ELSE {},
     dithered |-> p.dithered,
     shape    |-> <<p.rows, p.cols, p.query, p.response>>]

-----------------------------------------------------------------------------
(* Every builder holds nothing or one well-typed profile. *)
ProfileOK ==
    /\ held \in [Builders -> SUBSET Profile]
    /\ \A b \in Builders : \A p, r \in held[b] : p = r

Certified(p) ==
    LET k == p.pack IN
    /\ \/ p.kh = k.qbits
       \/ ~p.twoMask /\ p.kh \in 40..(k.qbits - 1)
    /\ \/ ~p.dithered /\ p.query = AtMost(49, k.qbits)
       \/ p.dithered /\ k.qbits = 54 /\ p.query \in QueryFloor(k, p.twoMask)..49
    /\ \/ p.mask = 64
       \/ k.qbits = 54 /\ mask_width_allowed(p.mask, MaskFloor(k, p.twoMask))
    /\ \/ p.response = default_response_bits(k)
       \/ k.qbits = 54 /\ p.response \in ResponseFloor(k, p.twoMask)
                                             ..default_response_bits(k)

(* Whatever the order of the with_* calls, a profile's key, query, mask and   *)
(* response widths are all in the range accepted for the output mode it ended *)
(* up with: the floors are checked against the mode at the time of each call, *)
(* and with_two_mask_output changes the mode after the fact.                  *)
CertifiedTransport == \A b \in Builders : \A p \in held[b] : Certified(p)

(* No transported width exceeds log2 q, so the subtraction                    *)
(* "q.trailing_zeros() - bits" in wire::down, up and down_dithered never      *)
(* underflows for any reachable profile.                                      *)
WidthsFitModulus == \A b \in Builders : \A p \in held[b] :
    {p.query, p.response, p.kh} \union ({p.mask} \ {64}) \subseteq 0..p.pack.qbits

(* Two reachable profiles with the same setup identifier are the same profile,*)
(* so a request accepted by the identifier check of one side is laid out the  *)
(* way the other side expects.  The hash leaves the K_h width out in two-mask *)
(* mode and the exact mask width out always.                                  *)
SetupIdBindsProfile == \A a, b \in Builders : \A p \in held[a], r \in held[b] :
    SetupId(p) = SetupId(r) => p = r
=============================================================================
