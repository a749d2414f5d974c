----------------------------- MODULE Transport ------------------------------
(***************************************************************************)
(* One message on each of the paths that round, pack and lift coefficients *)
(* (ModulusSwitch, Bits): the sender's bytes arrive whole, with a bit      *)
(* changed, cut short or with a byte too many.                             *)
(***************************************************************************)
EXTENDS ModulusSwitch

CONSTANTS
    Channels,     \* records [codec, q, to, bits, n]: the path, its moduli or widths
    Words(_, _),  \* the messages of n coefficients below q that are sent
    Draws         \* values of the 64-bit draws of down_dithered

VARIABLES channel, sent, wire, damaged, received

transvars == <<channel, sent, wire, damaged, received>>

(* The bytes of a message.  "rows" carries the words twice, as c1 and c2. *)
Sent(c, words, draw) ==
    CASE c.codec = "exact"    -> encode(words, c.bits)
      [] c.codec = "rounded"  -> encode(Apply(LAMBDA x : down(x, c.q, c.bits), words), c.bits)
      [] c.codec = "dithered" -> encode(Apply(LAMBDA x : down_dithered(x, c.q, c.bits, draw), words), c.bits)
      [] c.codec = "query"    -> to_switched_bytes(words, c.q, c.bits)
      [] c.codec = "full"     -> to_packed_bytes(words, c.q)
      [] c.codec = "coeffs"   -> switch_coeffs_single_crt(words, c.q, c.to)
      [] c.codec = "rows"     -> switch_rlwe_rows(words, words, c.q, c.to, c.bits)
      [] c.codec = "body"     -> serialize_rlwe_response_body(words, c.q, c.to)

Lift(words, op(_)) == IF words = Refused THEN Refused ELSE Apply(op, words)
Received(c, bytes) ==
    CASE c.codec = "exact"    -> decode(bytes, c.n, c.bits)
      [] c.codec \in {"rounded", "dithered"} ->
             Lift(decode(bytes, c.n, c.bits), LAMBDA x : up(x, c.q, c.bits))
      [] c.codec = "query"    -> from_switched_bytes(bytes, c.n, c.q, c.bits)
      [] c.codec = "full"     -> from_packed_bytes(bytes, c.n, c.q)
      [] c.codec = "coeffs"   -> recover_coeffs_single_crt(bytes, c.n, c.to, c.q)
      [] c.codec = "rows"     -> LET rows == recover_rlwe_rows(bytes, c.n, c.to, c.bits, c.q)
                                 IN  IF rows = Refused THEN Refused ELSE rows[1] \o rows[2]
      [] c.codec = "body"     -> recover_response_body(bytes, c.n, c.to, c.q)

TransInit ==
    /\ channel \in Channels /\ sent \in Words(channel.q, channel.n)
    /\ wire = <<>> /\ received = <<>> /\ damaged = FALSE

Send ==
    /\ wire = <<>>
    /\ \E draw \in IF channel.codec = "dithered" THEN Draws ELSE {0} : wire' = Sent(channel, sent, draw)
    /\ UNCHANGED <<channel, sent, damaged, received>>

(* Only wire.rs promises anything about bytes nobody encoded. *)
Damage ==
    /\ wire # <<>> /\ ~damaged /\ received = <<>> /\ channel.codec = "exact"
    /\ \/ \E b \in DOMAIN wire : \E bit \in 0..7 : wire' = [wire EXCEPT ![b] = @ ^^ (2^bit)]
       \/ wire' = Append(wire, 0)
       \/ Len(wire) > 1 /\ wire' = Front(wire)
    /\ damaged' = TRUE
    /\ UNCHANGED <<channel, sent, received>>

Deliver ==
    /\ wire # <<>> /\ received = <<>>
    /\ received' = <<Received(channel, wire)>>
    /\ UNCHANGED <<channel, sent, wire, damaged>>

TransNext == Send \/ Damage \/ Deliver

-----------------------------------------------------------------------------
Distance(x, y, q) == LET d == IF x >= y THEN x - y ELSE y - x IN Smaller(d, q - d)

(* How far rounding may move a coefficient, twice over so that halves stay    *)
(* integers: half a unit of the transport's modulus, a whole one dithered,    *)
(* and half a unit of q for lifting back.                                     *)
TwiceBound(c, to) == CeilDiv(c.q, to) + 2
TwiceError(c, i) == 2 * Distance(received[1][i], sent[((i - 1) % c.n) + 1], c.q)

(* Every message that arrives whole is accepted, at widths that leave surplus *)
(* words in the last byte and at ones that leave none, and each coefficient   *)
(* is the one sent up to the rounding of its path.                            *)
HonestWithinRounding == received # <<>> /\ ~damaged =>
    /\ Len(received[1]) = channel.n * (IF channel.codec = "rows" THEN 2 ELSE 1)
    /\ \A i \in DOMAIN received[1] : TwiceError(channel, i) <=
         CASE channel.codec \in {"exact", "full"} -> 0
           [] channel.codec = "rounded" -> 2^Shift(channel.q, channel.bits)
           [] channel.codec = "dithered" -> 2 * (2^Shift(channel.q, channel.bits) - 1)
           [] channel.codec = "query" -> TwiceBound(channel, 2^channel.bits)
           [] channel.codec \in {"coeffs", "body"} -> TwiceBound(channel, channel.to)
           [] channel.codec = "rows" ->
                  TwiceBound(channel, IF i <= channel.n THEN channel.bits ELSE channel.to)

(* Words have one encoding: bytes that were changed on the way are refused by *)
(* wire.rs or decode to other words, so no padding bit can vary unnoticed.    *)
OneEncoding == received # <<>> /\ damaged => received[1] # sent
=============================================================================
