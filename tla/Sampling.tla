------------------------------ MODULE Sampling ------------------------------
(***************************************************************************)
(* The randomised integer conversions, over every value of a random word:  *)
(* the rejection sampler of ipir-sp/src/sampling.rs and the dithered       *)
(* rounding of ipir-native-client/src/wire.rs.  A word has WordBits bits   *)
(* (64, and 32 for uniform_u32_below).                                     *)
(***************************************************************************)
EXTENDS Rounding

CONSTANTS
    WordBits,
    Bounds,       \* bounds given to the sampler
    Ditherings    \* records [x, q, bits]: coefficients rounded

(* A bound is a nonzero word.  The modulus of the native protocol is a power  *)
(* of two, and at most a word of it is rounded away.                          *)
ASSUME SamplingConstants ==
    /\ WordBits \in Nat
    /\ Bounds \subseteq 1..(2^WordBits - 1)
    /\ \A c \in Ditherings :
         /\ c.x \in 0..(c.q - 1)
         /\ \E k \in 1..c.q : c.q = 2^k /\ c.bits \in 1..k /\ k - c.bits <= WordBits

VARIABLES
    task,   \* the bound, or the coefficient
    word,   \* the next word of the stream
    tally   \* the words accepted for each residue, or the sum of what was rounded

samplevars == <<task, word, tally>>

Word == 2^WordBits
leading_zeros(x) == WordBits - modulus_bits(x + 1)

(* Mutation: without the - 1. *)
zone_open(bound) == bound * 2^leading_zeros(bound)
zone(bound) == (bound * 2^leading_zeros(bound)) - 1

(* One turn of the sampler's loop: a word is rejected, or gives a residue. *)
Accepted(bound, draw) == (draw * bound) % Word <= zone(bound)
uniform_below(bound, draw) == (draw * bound) \div Word

SampleInit ==
    /\ word = 0
    /\ \/ \E bound \in Bounds : task = [bound |-> bound] /\ tally = [r \in 0..(bound - 1) |-> 0]
       \/ \E c \in Ditherings : task = [round |-> c] /\ tally = <<0>>

DrawBelow ==
    /\ "bound" \in DOMAIN task /\ word < Word
    /\ tally' = IF Accepted(task.bound, word)
                THEN [tally EXCEPT ![uniform_below(task.bound, word)] = @ + 1] ELSE tally
    /\ word' = word + 1 /\ UNCHANGED task

(* Rounding up from the largest value gives 0, which stands for q. *)
DrawDither ==
    /\ "round" \in DOMAIN task /\ word < Word
    /\ LET c == task.round
           lifted == up(down_dithered(c.x, c.q, c.bits, word), c.q, c.bits)
       IN  tally' = <<tally[1] + (IF lifted = 0 /\ c.x >= 2^Shift(c.q, c.bits) THEN c.q ELSE lifted)>>
    /\ word' = word + 1 /\ UNCHANGED task

SampleNext == DrawBelow \/ DrawDither

SampleSpec == SampleInit /\ [][SampleNext]_samplevars

(* Over all words every residue below the bound is taken equally often, for   *)
(* powers of two as for the others, and at most half of the words is thrown   *)
(* away: "the output is exactly uniform in [0, bound)" (sampling.rs:14).      *)
ExactlyUniform == "bound" \in DOMAIN task /\ word = Word =>
    /\ \A r \in DOMAIN tally : tally[r] = tally[0]
    /\ 2 * tally[0] * task.bound >= Word

(* Over all words the dithered coefficient is the coefficient on average:     *)
(* "unbiased randomized rounding ... exactly" (wire.rs:45).                   *)
DitherUnbiased == "round" \in DOMAIN task /\ word = Word => tally[1] = task.round.x * Word
=============================================================================
