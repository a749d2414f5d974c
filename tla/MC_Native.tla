------------------------------ MODULE MC_Native ------------------------------
(***************************************************************************)
(* The native protocol's parts, one at a time: a behaviour runs the part   *)
(* it starts with and leaves the others parked.                            *)
(***************************************************************************)
EXTENDS NativeProfile, PreparedNative, NativeMatrix, Transport, Sampling

VARIABLE part

PackOf(q, p, g, l) ==
    [d |-> 2, qbits |-> q, pbits |-> p, gbits |-> g, ell |-> l, gaussian |-> TRUE]

(* p = 2^16 and p = 2^8 certified pairs, an uncertified pair, a modulus too   *)
(* small for rounding, and a ternary secret that new rejects.                 *)
MCPacks == {PackOf(54, 16, 19, 2), PackOf(54, 8, 27, 1), PackOf(54, 14, 19, 2),
            PackOf(17, 8, 19, 2),
            [PackOf(54, 16, 19, 2) EXCEPT !.gaussian = FALSE]}
MCDims == {0, 2, 3, 4}
MCWidths == {10, 14, 22, 27, 28, 43, 49, 54, 64}

-----------------------------------------------------------------------------
MCPrimes == <<593, 641, 673>>
Const(x) == [i \in Index |-> x % Q]
Curve(x, y, z) == [i \in Index |-> (x * i * i + y * i + z) % Q]
Ternary(x, y) == [i \in Index |-> (((x * i * i + y * i + x) % 3) - 1) % Q]
Small(x, y, m) == [i \in Index |-> (((x * i * i + y * i) % (2 * m + 1)) - m) % Q]

(* A left coefficient of 11 is the largest that two primes hold. *)
LiftTask(how, a, b, bound) == [how |-> how, a |-> a, b |-> b, bound |-> bound]
Rights == {<<Const(Q \div 2), Const(Q \div 2)>>, <<Curve(77, 901, 5), Const(-1)>>}
Lefts == {<<Const(x), Const(y)>> : x \in {11, -11, 12}, y \in {0, 11}}
         \union {<<Curve(13, 700, 9), Small(3, 5, 8)>>}
MCLiftTasks ==
    {LiftTask(how, a, b, 0) : how \in {"sum", "prepared", "cached"}, a \in Lefts, b \in Rights}
    \union {LiftTask("bounded", <<Const(x), Small(3, 2, 8)>>, b, x) : x \in {5, 8, 11, 12, 16}, b \in Rights}
    \union {LiftTask("dot", <<Const(x), Curve(9, 31, 44)>>, <<Const(y), Small(1, 1, y)>>, y) :
            x \in {Q \div 2, 1}, y \in {1, 8, 16}}
    \union {LiftTask("decode", a, <<Ternary(2, 1)>>, 1) :
            a \in {<<Curve(5, 777, 3)>>, <<Curve(5, 777, 4), Const(Q \div 2)>>}}

(* Masks without pattern, masks whose aggregate is as large as can be, and    *)
(* those of a block whose columns are only padding, before another block.     *)
RandomRows(seed) == [k \in Index |->
    Curve(37 * k * k + 11 * k + seed, 911 * k + 5 * seed, k * k * k * 77 + seed)]
DiagonalRows == [k \in Index |-> [i \in Index |-> IF i = k THEN Q - 1 ELSE 0]]
Limbs(seed, n) == [l \in 1..n |-> Curve(seed + (l * 501), 1237 * l + seed, 99 + l)]
NoRows == [k \in Index |-> Const(0)]
JobOf(bits, ell, two, rows, seed) ==
    [bits |-> bits, ell |-> ell, two |-> two,
     blocks |-> [b \in DOMAIN rows |-> [masks |-> rows[b], msgs |-> [i \in Index |-> (seed + b + i * i) % PackP]]],
     w |-> Limbs(seed, ell), v |-> Limbs(seed + 7, ell), secret |-> Ternary(seed, 1),
     noise |-> [i \in Index |-> IF i % 3 = 1 THEN (IF seed % 2 = 0 THEN 1 ELSE -1) ELSE 0]]
MCJobs == {JobOf(4, 3, two, <<RandomRows(5)>>, 5) : two \in BOOLEAN}
          \union {JobOf(5, 2, two, <<NoRows, RandomRows(12)>>, 12) : two \in BOOLEAN}
          \union {JobOf(5, 2, FALSE, <<RandomRows(32)>>, 31), JobOf(4, 3, TRUE, <<DiagonalRows>>, 3)}

-----------------------------------------------------------------------------
Column(kind, rows, cols, x) == [n \in 1..(rows * cols) |->
    IF x < 0 THEN WordOf(kind) - 1 ELSE (x * n * n + 5 * n) % WordOf(kind)]
QueryWords(qbits, rows, x, y, low) == [i \in 1..rows |-> (((x * i + y) % 2^qbits) \div 2^low) * 2^low]
KernelShapes == {<<kind, rows, 2>> : kind \in {"u8_tiled", "u16_tiled"}, rows \in {4, 8, 12, 16}}
                \union {<<"u16", rows, 1>> : rows \in {1, 4, 7, 8, 9, 12, 17}}
                \union {<<"u8", rows, 1>> : rows \in {1, 5, 8, 11}}
MCKernelTasks ==
    {[kind |-> s[1], simd |-> simd, qbits |-> qbits, words |-> QueryWords(qbits, s[2], w[1], w[2], w[3]),
      db |-> Column(s[1], s[2], s[3], c)] :
        s \in KernelShapes, simd \in {"vnni", "avx512", "avx2", "scalar"}, qbits \in {1, 5, 8, 12},
        c \in {-1, 3}, w \in {<<0, 2, 0>>, <<37, 91, 0>>, <<37, 91, 4>>, <<0, -1, 0>>}}

MCPackBits == <<3, 4>>
Block(rows, cols, q, top, x) == [r \in 1..rows |-> [c \in 1..cols |->
    (((x * r * c + r + c) % (2 * top + 1)) - top) % q]]
MatrixShapes == {<<rows, 4, 4, q>> : rows \in {3, 4, 8}, q \in {127, 128}}
                \union {<<4, 3, 4, 128>>, <<5, 3, 4, 101>>}
MCMatrixTasks ==
    {[blocks |-> <<Block(s[1], s[2], s[4], top, 3), Block(s[1], s[3], s[4], top, 5)>>, q |-> s[4],
      simd |-> simd, packs |-> packs, y |-> [c \in 1..(s[2] + s[3]) |-> (s[4] - (y * c)) % s[4]]] :
        s \in MatrixShapes, top \in {3, 4, 7, 8, 15, 16, 40}, simd \in {"avx512", "avx2", "scalar"},
        packs \in BOOLEAN, y \in {1, 37}}

-----------------------------------------------------------------------------
MCWords(q, n) == {[i \in 1..n |-> (a + (i - 1) * b) % q] :
                  a \in (0..20) \union {q \div 2, (q \div 2) + 1, q - 1}, b \in {0, 1, 37}}
ChannelOf(codec, q, to, bits, n) == [codec |-> codec, q |-> q, to |-> to, bits |-> bits, n |-> n]
MCChannels ==
    {ChannelOf("exact", 2^b, 0, b, n) : b \in {1, 3, 5, 8, 11}, n \in {1, 2, 3}}
    \union {ChannelOf("rounded", 2^11, 0, b, 3) : b \in {1, 3, 8, 11}}
    \union {ChannelOf("dithered", 2^9, 0, b, 2) : b \in {3, 5, 9}}
    \union {ChannelOf("query", 769, 0, b, 3) : b \in {1, 5, 9, 10, 12}}
    \union {ChannelOf("full", 257, 0, 0, 3), ChannelOf("full", 769, 0, 0, 2)}
    \union {ChannelOf(codec, 769, to, 0, 3) : codec \in {"coeffs", "body"}, to \in {2, 17, 64, 100}}
    \union {ChannelOf("rows", 769, 17, 64, 2), ChannelOf("rows", 769, 32, 100, 3)}
MCDitherings == {[x |-> x, q |-> 64, bits |-> b] : x \in 0..63, b \in {3, 5, 6}}

-----------------------------------------------------------------------------
ParkProfile == ProfileInit
ParkLift == lift = <<>> /\ left = <<>> /\ right = <<>> /\ lifted = <<>>
ParkPacking ==
    /\ job = <<>> /\ nblock = 0 /\ pres = <<>> /\ nstage = "parked" /\ layer = 0 /\ agg = <<>> /\ halves = <<>> /\ digits = <<>>
    /\ fft = <<>> /\ public_w = <<>> /\ npre = <<>> /\ keys = <<>> /\ prepared = <<>> /\ scan = <<>>
    /\ pending = <<>> /\ cipher = <<>> /\ products = <<>> /\ decoded = <<>>
    /\ origin = [kind |-> "built", written |-> <<>>]
ParkKernel == kernel = <<>> /\ query = <<>> /\ tiles = <<>> /\ row = 0 /\ kout = <<>>
ParkMatrix == matrix = <<>> /\ store = <<>> /\ mout = <<>>
ParkTransport == channel = <<>> /\ sent = <<>> /\ wire = <<>> /\ damaged = FALSE /\ received = <<>>
ParkSampling == task = <<>> /\ word = 0 /\ tally = <<>>

NativeInit ==
    \/ /\ part = "profile" /\ ProfileInit
       /\ ParkLift /\ ParkPacking /\ ParkKernel /\ ParkMatrix /\ ParkTransport /\ ParkSampling
    \/ /\ part = "lift" /\ LiftInit
       /\ ParkProfile /\ ParkPacking /\ ParkKernel /\ ParkMatrix /\ ParkTransport /\ ParkSampling
    \/ /\ part = "packing" /\ PreparedInit
       /\ ParkProfile /\ ParkLift /\ ParkKernel /\ ParkMatrix /\ ParkTransport /\ ParkSampling
    \/ /\ part = "kernel" /\ KernelInit
       /\ ParkProfile /\ ParkLift /\ ParkPacking /\ ParkMatrix /\ ParkTransport /\ ParkSampling
    \/ /\ part = "matrix" /\ MatrixInit
       /\ ParkProfile /\ ParkLift /\ ParkPacking /\ ParkKernel /\ ParkTransport /\ ParkSampling
    \/ /\ part = "transport" /\ TransInit
       /\ ParkProfile /\ ParkLift /\ ParkPacking /\ ParkKernel /\ ParkMatrix /\ ParkSampling
    \/ /\ part = "sampling" /\ SampleInit
       /\ ParkProfile /\ ParkLift /\ ParkPacking /\ ParkKernel /\ ParkMatrix /\ ParkTransport

nativevars == <<part, held, liftvars, npvars, origin, kernelvars, matrixvars, transvars, samplevars>>

NativeNext ==
    /\ UNCHANGED part
    /\ \/ part = "profile" /\ ProfileNext
          /\ UNCHANGED <<liftvars, npvars, origin, kernelvars, matrixvars, transvars, samplevars>>
       \/ part = "lift" /\ LiftNext
          /\ UNCHANGED <<held, npvars, origin, kernelvars, matrixvars, transvars, samplevars>>
       \/ part = "packing" /\ PreparedNext
          /\ UNCHANGED <<held, liftvars, kernelvars, matrixvars, transvars, samplevars>>
       \/ part = "kernel" /\ KernelNext
          /\ UNCHANGED <<held, liftvars, npvars, origin, matrixvars, transvars, samplevars>>
       \/ part = "matrix" /\ MatrixNext
          /\ UNCHANGED <<held, liftvars, npvars, origin, kernelvars, transvars, samplevars>>
       \/ part = "transport" /\ TransNext
          /\ UNCHANGED <<held, liftvars, npvars, origin, kernelvars, matrixvars, samplevars>>
       \/ part = "sampling" /\ SampleNext
          /\ UNCHANGED <<held, liftvars, npvars, origin, kernelvars, matrixvars, transvars>>

NativeSpec == NativeInit /\ [][NativeNext]_nativevars
=============================================================================
