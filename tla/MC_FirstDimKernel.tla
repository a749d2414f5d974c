------------------------- MODULE MC_FirstDimKernel -------------------------
(* Limbs of three bits.  An element bound of 3 allows windows of 3 rows, of   *)
(* 2 windows of 4, of 7 windows of one; 7 is the largest element of a type    *)
(* with split products and 63 of one without.                                 *)
EXTENDS FirstDimKernel
Vectors(n, top) == {[r \in 0..(n - 1) |-> top],
                    [r \in 0..(n - 1) |-> IF r % 2 = 0 THEN top ELSE 1],
                    [r \in 0..(n - 1) |-> (r * 5 + 2) % (top + 1)]}
Inputs(kernel, rows, windows, types, bounds, moduli, tops) ==
    {[kernel |-> kernel, rows |-> rows, cols |-> cols, chunk_rows |-> window,
      q |-> q, type_max |-> type, element_max |-> bound, query |-> query,
      db |-> [c \in 0..(cols - 1) |-> IF c = 1 THEN y ELSE x]] :
        cols \in {2, 3}, window \in windows, q \in moduli, type \in types,
        bound \in bounds, query \in UNION {Vectors(rows, top) : top \in tops},
        x \in Vectors(rows, 3), y \in {[r \in 0..(rows - 1) |-> r % 2]}}
WithBound(calls) == {c \in calls : /\ c.element_max <= c.type_max
                                   /\ \A col \in DOMAIN c.db : \A r \in DOMAIN c.query :
                                         c.db[col][r] <= c.element_max}
MCCalls == WithBound(
    Inputs("chunked", 5, {0, 2, 9}, {7, 63}, {3, 7}, {61}, {55, 60})
      \union Inputs("avx512", 5, {0, 3, 9}, {7}, {3, 7}, {61}, {55, 60})
      \union Inputs("power_of_two", 3, {9}, {63}, {63}, {16, 61, 32}, {13, 55}))
=============================================================================
