--------------------------- MODULE MC_SimplePir -----------------------------
(* A ring of degree 8.  Carries reach the top digit, and make it z, for       *)
(* coefficients from 3804 on.  Rows, masks, secrets and errors are arbitrary  *)
(* fixed polynomials, one block also having every coefficient at its largest, *)
(* one the unit vectors.  One database has two row blocks and two output      *)
(* blocks, with a query of reduced precision, the other one of each at full   *)
(* precision.                                                                 *)
EXTENDS SimplePir

poly(a, b) == [i \in Index |-> (a * (i + 1) * (i + 1) + b * (i + 3) * i + a * b) % Q]
small(a) == [i \in Index |-> (((a + 3 * i * i + i) % 3) - 1) % Q]

MCProbes == <<<<zero, zero>>, <<poly(5, 11), poly(101, 7)>>>>
MCMaskW == [k \in Columns |-> poly(1721 + k, 31)]
MCMaskV == [k \in Columns |-> poly(33 + k, 911)]
MCBlocks == {[k \in Index |-> poly(777 * k + 5, 13 + k)],
             [k \in Index |-> [i \in Index |-> Q - 1]],
             [k \in Index |-> [i \in Index |-> IF i = k THEN 1 ELSE 0]]}

drawn(a) == [s |-> small(a), eg |-> [k \in Columns |-> small(a + k + 1)],
             eh |-> [k \in Columns |-> small(2 * a + k)],
             m |-> [k \in Index |-> (k + a) % P], e |-> small(a + 2)]
MCBatches == {<<drawn(1)>>, <<drawn(2), drawn(3)>>}

AllProducts == (Q - 1) * (Q - 1) * Steps * ell
MCWidths == {AllProducts, AllProducts - 1, (Q - 1) * (Q - 1) * Steps, (Q - 1) * (Q - 1) * 2}

MCProfiles == [low  |-> [plaintext_bits |-> 2, minimum_query_bits |-> 1],
               high |-> [plaintext_bits |-> 2, minimum_query_bits |-> 12]]
MCShapes == {[num_items |-> 9, item_size_bits |-> 17, profile |-> "low"],
             [num_items |-> 8, item_size_bits |-> 16, profile |-> "high"],
             [num_items |-> 7, item_size_bits |-> 16, profile |-> "low"],
             [num_items |-> 8, item_size_bits |-> 15, profile |-> "high"]}
MCItem(name, row, col) == IF name = "full" THEN P - 1 ELSE (row * 7 + col * 5 + ((row * col) \div 3)) % P
MCSetups == {<<poly(17, 1234), poly(1401, 3)>>, <<poly(91, 8), negate(invert(MCMaskW[1]))>>}
MCDraw(seed, n) == (((n * n * 5 + n * (seed + 2) + ((n * seed) \div 4)) \div 3) % 3) - 1
=============================================================================
