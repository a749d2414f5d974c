----------------------------- MODULE MC_Packing -----------------------------
(* A ring of degree 4 and digits of one bit, and two threads that pack one   *)
(* request after another, and two at once, with the buffers they kept.        *)
EXTENDS Packing

poly(a, b) == [i \in Index |-> (a * (i + 1) * (i + 1) + b * (i + 3) * i + a * b) % Q]
small(a) == [i \in Index |-> (((a + 3 * i * i + i) % 3) - 1) % Q]

MCProbes == <<<<zero, zero>>, <<poly(5, 11), poly(101, 7)>>>>
MCMaskW == [k \in Columns |-> poly(21 + 3 * k, 31)]
MCMaskV == [k \in Columns |-> poly(33 + 5 * k, 91)]
MCBlocks == {[k \in Index |-> poly(77 * k + 5, 13 + k)], [k \in Index |-> [i \in Index |-> Q - 1]]}

drawn(a) == [s |-> small(a), eg |-> [k \in Columns |-> small(a + k + 1)],
             eh |-> [k \in Columns |-> small(2 * a + k)],
             m |-> [k \in Index |-> (k + a) % P], e |-> small(a + 2)]
MCBatches == {<<drawn(1)>>, <<drawn(2)>>, <<drawn(2), drawn(3)>>}
AllProducts == (Q - 1) * (Q - 1) * Steps * ell
MCWidths == {AllProducts, AllProducts - 1}
=============================================================================
