----------------------------- MODULE Summation ------------------------------
(***************************************************************************)
(* Sums of f[from] up to f[to - 1], in the order a loop adds them.         *)
(***************************************************************************)
EXTENDS Integers

SumOf(f, from, to) ==
    LET s[r \in from..to] == IF r = from THEN 0 ELSE s[r - 1] + f[r - 1] IN s[to]
=============================================================================
