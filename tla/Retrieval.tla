------------------------------ MODULE Retrieval ------------------------------
(***************************************************************************)
(* What a private retrieval session promises: a query names one row of one *)
(* database snapshot, and the only value it ever yields is that row.       *)
(***************************************************************************)
CONSTANTS Queries, Snapshots, Rows

VARIABLES
    asked,    \* per query: {} or {<<snapshot, row>>}
    answer    \* per query: {} or {<<snapshot, row>>}, the decoded row

vars == <<asked, answer>>

Init ==
    /\ asked = [q \in Queries |-> {}]
    /\ answer = [q \in Queries |-> {}]

Ask(q) == \E v \in Snapshots, t \in Rows :
    /\ asked[q] = {}
    /\ asked' = [asked EXCEPT ![q] = {<<v, t>>}]
    /\ UNCHANGED answer

Answer(q) ==
    /\ asked[q] # {}
    /\ answer' = [answer EXCEPT ![q] = asked[q]]
    /\ UNCHANGED asked

Next == \E q \in Queries : Ask(q) \/ Answer(q)

Spec == Init /\ [][Next]_vars
=============================================================================
