-------------------------- MODULE MCChecklistStore --------------------------
(* Small instances of ChecklistStore: one checklist, contents over two        *)
(* candidates, one of them given with its weights in both orders.             *)
EXTENDS ChecklistStore

CONSTANTS c1, c2

Weighted(c, n) == [candidate |-> c, weight |-> n]

Content(weights, questions) == [dimensions |-> <<"d1">>, candidates |-> <<c1, c2>>,
                                weights |-> weights, questions |-> questions]

InOrder == Content(<<Weighted(c1, 1), Weighted(c2, 0)>>, <<"q1">>)
Shuffled == Content(<<Weighted(c2, 0), Weighted(c1, 1)>>, <<"q1">>)
Other == Content(<<Weighted(c1, 1), Weighted(c2, 1)>>, <<"q1", "q2">>)
Unweighted == Content(<<Weighted(c1, 1)>>, <<"q1">>)

SafetyContents == {InOrder, Other, Shuffled, Unweighted}
==============================================================================
