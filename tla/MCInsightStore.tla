--------------------------- MODULE MCInsightStore ---------------------------
(* InsightStore on a small instance: a bridge worker and a hook process, an *)
(* insight of its own, and one with a variant that is folded into it.       *)
EXTENDS InsightStore

CONSTANTS bridge, hook, k1, k2, k3

TwoLearners == {bridge, hook}
Bridge == {bridge}
ThreeKeys == {k1, k2, k3}
NormKeys == [k \in ThreeKeys |-> IF k = k3 THEN k2 ELSE k]
=============================================================================
