----------------------- MODULE MCPromotionPublication -----------------------
(***************************************************************************)
(* Instances of PromotionPublication for TLC.                              *)
(***************************************************************************)
EXTENDS PromotionPublication, TLC

CONSTANTS q1, s1, s2, p1, p2

\* The second reporter belongs to another pull request with the same head.
SharedHead == [j \in Job |-> IF j = s2 THEN p2 ELSE p1]
=============================================================================
