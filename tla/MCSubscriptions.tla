--------------------------- MODULE MCSubscriptions --------------------------
(***************************************************************************)
(* Instances of Push, and with it of Subscriptions, for TLC.               *)
(***************************************************************************)
EXTENDS Push, TLC

\* The jobs are interchangeable, and no property names one.
JobSymmetry == Permutations(Jobs)
=============================================================================
