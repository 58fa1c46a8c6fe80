---------------------------- MODULE MCAttributes ----------------------------
(***************************************************************************)
(* Instances of Printer with the attributes of its jobs, for TLC.          *)
(***************************************************************************)
EXTENDS Attributes, TLC

\* The slots are interchangeable, and no property names one.
SlotSymmetry == Permutations(Slots)
=============================================================================
