----------------------------- MODULE MCPrinter ------------------------------
(***************************************************************************)
(* Instances of Printer and its queries for TLC.                           *)
(***************************************************************************)
EXTENDS Queries, TLC

\* The slots are interchangeable, and no property names one.
SlotSymmetry == Permutations(Slots)
=============================================================================
