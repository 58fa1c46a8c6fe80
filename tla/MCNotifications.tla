-------------------------- MODULE MCNotifications ---------------------------
(***************************************************************************)
(* Instances of Notifications for TLC.                                     *)
(***************************************************************************)
EXTENDS Notifications, TLC

\* The slots are interchangeable, and no property names one.
SlotSymmetry == Permutations(Slots)
=============================================================================
