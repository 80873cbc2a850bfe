---------------------------- MODULE MCCrossReview ----------------------------
(***************************************************************************)
(* Instance of CrossReview for TLC: two slots both managers compete for,   *)
(* so that a manager may contradict itself in one, in both or in none, and *)
(* correct one before the other.  2 outweighs -1 and contradicts it, 1     *)
(* does not.                                                               *)
(***************************************************************************)
EXTENDS CrossReview

MCItems      == Slot \X Manager
MCInsistence == {1, 2}
MCScore      == {-2, -1, 1}
=============================================================================
