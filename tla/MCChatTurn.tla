------------------------------ MODULE MCChatTurn ------------------------------
(* Small instances of ChatTurn.  Turns are interchangeable where only safety is
   checked. *)
EXTENDS ChatTurn, TLC

Symmetry == Permutations(Turns)
=============================================================================
