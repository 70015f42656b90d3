---------------------------- MODULE MCChatTurns ----------------------------
(* Instances of ChatTurns small enough to enumerate. *)
EXTENDS ChatTurns, TLC

Symmetry == Permutations(Turn) \cup Permutations(Session)
=============================================================================
