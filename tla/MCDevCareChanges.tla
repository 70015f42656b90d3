-------------------------- MODULE MCDevCareChanges --------------------------
(* Instances of DevCareChanges small enough to enumerate. *)
EXTENDS DevCareChanges, TLC

CONSTANTS cardio, neuro

\* A deleted specialty whose code is free again, and a doctor who refers to it.
MCSpecialties == {[pk |-> 1, col |-> cardio, hist |-> FALSE],
                  [pk |-> 2, col |-> neuro, hist |-> TRUE]}
MCDoctors == {[pk |-> 1, col |-> 2, hist |-> FALSE]}

Symmetry == Permutations(Change) \cup Permutations(Conversation)
=============================================================================
