---------------------------- MODULE MCChatMemory ----------------------------
(* ChatMemory for TLC: requests are interchangeable. *)
EXTENDS ChatMemory, TLC

Symmetry == Permutations(Requests)
=============================================================================
