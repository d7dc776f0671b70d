--------------------------- MODULE MCChatEndpoint ---------------------------
(* ChatEndpoint for TLC: requests and owners are interchangeable. *)
EXTENDS ChatEndpoint, TLC

Symmetry == Permutations(Requests) \union Permutations(Owners)
=============================================================================
