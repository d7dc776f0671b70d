-------------------------- MODULE MCLongTermMemory --------------------------
(* LongTermMemory for TLC: nothing tells the members of its sets apart. *)
EXTENDS LongTermMemory, TLC

Symmetry == Permutations(Users) \union Permutations(Keys) \union Permutations(Values)
                \union Permutations(Requests) \union Permutations(Calls)
=============================================================================
