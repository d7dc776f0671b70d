------------------------------- MODULE MCEvals -------------------------------
(***************************************************************************)
(* EvalSuite for TLC, with the kinds of case the checked-in datasets have, *)
(* two files and thresholds that let one case of two fail in the chat eval.*)
(***************************************************************************)
EXTENDS EvalSuite

OneRagCase == <<[sources |-> {"f1"}, minimum |-> 1, chunks |-> TRUE, topK |-> 2]>>

\* A search, and a script that takes more rounds of tools than are allowed.
TwoChatCases ==
    <<[history |-> 0, rounds |-> 1, topK |-> 2, hits |-> <<"f1">>],
      [history |-> 2, rounds |-> 2, topK |-> 0, hits |-> <<>>]>>

\* The prompts that hide so many messages and show at least these memories, and the sets of at
\* least these memories.
With(keys) == {k \in SUBSET Keys : keys \subseteq k}
Prompts(hidden, keys) == {hidden} \X With(keys)

\* inject-summary-and-active-memory-into-chat-prompt,
\* refreshes-rolling-summary-when-history-exceeds-window, with the fact that
\* missing-user-id-skips-long-term-memory-write tells,
\* rule-based-extraction-persists-stable-preferences, with a memory to start from, which its
\* prompt must show beside the one that an earlier run may have written.
ThreeMemoryCases ==
    <<[user |-> "u1", history |-> 3, boundary |-> 2, seeds |-> {"language"},
       longTerm |-> TRUE, maxItems |-> 8, trigger |-> 12, window |-> 6,
       script |-> 2, writes |-> {}, fits |-> Prompts(2, {"language"}),
       present |-> {TRUE}, endsAt |-> 2, expects |-> {{"language"}}],
      [user |-> "none", history |-> 6, boundary |-> 0, seeds |-> {},
       longTerm |-> TRUE, maxItems |-> 8, trigger |-> 4, window |-> 2,
       script |-> 2, writes |-> {"name"}, fits |-> Prompts(0, {}),
       present |-> {TRUE}, endsAt |-> 6, expects |-> {{}}],
      [user |-> "u2", history |-> 0, boundary |-> 0, seeds |-> {"language"},
       longTerm |-> TRUE, maxItems |-> 8, trigger |-> 12, window |-> 6,
       script |-> 2, writes |-> {"name"}, fits |-> Prompts(0, {"language"}),
       present |-> {FALSE}, endsAt |-> 0, expects |-> {{"name", "language"}}]>>

ASSUME UsersAreApart == OwnUsers
=============================================================================
