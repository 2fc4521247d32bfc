--------------------------- MODULE MCPrefixCache ---------------------------
(* Small prompts for the prefix cache: one with no boundary, unrelated      *)
(* conversations, and continuations of the first one. They ask for          *)
(* snapshots of three prefixes, one more than the runs have slots, so that  *)
(* evictions happen.                                                        *)
EXTENDS PrefixCache

MCTurns == {"a", "b", "c"}

MCPrompts ==
  {<<"a">>, <<"a", "b">>, <<"b", "a">>, <<"a", "b", "c">>, <<"a", "b", "c", "a">>}

=============================================================================
