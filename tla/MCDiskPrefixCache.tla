------------------------- MODULE MCDiskPrefixCache -------------------------
(***************************************************************************)
(* Prompts and replies for the runs of DiskPrefixCache.                    *)
(***************************************************************************)
EXTENDS DiskPrefixCache

MCTurns == {"a", "b", "c"}

\* Two conversations with a common start, and another one.
MCPrompts == {<<"a", "b", "a">>, <<"a", "a", "b">>, <<"b", "a">>}

MCTwoPrompts == {<<"a", "b", "a">>, <<"b", "a">>}

MCReplies == {<<"c">>}
=============================================================================
