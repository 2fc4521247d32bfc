------------------------------- MODULE MCRax -------------------------------
EXTENDS Rax

\* Keys that share prefixes, end inside compressed nodes and fill a node
\* beyond its inline slots; one is longer than a node.
MCKeys == {<<>>, <<2>>, <<2, 1>>, <<2, 2, 1, 1>>, <<2, 3>>}

\* Strings that are no keys: before, between, behind and inside the edges.
MCProbes == MCKeys \cup {<<1>>, <<2, 1, 1>>, <<2, 2>>, <<2, 2, 1>>, <<2, 2, 2>>,
                         <<2, 2, 1, 1, 1>>, <<2, 4>>, <<3>>}
=============================================================================
