---------------------------- MODULE MCLayerSplit ----------------------------
(* A small instance of the split target with a draft in either process.     *)
EXTENDS LayerSplit

\* A context that begins with 2 ends after its fifth token.
MCPredict(ctx) ==
    LET h == FoldLeft(LAMBDA a, t : (3 * a + t) % 7, 1, ctx)
    IN  IF Len(ctx) = 5 /\ Head(ctx) = 2 THEN Eos ELSE 1 + (h % 2)

Req(p, n) == [prompt |-> p, n_gen |-> n]

MCRequests == { Req(<<1, 2>>, 3), Req(<<2, 1, 1>>, 4), Req(<<1, 2, 2, 1>>, 1),
                Req(<<2, 2, 1, 1>>, 5), Req(<<1, 2, 1, 2, 1>>, 6) }

=============================================================================
