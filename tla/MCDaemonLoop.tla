---------------------------- MODULE MCDaemonLoop ----------------------------
(* A small instance of the backends: two prompts with a common prefix, a    *)
(* target whose greedy continuations reach the end token after a few steps. *)
EXTENDS DaemonLoop

MCPredict(ctx) ==
    LET h == FoldLeft(LAMBDA a, t : (3 * a + t) % 7, 1, ctx)
    IN  IF Len(ctx) >= 3 /\ h = 2 THEN 3 ELSE 1 + (h % 2)

MCNoSlot == -1

Req(p, n, pos, slot) == [prompt |-> p, n_gen |-> n, snap_pos |-> pos, snap_slot |-> slot]

MCRequests ==
    { Req(<<1, 2>>, 2, -1, -1), Req(<<1, 2, 1>>, 1, 2, 0),
      Req(<<1, 2, 2, 1>>, 3, 3, 0), Req(<<1, 2, 2, 1, 1, 2, 1, 2>>, 1, 3, 0),
      Req(<<2, 1, 1>>, 0, -1, -1) }

ASSUME MCSizesFit == SizesFit

=============================================================================
