---------------------------- MODULE Speculation ----------------------------
(***************************************************************************)
(* What the speculative loops share: the greedy target, the blocks a draft *)
(* may propose, and how much of a verified block is kept.                  *)
(*                                                                         *)
(* Decoding is greedy: Predict(ctx) is the argmax token after a context,   *)
(* and the argmax after Junk may be any token.  What the draft proposes is *)
(* arbitrary, so tool-call hints, which only override draft tokens, are    *)
(* among its proposals.                                                    *)
(***************************************************************************)
EXTENDS TargetCache

CONSTANTS
    Tokens, Eos,   \* the vocabulary and its end token
    Predict(_),    \* the target's greedy next token after a context
    QLen,          \* the draft's block size (block_size)
    Faults         \* which calls may fail

ASSUME BlockSize == QLen \in Nat \ {0, 1} /\ Eos \in Tokens

(* Tokens are numbers, none of which stands for a row that is not right.    *)
ASSUME TokensAssumption == Tokens \subseteq Nat \ {Bad}

ASSUME PredictAssumption ==
    \A n \in 0 .. MaxCtx : \A ctx \in [1 .. n -> Tokens] : Predict(ctx) \in Tokens

MayFail(what) == what \in Faults

Pick(e) == IF e = Junk THEN Tokens ELSE {Predict(e)}

Picks(out) == {t \in [DOMAIN out -> Tokens] : \A i \in DOMAIN out : t[i] \in Pick(out[i])}

(* The blocks a draft step may propose after the last token; without one it *)
(* fails, as the embedding of -1 does.                                      *)
BlocksAfter(last) == {<<last>> \o d : d \in IF last \in Tokens THEN [1 .. QLen - 1 -> Tokens] ELSE {}}

(* The longest prefix of the draft that the target would have produced.     *)
AcceptN(draft, target) ==
    Max({n \in 1 .. QLen : \A i \in 1 .. n - 1 : draft[i + 1] = target[i]})

\* Mutant: the budget is not applied to the bonus token.
CommitN_NoClip(accept_n, budget) == IF accept_n < QLen THEN accept_n + 1 ELSE accept_n

(* Accepted tokens and the bonus token, within the budget.                  *)
CommitN(accept_n, budget) ==
    Min({budget, IF accept_n < QLen THEN accept_n + 1 ELSE accept_n})

\* Mutant: the bonus is the target's last token, not the one at the mismatch.
CommitTokens_LastTarget(draft, target, accept_n, commit_n) ==
    [i \in 1 .. commit_n |-> IF i <= accept_n THEN draft[i] ELSE Last(target)]

CommitTokens(draft, target, accept_n, commit_n) ==
    [i \in 1 .. commit_n |-> IF i <= accept_n THEN draft[i] ELSE target[accept_n]]

=============================================================================
