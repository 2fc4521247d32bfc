---------------------------- MODULE RaxIterator ----------------------------
(***************************************************************************)
(* The two iterators of server/rax.c over a tree of RaxTree: raxIterator,  *)
(* which stands on a key and steps to its neighbours, and                  *)
(* raxDefragIterator, which visits every node and every value once.        *)
(*                                                                         *)
(* node is the path of the current node (of the parent when the iterator   *)
(* stands on an inline leaf), stack the paths of the saved parents, child  *)
(* the cached child number, 0 when unknown.  Running out of memory while   *)
(* the key buffer or the stack grows is left out.                          *)
(***************************************************************************)
EXTENDS RaxTree, FiniteSets

NoNode == <<0>>     \* it->node == NULL

\* No iterator, and one that was never placed: raxNext just returns the end.
raxStart == [rt |-> TRUE, eof |-> TRUE, just |-> FALSE, inline |-> FALSE, key |-> <<>>, data |-> NULL,
             node |-> NoNode, child |-> 0, stack |-> <<>>]
NoIter == [raxStart EXCEPT !.rt = FALSE]

\* The characters that lead from n to the node at path.
RECURSIVE PathKey(_, _)
PathKey(n, path) ==
    IF path = <<>> THEN <<>>
    ELSE (IF n.iscompr THEN n.chars ELSE <<n.chars[Head(path)]>>)
         \o PathKey(n.kids[Head(path)], Tail(path))

EdgeText(n, c) == IF n.iscompr THEN n.chars ELSE <<n.chars[c]>>

OnKey(head, it) == it.inline \/ NodeAt(head, it.node).iskey

raxIteratorDelChars(it, n) ==
    [it EXCEPT !.key = Up(@, Len(@) - (IF n.iscompr THEN Size(n) ELSE 1))]

\* Mutant: the cached child number is that of the parent.
raxIteratorEnterChild_OldChild(head, it, c) ==
    LET p == NodeAt(head, it.node)
        x == [it EXCEPT !.key = @ \o EdgeText(p, c)]
        n == p.kids[c]
    IN  IF c \in p.inl THEN [x EXCEPT !.inline = TRUE, !.data = n.inline]
        ELSE [x EXCEPT !.node = Append(@, c), !.stack = Append(@, it.node),
                       !.data = IF n.iskey THEN n.val ELSE NULL]

raxIteratorEnterChild(head, it, c) ==
    LET p == NodeAt(head, it.node)
        x == [it EXCEPT !.key = @ \o EdgeText(p, c), !.child = c]
        n == p.kids[c]
    IN  IF c \in p.inl THEN [x EXCEPT !.inline = TRUE, !.data = n.inline]
        ELSE [x EXCEPT !.node = Append(@, c), !.stack = Append(@, it.node),
                       !.data = IF n.iskey THEN n.val ELSE NULL]

(***************************************************************************)
(* One climb of raxIteratorNextStep and raxIteratorPrevStep: to the parent *)
(* unless noup, with the key cut back to the node reached.                 *)
(***************************************************************************)
ClimbTo(head, it, noup) ==
    LET at == IF noup THEN it.node ELSE Last(it.stack)
    IN  raxIteratorDelChars(
            [it EXCEPT !.node = at,
                       !.stack = IF noup THEN @ ELSE Front(@),
                       !.child = IF noup THEN @ ELSE 0],
            NodeAt(head, at))

\* Whether the children of n other than the one just left are worth a look.
HasSiblings(n, noup) == ~n.iscompr /\ Size(n) > (IF noup THEN 0 ELSE 1)

Forget(it, noup) == IF noup THEN [it EXCEPT !.child = 0] ELSE it

\* Mutant: the cached child index is advanced twice.
NextSibling_Skips(n, it) ==
    IF it.child # 0 THEN IF it.child + 2 > Size(n) THEN Size(n) + 1 ELSE it.child + 2
    ELSE CHOOSE c \in 1..(Size(n) + 1) :
            /\ \A k \in 1..(c - 1) : n.chars[k] <= Last(it.key)
            /\ c <= Size(n) => n.chars[c] > Last(it.key)

\* The next child to visit: after the cached one, else by the last character.
NextSibling(n, it) ==
    IF it.child # 0 THEN it.child + 1
    ELSE CHOOSE c \in 1..(Size(n) + 1) :
            /\ \A k \in 1..(c - 1) : n.chars[k] <= Last(it.key)
            /\ c <= Size(n) => n.chars[c] > Last(it.key)

PrevSibling(n, it) ==
    IF it.child # 0 THEN it.child - 1
    ELSE CHOOSE c \in 0..Size(n) :
            /\ \A k \in (c + 1)..Size(n) : n.chars[k] >= Last(it.key)
            /\ c > 0 => n.chars[c] < Last(it.key)

(***************************************************************************)
(* The two loops of raxIteratorNextStep: down to the first child until a   *)
(* key is met, and up until there is a greater sibling.  orig is what the  *)
(* iterator goes back to when there is no next key.                        *)
(***************************************************************************)
RECURSIVE NextDown(_, _, _, _)
RECURSIVE NextUp(_, _, _, _)

NextArrive(head, it, orig) ==
    IF OnKey(head, it) THEN it ELSE NextDown(head, it, FALSE, orig)

NextDown(head, it, noup, orig) ==
    IF ~noup /\ NodeAt(head, it.node).kids # <<>>
    THEN NextArrive(head, raxIteratorEnterChild(head, it, 1), orig)
    ELSE NextUp(head, it, noup, orig)

NextUp(head, it, noup, orig) ==
    LET up == ClimbTo(head, it, noup)
        p == NodeAt(head, up.node)
        c == NextSibling(p, it)
    IN  IF ~noup /\ it.node = <<>> THEN [orig EXCEPT !.eof = TRUE]
        ELSE IF HasSiblings(p, noup) /\ c # Size(p) + 1
        THEN NextArrive(head, raxIteratorEnterChild(head, up, c), orig)
        ELSE NextUp(head, Forget(up, noup), FALSE, orig)

raxIteratorNextStep(head, it, noup) ==
    IF it.eof THEN it
    ELSE IF it.just THEN [it EXCEPT !.just = FALSE]
    ELSE NextDown(head, [it EXCEPT !.inline = FALSE], noup \/ it.inline, it)

RECURSIVE raxSeekGreatest(_, _)
raxSeekGreatest(head, it) ==
    LET n == NodeAt(head, it.node)
        x == raxIteratorEnterChild(head, it, Len(n.kids))
    IN  IF it.inline \/ Size(n) = 0 THEN it ELSE raxSeekGreatest(head, x)

WithData(head, it) ==
    IF it.inline THEN it ELSE [it EXCEPT !.data = NodeAt(head, it.node).val]

\* The loop of raxIteratorPrevStep.
RECURSIVE PrevUp(_, _, _, _)
PrevUp(head, it, noup, orig) ==
    LET up == ClimbTo(head, it, noup)
        p == NodeAt(head, up.node)
        c == PrevSibling(p, it)
        in == raxIteratorEnterChild(head, up, c)
        x == Forget(IF HasSiblings(p, noup) /\ c # 0 THEN raxSeekGreatest(head, in) ELSE up,
                    noup)
    IN  IF ~noup /\ it.node = <<>> THEN [orig EXCEPT !.eof = TRUE]
        ELSE IF HasSiblings(p, noup) /\ c # 0 /\ in.inline THEN in
        ELSE IF OnKey(head, x) THEN WithData(head, x)
        ELSE PrevUp(head, x, FALSE, orig)

raxIteratorPrevStep(head, it, noup) ==
    IF it.eof THEN it
    ELSE IF it.just THEN [it EXCEPT !.just = FALSE]
    ELSE PrevUp(head, [it EXCEPT !.inline = FALSE], noup \/ it.inline, it)

---------------------------------------------------------------------------
(* Seeking.                                                                *)

Ops == {"=", ">", ">=", "<", "<=", "^", "$"}
EqOps == {"=", ">=", "<="}
GtOps == {">", ">="}
LtOps == {"<", "<="}

JustSeeked(it) == [it EXCEPT !.just = TRUE]

\* One step in the direction of the operator; "Ignore next call" afterwards.
StepTo(head, it, op, noup) ==
    LET x == [it EXCEPT !.just = FALSE]
    IN  JustSeeked(IF op \in GtOps THEN raxIteratorNextStep(head, x, noup)
                   ELSE raxIteratorPrevStep(head, x, noup))

\* The walk stopped at an inline leaf.
SeekInline(head, it, op, s, w) ==
    LET on == [it EXCEPT !.key = Up(s, w.i), !.inline = TRUE, !.child = w.slot,
                         !.data = NodeAt(head, it.node).kids[w.slot].inline]
    IN  CASE op \in EqOps /\ w.i = Len(s)                    -> on
          [] op \in GtOps /\ ~(op \in EqOps /\ w.i = Len(s)) -> StepTo(head, on, op, FALSE)
          [] op = "<" /\ w.i = Len(s)                        -> StepTo(head, on, op, FALSE)
          [] op \in LtOps /\ w.i # Len(s)                    -> on
          [] OTHER                                           -> [on EXCEPT !.eof = TRUE]

\* The walk stopped inside a compressed node because the characters differ.
SeekMismatch(head, it, op, s, w) ==
    LET n == NodeAt(head, it.node)
        past == [it EXCEPT !.key = @ \o n.chars]
        less == n.chars[w.split + 1] < s[w.i + 1]
    IN  IF op \in GtOps
        THEN IF less THEN StepTo(head, past, op, TRUE) ELSE StepTo(head, it, op, FALSE)
        ELSE IF less THEN JustSeeked(WithData(head, raxSeekGreatest(head, it)))
             ELSE StepTo(head, past, op, TRUE)

raxSeek(t, it, op, s) ==
    LET head == t.head
        w == raxLowWalk(head, s)
        reset == [raxStart EXCEPT !.eof = FALSE, !.just = TRUE, !.data = it.data]
        at == [reset EXCEPT !.node = w.path,
                            !.stack = [k \in 1..Len(w.path) |-> Up(w.path, k - 1)]]
        n == NodeAt(head, w.path)
        here == [at EXCEPT !.key = PathKey(head, w.path)]
        inside == n.iscompr /\ w.split # 0
    IN  IF t.numele = 0 THEN [reset EXCEPT !.eof = TRUE]
        ELSE IF op = "$" THEN WithData(head, raxSeekGreatest(head, [reset EXCEPT !.node = <<>>]))
        ELSE IF w.slot # 0 THEN SeekInline(head, at, op, s, w)
        ELSE IF op \in EqOps /\ w.i = Len(s) /\ ~inside /\ n.iskey
        THEN [at EXCEPT !.key = s, !.data = n.val]
        ELSE IF op = "=" THEN [at EXCEPT !.eof = TRUE]
        ELSE IF w.i # Len(s) /\ ~n.iscompr
        THEN StepTo(head, [here EXCEPT !.key = Append(@, s[w.i + 1])], op, TRUE)
        ELSE IF w.i # Len(s) THEN SeekMismatch(head, here, op, s, w)
        ELSE IF inside /\ n.iskey /\ op \in LtOps THEN [here EXCEPT !.data = n.val]
        ELSE StepTo(head, here, op, FALSE)

raxSeekFirst(t, it) == raxSeek(t, it, ">=", <<>>)

---------------------------------------------------------------------------
(* Random walk, comparison and update through the iterator.                *)

(***************************************************************************)
(* One turn of raxRandomWalk: leave an inline leaf for its parent, climb,  *)
(* or enter any child.  Leaving an inline leaf keeps the cached number of  *)
(* the leaf.                                                               *)
(***************************************************************************)
WalkTurns(head, it) ==
    LET n == NodeAt(head, it.node)
    IN  IF it.inline THEN {raxIteratorDelChars([it EXCEPT !.inline = FALSE], n)}
        ELSE {raxIteratorEnterChild(head, it, c) : c \in DOMAIN n.kids}
             \cup (IF it.node = <<>> THEN {} ELSE {ClimbTo(head, it, FALSE)})

RECURSIVE WalkReach(_, _, _)
WalkReach(head, seen, frontier) ==
    IF frontier = {} THEN seen
    ELSE LET next == UNION {WalkTurns(head, x) : x \in frontier}
         IN  WalkReach(head, seen \cup next, next \ seen)

\* Where raxRandomWalk may end: any key met on the way, for some number of steps.
raxRandomWalk(t, it) ==
    {WithData(t.head, x) : x \in {y \in WalkReach(t.head, {}, {it}) : OnKey(t.head, y)}}

LexLess(a, b) ==
    \E k \in 0..Len(a) :
        /\ k <= Len(b) /\ Up(a, k) = Up(b, k)
        /\ (k = Len(a) /\ k < Len(b)) \/ (k < Len(a) /\ k < Len(b) /\ a[k + 1] < b[k + 1])

\* Mutant: of two keys with a common prefix the shorter one wins.
raxCompare_Shorter(it, op, key) ==
    LET min == IF Len(key) < Len(it.key) THEN Len(key) ELSE Len(it.key)
        cmp == IF Up(it.key, min) = Up(key, min) THEN 0
               ELSE IF LexLess(Up(it.key, min), Up(key, min)) THEN -1 ELSE 1
    IN  CASE op = "=="           -> cmp = 0 /\ Len(key) = Len(it.key)
          [] op \in LtOps \cup GtOps ->
               IF cmp = 0
               THEN (op \in EqOps /\ Len(key) = Len(it.key))
                    \/ (IF op \in LtOps THEN Len(it.key) > Len(key) ELSE Len(it.key) < Len(key))
               ELSE IF cmp > 0 THEN op \in GtOps ELSE op \in LtOps
          [] OTHER -> FALSE

\* memcmp of the common length, then the lengths.
raxCompare(it, op, key) ==
    LET min == IF Len(key) < Len(it.key) THEN Len(key) ELSE Len(it.key)
        cmp == IF Up(it.key, min) = Up(key, min) THEN 0
               ELSE IF LexLess(Up(it.key, min), Up(key, min)) THEN -1 ELSE 1
    IN  CASE op = "=="           -> cmp = 0 /\ Len(key) = Len(it.key)
          [] op \in LtOps \cup GtOps ->
               IF cmp = 0
               THEN (op \in EqOps /\ Len(key) = Len(it.key))
                    \/ (IF op \in LtOps THEN Len(it.key) < Len(key) ELSE Len(it.key) > Len(key))
               ELSE IF cmp > 0 THEN op \in GtOps ELSE op \in LtOps
          [] OTHER -> FALSE

\* The slot raxIteratorCurrentParentLink finds for an inline leaf, 0 for none.
CurrentSlot(head, it) ==
    LET p == NodeAt(head, it.node)
    IN  IF it.child \in p.inl THEN it.child
        ELSE IF p.iscompr THEN 1
        ELSE LET c == {k \in p.inl : p.chars[k] = Last(it.key)}
             IN  IF it.key = <<>> \/ c = {} THEN 0 ELSE CHOOSE k \in c : TRUE

\* raxIteratorSetData: the tree and the iterator after a call that succeeds,
\* which knows the child number afterwards, except at the head.
raxIteratorSetData(t, it, v) ==
    LET n == NodeAt(t.head, it.node)
        new == IF it.inline THEN [n EXCEPT !.kids[CurrentSlot(t.head, it)] = Inline(v)]
               ELSE raxSetData(n, v)
    IN  [tree |-> [t EXCEPT !.head = PutAt(@, it.node, new)],
         it |-> [it EXCEPT !.data = v,
                           !.child = CASE it.inline       -> CurrentSlot(t.head, it)
                                       [] it.node = <<>>  -> @
                                       [] OTHER           -> Last(it.node)]]

---------------------------------------------------------------------------
(* The defragmentation iterator: a stack of frames, one per node on the    *)
(* way down, each of them about to emit the node, its value or a child.    *)

Frame(path) == [node |-> path, child |-> 1, state |-> "node"]

NoItem == [kind |-> "none", node |-> NoNode, slot |-> 0, val |-> NULL]

raxDefragStart == [frames |-> <<Frame(<<>>)>>, key |-> <<>>, todel |-> 0, eof |-> FALSE,
                   item |-> NoItem]

DropKey(d, n) == [d EXCEPT !.key = Up(@, Len(@) - n)]

\* Mutant: the characters of an inline leaf stay in the key.
DefragFresh_KeepsChars(d) == [d EXCEPT !.todel = 0]

\* The characters of an inline leaf leave the key at the next call.
DefragFresh(d) == [DropKey(d, d.todel) EXCEPT !.todel = 0]

RECURSIVE DefragLoop(_, _)
DefragLoop(head, d) ==
    LET top == Last(d.frames)
        n == NodeAt(head, top.node)
        c == top.child
        set(f) == [d EXCEPT !.frames = Append(Front(@), f)]
        below == Front(d.frames)
        text == EdgeText(n, c)
        after == set([top EXCEPT !.child = c + 1])
    IN  CASE top.state = "node" ->
               [set([top EXCEPT !.state = "data"]) EXCEPT
                   !.item = [NoItem EXCEPT !.kind = "node", !.node = top.node]]
          [] top.state = "data" ->
               LET x == set([top EXCEPT !.state = "children"])
               IN  IF n.iskey /\ n.val # NULL
                   THEN [x EXCEPT !.item = [kind |-> "data", node |-> top.node,
                                            slot |-> 0, val |-> n.val]]
                   ELSE DefragLoop(head, x)
          [] top.state = "children" /\ c = Len(n.kids) + 1 ->
               IF below = <<>> THEN [d EXCEPT !.frames = <<>>, !.eof = TRUE]
               ELSE LET p == NodeAt(head, Last(below).node)
                    IN  DefragLoop(head, DropKey([d EXCEPT !.frames = below],
                                                 IF p.iscompr THEN Size(p) ELSE 1))
          [] OTHER ->
               IF c \notin n.inl
               THEN DefragLoop(head, [after EXCEPT !.key = @ \o text,
                                         !.frames = Append(@, Frame(Append(top.node, c)))])
               ELSE IF n.kids[c].inline = NULL THEN DefragLoop(head, after)
               ELSE [after EXCEPT !.key = @ \o text, !.todel = Len(text),
                                  !.item = [kind |-> "data", node |-> top.node,
                                            slot |-> c, val |-> n.kids[c].inline]]

raxDefragNext(head, d) == IF d.eof THEN d ELSE DefragLoop(head, DefragFresh(d))

\* raxDefragReplaceData with a value that is not NULL.
raxDefragReplaceData(t, d, v) ==
    LET n == NodeAt(t.head, d.item.node)
        new == IF d.item.slot # 0 THEN [n EXCEPT !.kids[d.item.slot] = Inline(v)]
               ELSE raxSetData(n, v)
    IN  [tree |-> [t EXCEPT !.head = PutAt(@, d.item.node, new)],
         dit |-> [d EXCEPT !.item.val = v]]

=============================================================================
