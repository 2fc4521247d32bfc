------------------------------ MODULE RaxTree ------------------------------
(***************************************************************************)
(* The radix tree of server/rax.c as pure operators: nodes, the walk,      *)
(* insertion, lookup, removal and release.                                 *)
(*                                                                         *)
(* A node is a value, and the place of a node in the tree is the sequence  *)
(* of child numbers that leads to it from the head, so a raxNode pointer   *)
(* is a path and the raxStack of parents is the path's proper prefixes.    *)
(* Layout (padding, memmove of pointers, the value behind the children) is *)
(* left out; what is kept is which child sits in which slot, which slots   *)
(* hold a value instead of a node, and the two counters of the rax.        *)
(* Child numbers start at 1; the code's start at 0.                        *)
(***************************************************************************)
EXTENDS Integers, Sequences, SequencesExt

CONSTANTS
    InlineSlots,    \* children that leafbitmap can describe (13)
    NodeMax         \* RAX_NODE_MAX_SIZE, characters of one compressed node

ASSUME RaxConstants == InlineSlots \in Nat \ {0} /\ NodeMax \in Nat \ {0, 1}

NULL == "null"              \* the value NULL, kept as isnull in the node
raxNotFound == "notfound"

(***************************************************************************)
(* A slot of kids holds a node or, when its number is in inl (leafbitmap), *)
(* a bare value.                                                           *)
(***************************************************************************)
Inline(v) == [inline |-> v]

raxNewNode == [iskey |-> FALSE, val |-> NULL, iscompr |-> FALSE,
               chars |-> <<>>, kids |-> <<>>, inl |-> {}]

raxSetData(n, v) == [n EXCEPT !.iskey = TRUE, !.val = v]

raxNewValueNode(v) == raxSetData(raxNewNode, v)

\* broken: the code has written or read memory that is no longer, or never
\* was, the tree's, or one of its asserts has failed; the tree means nothing now.
raxNew == [head |-> raxNewNode, numele |-> 0, numnodes |-> 1, broken |-> FALSE]

Size(n) == Len(n.chars)

\* May be merged with a neighbour: not a key and a single child.
Chained(n) == ~n.iskey /\ (n.iscompr \/ Size(n) = 1)

RECURSIVE NodeAt(_, _)
NodeAt(n, path) ==
    IF path = <<>> THEN n ELSE NodeAt(n.kids[Head(path)], Tail(path))

RECURSIVE PutAt(_, _, _)
PutAt(n, path, new) ==
    IF path = <<>> THEN new
    ELSE [n EXCEPT !.kids[Head(path)] = PutAt(@, Tail(path), new)]

Up(path, n) == SubSeq(path, 1, n)

(***************************************************************************)
(* raxLowWalk: how many characters of s were consumed (i), the node where  *)
(* the walk stopped (path), the position inside it when it is compressed   *)
(* (split) and the slot of the inline leaf it stopped at, or 0 (slot).     *)
(***************************************************************************)
RECURSIVE Walk(_, _, _, _)
Walk(h, s, path, i) ==
    LET stop(split, slot, j) == [path |-> path, i |-> j, split |-> split, slot |-> slot]
        follow(c, j) == IF c \in h.inl THEN stop(0, c, j)
                        ELSE Walk(h.kids[c], s, Append(path, c), j)
        room == IF Len(s) - i < Size(h) THEN Len(s) - i ELSE Size(h)
        same == CHOOSE m \in 0..room :
                   /\ \A k \in 1..m : h.chars[k] = s[i + k]
                   /\ m < room => h.chars[m + 1] # s[i + m + 1]
        edge == {c \in 1..Size(h) : h.chars[c] = s[i + 1]}
    IN  CASE Size(h) = 0 \/ i = Len(s)        -> stop(0, 0, i)
          [] OTHER ->
             IF h.iscompr
             THEN IF same # Size(h) THEN stop(same, 0, i + same) ELSE follow(1, i + same)
             ELSE IF edge = {} THEN stop(0, 0, i)
                  ELSE follow(CHOOSE c \in edge : TRUE, i + 1)

raxLowWalk(head, s) == Walk(head, s, <<>>, 0)

\* Mutant: a string that ends inside a compressed node is taken for its key.
raxFind_MidNode(t, s) ==
    LET w == raxLowWalk(t.head, s)
        h == NodeAt(t.head, w.path)
    IN  IF w.slot # 0 /\ w.i = Len(s) THEN h.kids[w.slot].inline
        ELSE IF w.i # Len(s) \/ ~h.iskey THEN raxNotFound
        ELSE h.val

raxFind(t, s) ==
    LET w == raxLowWalk(t.head, s)
        h == NodeAt(t.head, w.path)
    IN  IF w.slot # 0 /\ w.i = Len(s) THEN h.kids[w.slot].inline
        ELSE IF w.i # Len(s) \/ (h.iscompr /\ w.split # 0) \/ ~h.iskey THEN raxNotFound
        ELSE h.val

---------------------------------------------------------------------------
(* Adding children.                                                        *)

\* Mutant: a new edge goes behind all others.
raxNodeFindChildPos_Last(n, c) == Size(n) + 1

\* Where the edge c goes: after the edges that do not sort after it.
raxNodeFindChildPos(n, c) ==
    CHOOSE p \in 1..(Size(n) + 1) :
        /\ \A k \in 1..(p - 1) : n.chars[k] <= c
        /\ p <= Size(n) => n.chars[p] > c

\* The last slot leafbitmap describes moves out of its reach.
Spills(n, c) == raxNodeFindChildPos(n, c) <= InlineSlots /\ InlineSlots \in n.inl

raxMaterializeInlineLeaf(n, slot) ==
    [n EXCEPT !.kids[slot] = raxNewValueNode(@.inline), !.inl = @ \ {slot}]

\* n with the child kid behind the new edge c; the leaf bits behind it move up.
raxAddChildNoAlloc(n, c, kid) ==
    LET pos == raxNodeFindChildPos(n, c)
        m == IF Spills(n, c) THEN raxMaterializeInlineLeaf(n, InlineSlots) ELSE n
    IN  [m EXCEPT !.chars = InsertAt(@, pos, c),
                  !.kids = InsertAt(@, pos, kid),
                  !.inl = {k \in @ : k < pos} \cup {k + 1 : k \in {l \in @ : l >= pos}}]

raxCompressNodeNoAlloc(n, s, kid) ==
    [n EXCEPT !.iscompr = TRUE, !.chars = s, !.kids = <<kid>>]

(***************************************************************************)
(* The loop that inserts the characters the walk did not consume, for at   *)
(* most fuel turns: fuel stands for the allocation that fails.  The result *)
(* is the new node, the nodes it added, and, when the loop ran out of      *)
(* memory, how many characters were still missing.                         *)
(***************************************************************************)
RECURSIVE Extend(_, _, _, _)
Extend(h, rest, data, fuel) ==
    LET done(n) == [node |-> n, nodes |-> 0, missing |-> 0, oom |-> FALSE]
        single == Len(rest) = 1
        pos == raxNodeFindChildPos(h, rest[1])
        spill == IF Spills(h, rest[1]) THEN 1 ELSE 0
        part == IF Len(rest) < NodeMax THEN Len(rest) ELSE NodeMax
        piece == IF Size(h) = 0 /\ ~single THEN part ELSE 1
        sub == Extend(raxNewNode, SubSeq(rest, piece + 1, Len(rest)), data, fuel - 1)
    IN  CASE fuel = 0     -> [node |-> h, nodes |-> 0, missing |-> Len(rest), oom |-> TRUE]
          [] rest = <<>>  -> done(raxSetData(h, data))
          [] OTHER ->
             IF Size(h) = 0 /\ ~single
             THEN IF part = Len(rest)
                  THEN done([raxCompressNodeNoAlloc(h, rest, Inline(data)) EXCEPT !.inl = {1}])
                  ELSE [sub EXCEPT !.nodes = @ + 1,
                                   !.node = raxCompressNodeNoAlloc(h, Up(rest, part), @)]
             ELSE IF single /\ pos <= InlineSlots
                  THEN [done([raxAddChildNoAlloc(h, rest[1], Inline(data)) EXCEPT
                                 !.inl = @ \cup {pos}]) EXCEPT !.nodes = spill]
                  ELSE [sub EXCEPT !.nodes = @ + 1 + spill,
                                   !.node = raxAddChildNoAlloc(h, rest[1], @)]

---------------------------------------------------------------------------
(* Removal.                                                                *)

raxRemoveChildAtPtr(n, c) ==
    IF n.iscompr
    THEN [n EXCEPT !.iscompr = FALSE, !.chars = <<>>, !.kids = <<>>, !.inl = {}]
    ELSE [n EXCEPT !.chars = RemoveAt(@, c), !.kids = RemoveAt(@, c),
                   !.inl = {k \in @ : k < c} \cup {k - 1 : k \in {l \in @ : l > c}}]

(***************************************************************************)
(* raxRemoveCleanup: the childless node at path is freed, and so is every  *)
(* ancestor whose only child it was and that is no key; the first that     *)
(* remains loses that child.  try says that it may now be recompressed.    *)
(***************************************************************************)
raxRemoveCleanup(t, path) ==
    IF path = <<>> THEN [tree |-> t, path |-> path, try |-> FALSE]
    ELSE LET keeps(n) == n.iskey \/ (~n.iscompr /\ Size(n) # 1)
             kept == CHOOSE k \in 0..(Len(path) - 1) :
                        /\ k = 0 \/ keeps(NodeAt(t.head, Up(path, k)))
                        /\ \A l \in (k + 1)..(Len(path) - 1) :
                              ~keeps(NodeAt(t.head, Up(path, l)))
             at == Up(path, kept)
             new == raxRemoveChildAtPtr(NodeAt(t.head, at), path[kept + 1])
         IN  [tree |-> [t EXCEPT !.head = PutAt(@, at, new),
                                 !.numnodes = @ - (Len(path) - kept)],
              path |-> at, try |-> Size(new) = 1 /\ ~new.iskey]

\* The nodes from h down that one compressed node could stand for.
RECURSIVE Chain(_)
Chain(h) == IF 1 \in h.inl \/ ~Chained(h.kids[1]) THEN <<h>>
            ELSE <<h>> \o Chain(h.kids[1])

Text(nodes) == FlattenSeq([k \in DOMAIN nodes |-> nodes[k].chars])

(***************************************************************************)
(* The recompression at the end of raxRemove.  The first scan measures the *)
(* chain up to NodeMax characters and sizes the new node; the second       *)
(* copies, frees and relinks without that limit, so a longer chain is      *)
(* copied past the end of the new node's block.                            *)
(***************************************************************************)
Recompress(t, path, oom) ==
    LET top == CHOOSE k \in 0..Len(path) :
                  /\ \A l \in k..(Len(path) - 1) : Chained(NodeAt(t.head, Up(path, l)))
                  /\ k > 0 => ~Chained(NodeAt(t.head, Up(path, k - 1)))
        chain == Chain(NodeAt(t.head, Up(path, top)))
        fits == CHOOSE n \in 1..Len(chain) :
                   /\ Len(Text(Up(chain, n))) <= NodeMax
                   /\ n < Len(chain) => Len(Text(Up(chain, n + 1))) > NodeMax
        new == [raxNewNode EXCEPT !.iscompr = TRUE,
                                  !.chars = Text(chain),
                                  !.kids = Last(chain).kids,
                                  !.inl = Last(chain).inl]
    IN  IF fits = 1 \/ oom THEN t
        ELSE IF fits < Len(chain) THEN [t EXCEPT !.broken = TRUE]
        ELSE [t EXCEPT !.head = PutAt(@, Up(path, top), new),
                       !.numnodes = @ + 1 - Len(chain)]

(***************************************************************************)
(* raxRemove: the tree, what the call returns (0 or 1) and *old.           *)
(***************************************************************************)
Removed(t, s, oom) ==
    LET w == raxLowWalk(t.head, s)
        h == NodeAt(t.head, w.path)
        leaf == w.slot # 0
        new == IF leaf THEN raxRemoveChildAtPtr(h, w.slot)
               ELSE [h EXCEPT !.iskey = FALSE, !.val = NULL]
        t1 == [t EXCEPT !.head = PutAt(@, w.path, new), !.numele = @ - 1]
        clean == IF Size(new) = 0 /\ ~new.iskey THEN raxRemoveCleanup(t1, w.path)
                 ELSE [tree |-> t1, path |-> w.path, try |-> Size(new) = 1 /\ ~new.iskey]
    IN  IF raxFind(t, s) = raxNotFound
        THEN [tree |-> t, ret |-> 0, old |-> raxNotFound]
        ELSE [tree |-> IF clean.try THEN Recompress(clean.tree, clean.path, oom)
                       ELSE clean.tree,
              ret |-> 1,
              old |-> IF leaf THEN h.kids[w.slot].inline ELSE h.val]

---------------------------------------------------------------------------
(* Insertion.                                                              *)

\* ALGO 1: the walk stopped inside the compressed node h because of a
\* mismatch.  The node that replaces h, and the split node inside it.
SplitNode(h, j) ==
    LET post == SubSeq(h.chars, j + 2, Size(h))
        next == [raxNewNode EXCEPT !.chars = post, !.iscompr = Len(post) > 1,
                                   !.kids = h.kids, !.inl = h.inl]
        split == [raxNewNode EXCEPT !.chars = <<h.chars[j + 1]>>,
                                    !.kids = IF post = <<>> THEN h.kids ELSE <<next>>,
                                    !.inl = IF post = <<>> THEN h.inl ELSE {}]
    IN  [split |-> IF j = 0 THEN [split EXCEPT !.iskey = h.iskey, !.val = h.val] ELSE split,
         nodes |-> (IF j = 0 THEN 0 ELSE 1) + (IF post = <<>> THEN 0 ELSE 1)]

Trimmed(h, j, child) ==
    [h EXCEPT !.chars = Up(@, j), !.iscompr = j > 1, !.kids = <<child>>, !.inl = {}]

\* ALGO 2: the key ends inside the compressed node h.
SplitKey(h, j, data) ==
    Trimmed(h, j, [h EXCEPT !.chars = SubSeq(@, j + 1, Size(h)),
                            !.iscompr = Size(h) - j > 1,
                            !.iskey = TRUE, !.val = data])

(***************************************************************************)
(* raxGenericInsert.  oom names the allocation that fails, if any:         *)
(*   "materialize"    the node for an inline leaf that needs children      *)
(*   "data"           room for the value in an existing node               *)
(*   "split"          the nodes of ALGO 1 or 2                             *)
(*   "grow_existing"  the first turn of the loop that adds characters      *)
(*   "grow_fresh"     its second turn                                      *)
(*   "grow_twice"     the same, and the recompression of the clean-up      *)
(*   "spill"          the node for the leaf that leaves leafbitmap's reach *)
(*   "spill_moved"    the same, after the reallocation of the parent moved *)
(*                    it: the tree still refers to the old block           *)
(***************************************************************************)
Enomem(t) == [tree |-> t, ret |-> 0, old |-> raxNotFound, enomem |-> TRUE]

Exists(t, v) == [tree |-> t, ret |-> 0, old |-> v, enomem |-> FALSE]

Inserted(t) ==
    [tree |-> [t EXCEPT !.numele = @ + 1], ret |-> 1, old |-> raxNotFound, enomem |-> FALSE]

\* Mutant: the removal of the marked node is not made up for in numele.
UndoInsert_Uncompensated(t, path, s, twice) ==
    LET h == NodeAt(t.head, path)
        marked == [t EXCEPT !.head = PutAt(@, path, raxSetData(h, NULL))]
    IN  IF Size(h) # 0 THEN Enomem(t) ELSE Enomem(Removed(marked, s, twice).tree)

\* The code at the label oom, with h the node at path, which s leads to.  A
\* node without children is marked and removed even if it was a key before.
UndoInsert(t, path, s, twice) ==
    LET h == NodeAt(t.head, path)
        marked == [t EXCEPT !.head = PutAt(@, path, raxSetData(h, NULL)),
                            !.numele = @ + 1]
    IN  IF Size(h) # 0 THEN Enomem(t) ELSE Enomem(Removed(marked, s, twice).tree)

\* Mutant: a key that ends inside a compressed node is not counted.
InsertInside_Uncounted(t, w, data) ==
    [Inserted([t EXCEPT !.head = PutAt(@, w.path, SplitKey(NodeAt(@, w.path), w.split, data)),
                        !.numnodes = @ + 1]) EXCEPT !.tree.numele = t.numele]

InsertInside(t, w, data) ==
    Inserted([t EXCEPT !.head = PutAt(@, w.path, SplitKey(NodeAt(@, w.path), w.split, data)),
                       !.numnodes = @ + 1])

\* The characters of s after the first i go below the node at path.
InsertRest(t, path, s, i, data, oom) ==
    LET h == NodeAt(t.head, path)
        rest == SubSeq(s, i + 1, Len(s))
        fuel == CASE oom = "grow_existing" -> 0
                  [] oom \in {"grow_fresh", "grow_twice"} -> 1
                  [] OTHER                 -> Len(rest) + 1
        x == Extend(h, rest, data, fuel)
        t1 == [t EXCEPT !.head = PutAt(@, path, x.node), !.numnodes = @ + x.nodes]
        reached == raxLowWalk(t1.head, Up(s, Len(s) - x.missing)).path
    IN  IF oom \in {"spill", "spill_moved"} /\ Spills(h, rest[1])
        THEN Enomem([t EXCEPT !.broken = oom = "spill_moved"])
        ELSE IF x.oom
        THEN UndoInsert(t1, reached, Up(s, Len(s) - x.missing), oom = "grow_twice")
        ELSE Inserted(t1)

raxGenericInsert(t, s, data, overwrite, oom) ==
    LET w == raxLowWalk(t.head, s)
        h == NodeAt(t.head, w.path)
        all == w.i = Len(s)
        sp == SplitNode(h, w.split)
        node == IF w.split = 0 THEN sp.split ELSE Trimmed(h, w.split, sp.split)
        put(n) == [t EXCEPT !.head = PutAt(@, w.path, n)]
    IN  CASE all /\ w.slot # 0 ->
               Exists(IF overwrite THEN put([h EXCEPT !.kids[w.slot] = Inline(data)]) ELSE t,
                      h.kids[w.slot].inline)
          [] ~all /\ w.slot # 0 ->
               IF oom = "materialize" THEN Enomem(t)
               ELSE InsertRest([put(raxMaterializeInlineLeaf(h, w.slot)) EXCEPT !.numnodes = @ + 1],
                               Append(w.path, w.slot), s, w.i, data, oom)
          [] all /\ w.slot = 0 /\ (~h.iscompr \/ w.split = 0) ->
               IF oom = "data" /\ data # NULL /\ (~h.iskey \/ (h.val = NULL /\ overwrite))
               THEN Enomem(t)
               ELSE IF h.iskey
               THEN Exists(IF overwrite THEN put(raxSetData(h, data)) ELSE t, h.val)
               ELSE Inserted(put(raxSetData(h, data)))
          [] all /\ w.slot = 0 /\ h.iscompr /\ w.split # 0 ->
               IF oom = "split" THEN Enomem(t) ELSE InsertInside(t, w, data)
          [] ~all /\ w.slot = 0 /\ h.iscompr ->
               IF oom = "split" THEN Enomem(t)
               ELSE InsertRest([put(node) EXCEPT !.numnodes = @ + sp.nodes],
                               IF w.split = 0 THEN w.path ELSE Append(w.path, 1),
                               s, w.i, data, oom)
          [] OTHER -> InsertRest(t, w.path, s, w.i, data, oom)

---------------------------------------------------------------------------
(* Release.                                                                *)

(***************************************************************************)
(* raxRecursiveFree: the values handed to the free callback, children from *)
(* the last to the first and the node itself at the end, and the number of *)
(* nodes released.                                                         *)
(***************************************************************************)
RECURSIVE raxRecursiveFree(_)
raxRecursiveFree(n) ==
    LET count == Len(n.kids)
        one(k) == IF k \in n.inl
                  THEN [vals |-> IF n.kids[k].inline = NULL THEN <<>> ELSE <<n.kids[k].inline>>,
                        nodes |-> 0]
                  ELSE raxRecursiveFree(n.kids[k])
        parts == [k \in 1..count |-> one(count + 1 - k)]
        own == IF n.iskey /\ n.val # NULL THEN <<n.val>> ELSE <<>>
    IN  [vals |-> FlattenSeq([k \in 1..count |-> parts[k].vals]) \o own,
         nodes |-> FoldLeft(LAMBDA a, p : a + p.nodes, 1, parts)]

=============================================================================
