-------------------------------- MODULE Rax --------------------------------
(***************************************************************************)
(* The radix tree of server/rax.c in use: one client inserts, removes and  *)
(* frees, and between changes runs one of the two iterators over the tree  *)
(* (the iterators are the unsafe ones: the tree is changed only through    *)
(* the iterator while one is positioned).                                  *)
(***************************************************************************)
EXTENDS RaxIterator

CONSTANTS
    Keys,       \* the keys the client inserts and removes
    Probes,     \* the strings it seeks and looks up
    Values,     \* the values, NULL among them
    OomSites,   \* the allocations that may fail (see raxGenericInsert)
    MaxLost     \* bound: keys lost in the life of one rax

ASSUME ClientConstants == NULL \in Values /\ Keys \subseteq Probes /\ MaxLost \in Nat

VARIABLES
    tree,       \* the rax: head, numele, numnodes, broken
    lost,       \* history: keys that failed insertions removed
    it,         \* the raxIterator; NoIter when there is none
    walked,     \* it was last placed by raxRandomWalk
    dit,        \* the raxDefragIterator
    seen,       \* history: what dit emitted so far
    out         \* what the last insertion or removal returned

vars == <<tree, lost, it, walked, dit, seen, out>>

NoDefrag == [raxDefragStart EXCEPT !.frames = <<>>, !.eof = TRUE]

Nothing == [ret |-> 0, old |-> raxNotFound, enomem |-> FALSE]

Init == /\ tree = raxNew /\ lost = 0 /\ it = NoIter /\ walked = FALSE
        /\ dit = NoDefrag /\ seen = <<>> /\ out = Nothing

\* Every key below n with the place of its value: a node, or a slot of one.
RECURSIVE EntriesBelow(_, _, _)
EntriesBelow(n, path, key) ==
    LET e(k, slot, v) == [key |-> k, node |-> path, slot |-> slot, val |-> v]
    IN  (IF n.iskey THEN {e(key, 0, n.val)} ELSE {})
        \cup {e(key \o EdgeText(n, c), c, n.kids[c].inline) : c \in n.inl}
        \cup UNION {EntriesBelow(n.kids[c], Append(path, c), key \o EdgeText(n, c)) :
                     c \in DOMAIN n.kids \ n.inl}

Entries(head) == EntriesBelow(head, <<>>, <<>>)

Contents(head) ==
    LET e == Entries(head)
    IN  [k \in {x.key : x \in e} |-> (CHOOSE x \in e : x.key = k).val]

---------------------------------------------------------------------------
(* The client's changes.                                                   *)

\* No iterator is in use: the client may change the tree.
Quiet == it = NoIter /\ dit = NoDefrag /\ ~tree.broken

\* Of a tree that is broken only that is kept.
Left(t) == IF t.broken THEN [raxNew EXCEPT !.broken = TRUE] ELSE t

Change(r) == /\ Quiet
             /\ tree' = Left(r.tree)
             /\ out' = [ret |-> r.ret, old |-> r.old, enomem |-> r.enomem]
             /\ UNCHANGED <<it, walked, dit, seen>>

Missing(r) == IF r.enomem THEN DOMAIN Contents(tree.head) \ DOMAIN Contents(r.tree.head) ELSE {}

Insert(r) == /\ Change(r)
             /\ lost' = lost + Cardinality(Missing(r))
             /\ lost' <= MaxLost

Fault == OomSites \cup {"none"}

raxInsert(k, v) ==
    \E r \in {raxGenericInsert(tree, k, v, TRUE, oom) : oom \in Fault} : Insert(r)

raxTryInsert(k, v) ==
    \E r \in {raxGenericInsert(tree, k, v, FALSE, oom) : oom \in Fault} : Insert(r)

raxRemove(k) ==
    /\ UNCHANGED lost
    /\ \E oom \in {FALSE, "recompress" \in OomSites} :
          LET r == Removed(tree, k, oom)
          IN  Change([tree |-> r.tree, ret |-> r.ret, old |-> r.old, enomem |-> FALSE])

\* raxFreeWithCallback, and a new rax after it.
raxFreeWithCallback ==
    /\ lost' = 0
    /\ Change([tree |-> raxNew, ret |-> 0, old |-> raxNotFound, enomem |-> FALSE])

---------------------------------------------------------------------------
(* The iterator.                                                           *)

Started == it = raxStart
Positioned == it.rt /\ ~Started

Move(x, w) == /\ it' = x /\ walked' = w /\ UNCHANGED <<tree, lost, dit, seen>>

StartIterator == Quiet /\ Move(raxStart, FALSE) /\ out' = Nothing

Sought(op, k) == IF op = "^" THEN raxSeekFirst(tree, it) ELSE raxSeek(tree, it, op, k)

\* The assert of raxSeek that the greatest node of a tree with elements is a key.
AssertHolds(op, x) == IF op = "$" /\ ~x.eof THEN OnKey(tree.head, x) ELSE TRUE

\* raxSeek clears what the iterator held, so seeking again is no other case.
Seek(op, k) == Started /\ UNCHANGED out /\ AssertHolds(op, Sought(op, k)) /\ Move(Sought(op, k), FALSE)

\* numele says that an empty tree has elements.
SeekAborts == /\ Started /\ ~AssertHolds("$", Sought("$", <<>>))
              /\ tree' = Left([tree EXCEPT !.broken = TRUE]) /\ it' = NoIter
              /\ UNCHANGED <<lost, walked, dit, seen, out>>

raxNext == /\ Positioned /\ UNCHANGED out
           /\ Move(raxIteratorNextStep(tree.head, it, FALSE), walked)

\* After a random walk the cached child number may be that of a leaf the walk
\* has left, and a step back would start from it; the client seeks first.
raxPrev == /\ Positioned /\ ~walked /\ UNCHANGED out
           /\ Move(raxIteratorPrevStep(tree.head, it, FALSE), walked)

\* A second walk could end only where the first could have ended.
RandomWalk == /\ Positioned /\ ~it.eof /\ ~walked /\ UNCHANGED out
              /\ \E x \in raxRandomWalk(tree, it) : Move(x, TRUE)

SetData(v) == /\ Positioned /\ ~it.eof
              /\ LET r == raxIteratorSetData(tree, it, v)
                 IN  tree' = r.tree /\ it' = r.it
              /\ UNCHANGED <<lost, walked, dit, seen, out>>

raxStop == it.rt /\ Move(NoIter, FALSE) /\ UNCHANGED out

---------------------------------------------------------------------------
(* The defragmentation iterator.                                           *)

DefragStart == /\ Quiet /\ dit' = raxDefragStart /\ seen' = <<>> /\ out' = Nothing
               /\ UNCHANGED <<tree, lost, it, walked>>

Emitted(d) == [kind |-> d.item.kind, node |-> d.item.node, slot |-> d.item.slot, key |-> d.key]

DefragNext == /\ ~dit.eof
              /\ LET d == raxDefragNext(tree.head, dit)
                 IN  /\ dit' = d
                     /\ seen' = IF d.eof THEN seen ELSE Append(seen, Emitted(d))
              /\ UNCHANGED <<tree, lost, it, walked, out>>

DefragReplaceData(v) ==
    /\ ~dit.eof /\ dit.item.kind = "data"
    /\ LET r == raxDefragReplaceData(tree, dit, v)
       IN  tree' = r.tree /\ dit' = r.dit
    /\ UNCHANGED <<lost, it, walked, seen, out>>

raxDefragStop == /\ dit # NoDefrag /\ dit' = NoDefrag /\ seen' = <<>>
                 /\ UNCHANGED <<tree, lost, it, walked, out>>

\* What a broken tree does is undefined: no promise of it is left to check.
Undefined == tree.broken /\ UNCHANGED vars

Next ==
    \/ \E k \in Keys, v \in Values : raxInsert(k, v) \/ raxTryInsert(k, v)
    \/ \E k \in Keys : raxRemove(k)
    \/ raxFreeWithCallback
    \/ StartIterator \/ SeekAborts
    \/ \E op \in Ops, k \in Probes : Seek(op, k)
    \/ raxNext \/ raxPrev \/ RandomWalk \/ raxStop
    \/ \E v \in Values : SetData(v)
    \/ DefragStart \/ DefragNext \/ raxDefragStop
    \/ \E v \in Values \ {NULL} : DefragReplaceData(v)
    \/ Undefined

Spec == Init /\ [][Next]_vars

---------------------------------------------------------------------------
(* Reference definitions: what a tree means.                               *)

\* The places of the nodes below n, which is at path.
RECURSIVE Nodes(_, _)
Nodes(n, path) ==
    {[node |-> path, at |-> n]}
        \cup UNION {Nodes(n.kids[c], Append(path, c)) : c \in DOMAIN n.kids \ n.inl}

(***************************************************************************)
(* Type invariant: what the code's asserts take for granted.  A node is a  *)
(* leaf only if it is a key (or the head), edges are sorted, a compressed  *)
(* node has at least two characters and one child, and only slots that     *)
(* leafbitmap can describe hold a value.                                   *)
(***************************************************************************)
TypeOK ==
    /\ tree.numele \in Nat /\ tree.numnodes \in Nat
    /\ \A x \in Nodes(tree.head, <<>>) :
          LET n == x.at
          IN  /\ Size(n) = 0 => n.iskey \/ x.node = <<>>
              /\ n.inl \subseteq 1..InlineSlots
              /\ IF n.iscompr THEN Size(n) \in 2..NodeMax /\ Len(n.kids) = 1
                 ELSE /\ Len(n.kids) = Size(n)
                      /\ \A a, b \in 1..Size(n) : a < b => n.chars[a] < n.chars[b]

(***************************************************************************)
(* Every lookup in a tree that is not broken finds what the tree holds:    *)
(* the walk that stops in the middle of a compressed node, at an inline    *)
(* leaf or at an edge that is not there never mistakes one string for      *)
(* another, and no key is held twice (raxFind, raxLowWalk).                *)
(***************************************************************************)
FindsExactly ==
    Quiet => LET c == Contents(tree.head)
    IN  /\ \A k \in Probes : raxFind(tree, k) = IF k \in DOMAIN c THEN c[k] ELSE raxNotFound
        /\ \A x, y \in Entries(tree.head) : x.key = y.key => x = y

(***************************************************************************)
(* The counters of a tree that is not broken, whatever was split, merged,  *)
(* spilled, undone or failed: numele is the number of keys and of those    *)
(* that failed insertions have removed, which it still counts; and         *)
(* raxFreeWithCallback releases every node numnodes counts (its assert     *)
(* numnodes == 0) and hands each value that is not NULL to the callback    *)
(* once.                                                                   *)
(***************************************************************************)
CountsExact ==
    Quiet => LET f == raxRecursiveFree(tree.head)
                 e == Entries(tree.head)
    IN  /\ tree.numele = Cardinality({x.key : x \in e}) + lost
        /\ f.nodes = tree.numnodes
        /\ Len(f.vals) = Cardinality({x \in e : x.val # NULL})
        /\ \A v \in Values \ {NULL} :
              Cardinality({k \in DOMAIN f.vals : f.vals[k] = v})
                  = Cardinality({x \in e : x.val = v})

(***************************************************************************)
(* A positioned iterator is where its key says: the node, the saved        *)
(* parents and the inline flag describe the one place of that key, and the *)
(* cached child number, unless a random walk left it behind, is unknown or *)
(* right (rax.h, node_child).                                              *)
(***************************************************************************)
CursorCoherent ==
    ~it.eof =>
        /\ it.stack = [k \in 1..Len(it.node) |-> Up(it.node, k - 1)]
        /\ \E x \in Entries(tree.head) :
              /\ x.key = it.key /\ x.node = it.node /\ x.val = it.data
              /\ it.inline <=> x.slot # 0
              /\ it.inline => it.child \in {0, x.slot}
        /\ ~it.inline /\ ~walked => it.child = 0 \/ (it.node # <<>> /\ it.child = Last(it.node))

(***************************************************************************)
(* raxSeek and raxCompare agree: a seek lands on a key that raxCompare     *)
(* says is on the right side of the string, with no such key in between,   *)
(* and reaches the end only when there is none.                            *)
(***************************************************************************)
SeekMeetsCompare ==
    Started => LET keys == DOMAIN Contents(tree.head) IN \A op \in LtOps \cup GtOps, k \in Probes :
        LET x == raxSeek(tree, it, op, k)
            fits == {l \in keys : raxCompare([key |-> l], op, k)}
        IN  IF x.eof THEN fits = {}
            ELSE /\ x.key \in fits
                 /\ \A l \in fits : raxCompare(x, IF op \in GtOps THEN "<=" ELSE ">=", l)

(***************************************************************************)
(* A full defragmentation walk emits every node and every value that is    *)
(* not NULL exactly once, each with its own key, even when values are      *)
(* replaced on the way (raxDefragNext, raxDefragReplaceData).              *)
(***************************************************************************)
DefragComplete ==
    dit.eof /\ dit # NoDefrag =>
        /\ \A a, b \in DOMAIN seen : seen[a] = seen[b] => a = b
        /\ ToSet(seen) =
              {[kind |-> "node", node |-> x.node, slot |-> 0, key |-> PathKey(tree.head, x.node)] :
                  x \in Nodes(tree.head, <<>>)}
              \cup {[kind |-> "data", node |-> x.node, slot |-> x.slot, key |-> x.key] :
                  x \in {y \in Entries(tree.head) : y.val # NULL}}

Map == INSTANCE RaxMap WITH
    m <- Contents(tree.head),
    cur <- [at |-> CASE tree.broken                    -> "undefined"
                     [] ~it.rt /\ ~tree.broken         -> "idle"
                     [] Started                        -> "started"
                     [] it.rt /\ it # raxStart /\ it.eof -> "eof"
                     [] OTHER                          -> "key",
            key |-> IF it.eof THEN <<>> ELSE it.key,
            fresh |-> it.just],
    out <- out

(***************************************************************************)
(* The first fault of the code: an insertion below a key that no other key *)
(* extends runs out of memory before its first character is in place; the  *)
(* way back takes that key for a node of its own and removes it.           *)
(***************************************************************************)
TakesKey ==
    /\ it = NoIter /\ it' = NoIter
    /\ out' = [Nothing EXCEPT !.enomem = TRUE]
    /\ LET c == Contents(tree.head)
       IN  \E k \in DOMAIN c, s \in Keys :
              /\ IsStrictPrefix(k, s)
              /\ \A l \in DOMAIN c : ~IsStrictPrefix(k, l)
              /\ Contents(tree'.head) = Map!Without(c, k)
    /\ lost' = lost + 1

(***************************************************************************)
(* The other three break the tree: a spill that fails when the parent has  *)
(* moved, a recompression of more characters than a node can hold, and a   *)
(* seek to the end of a tree whose last key was lost.                      *)
(***************************************************************************)
Breaks ==
    /\ ~tree.broken /\ tree'.broken
    /\ \/ out'.enomem /\ "spill_moved" \in OomSites
       \/ \E k \in DOMAIN Contents(tree.head) : Len(k) > NodeMax
       \/ lost > 0 /\ Entries(tree.head) = {}

(***************************************************************************)
(* Refinement: the tree and its iterator are the ordered map and cursor of *)
(* RaxMap, but for the steps of the faults named above: no other failed    *)
(* allocation changes the map, no operation disturbs another key, and what *)
(* a lost key leaves behind is a map again.                                *)
(***************************************************************************)
IsOrderedMap == Map!Init /\ [][Map!Next \/ TakesKey \/ Breaks]_Map!mvars

(***************************************************************************)
(* The tree after every operation, undone and failed ones included, as     *)
(* long as no fault has broken it (Breaks): it is well formed, finds       *)
(* exactly its keys, and its counters are exact but for the lost keys      *)
(* (TakesKey), which numele goes on counting.                              *)
(***************************************************************************)
TreeInv == TypeOK /\ FindsExactly /\ CountsExact

(***************************************************************************)
(* The iterator, wherever seeks, steps, walks and changes have taken it.   *)
(***************************************************************************)
IteratorInv == CursorCoherent /\ SeekMeetsCompare /\ DefragComplete

=============================================================================
