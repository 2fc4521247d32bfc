------------------------------- MODULE RaxMap -------------------------------
(***************************************************************************)
(* What server/rax.h promises: a map from keys to values and a cursor that *)
(* steps through its keys in lexicographic order.  Nothing here knows of   *)
(* nodes, compression or inline leaves.                                    *)
(***************************************************************************)
EXTENDS Integers, Sequences

CONSTANTS Keys, Values, Probes

VARIABLES
    m,      \* the map: a function from the keys present to their values
    cur,    \* the cursor: idle, on a key, or past the end; fresh after a seek
    out     \* what the last insertion or removal returned

mvars == <<m, cur, out>>

Nothing == [ret |-> 0, old |-> "notfound", enomem |-> FALSE]

Idle == [at |-> "idle", key |-> <<>>, fresh |-> FALSE]
Fresh == [Idle EXCEPT !.at = "started"]
End(fresh) == [at |-> "eof", key |-> <<>>, fresh |-> fresh]
On(k, fresh) == [at |-> "key", key |-> k, fresh |-> fresh]

Less(a, b) ==
    \E n \in 0..Len(a) :
        /\ n < Len(b) /\ SubSeq(a, 1, n) = SubSeq(b, 1, n)
        /\ n = Len(a) \/ a[n + 1] < b[n + 1]

\* The least and the greatest key of S, a cursor; the end when S is empty.
First(S, fresh) == IF S = {} THEN End(fresh)
                   ELSE On(CHOOSE k \in S : \A l \in S \ {k} : Less(k, l), fresh)
Final(S, fresh) == IF S = {} THEN End(fresh)
                   ELSE On(CHOOSE k \in S : \A l \in S \ {k} : Less(l, k), fresh)

Above(S, k) == {l \in S : Less(k, l)}
Below(S, k) == {l \in S : Less(l, k)}

Init == m = [k \in {} |-> 0] /\ cur = Idle /\ out = Nothing

With(f, k, v) == [l \in DOMAIN f \cup {k} |-> IF l = k THEN v ELSE f[l]]
Without(f, k) == [l \in DOMAIN f \ {k} |-> f[l]]

\* The operations on a map f: the map after them and what they return.
Inserted(f, k, v, overwrite) ==
    IF k \notin DOMAIN f THEN [map |-> With(f, k, v), out |-> [Nothing EXCEPT !.ret = 1]]
    ELSE [map |-> IF overwrite THEN With(f, k, v) ELSE f, out |-> [Nothing EXCEPT !.old = f[k]]]

Removed(f, k) ==
    IF k \notin DOMAIN f THEN [map |-> f, out |-> Nothing]
    ELSE [map |-> Without(f, k), out |-> [Nothing EXCEPT !.ret = 1, !.old = f[k]]]

\* The map changes only while no cursor is out.
Change == /\ cur = Idle /\ cur' = Idle
          /\ LET f == m
                 r == [map |-> m', out |-> out']
             IN  \/ \E k \in Keys, v \in Values, o \in BOOLEAN : r = Inserted(f, k, v, o)
                 \/ \E k \in Keys : r = Removed(f, k)
                 \/ r = [map |-> [k \in {} |-> 0], out |-> Nothing]

\* An insertion that runs out of memory changes nothing.
InsertFails == cur = Idle /\ out' = [Nothing EXCEPT !.enomem = TRUE] /\ UNCHANGED <<m, cur>>

Sought(S, op, k) ==
    CASE op = "="  -> First(S \cap {k}, TRUE)
      [] op = ">"  -> First(Above(S, k), TRUE)
      [] op = ">=" -> First(Above(S, k) \cup (S \cap {k}), TRUE)
      [] op = "<"  -> Final(Below(S, k), TRUE)
      [] op = "<=" -> Final(Below(S, k) \cup (S \cap {k}), TRUE)
      [] op = "^"  -> First(S, TRUE)
      [] op = "$"  -> Final(S, TRUE)

Start == cur = Idle /\ cur' = Fresh /\ out' = Nothing /\ UNCHANGED m

Seek == /\ cur = Fresh /\ UNCHANGED <<m, out>>
        /\ LET S == DOMAIN m
           IN  \E op \in {"=", ">", ">=", "<", "<=", "^", "$"}, k \in Probes :
                  cur' = Sought(S, op, k)

\* The step after a seek stays; the end is final.
Step(to) ==
    /\ cur.at \in {"eof", "key"} /\ UNCHANGED out
    /\ cur' = CASE cur.at = "eof" -> cur
                [] cur.at = "key" /\ cur.fresh  -> [cur EXCEPT !.fresh = FALSE]
                [] cur.at = "key" /\ ~cur.fresh -> to
    /\ UNCHANGED m

Forward == Step(First(Above(DOMAIN m, cur.key), FALSE))
Back == Step(Final(Below(DOMAIN m, cur.key), FALSE))

Jump == /\ cur.at = "key" /\ cur'.at = "key" /\ UNCHANGED out
        /\ \E k \in DOMAIN m : cur' = On(k, cur.fresh)
        /\ UNCHANGED m

SetData(v) == cur.at = "key" /\ UNCHANGED <<cur, out>> /\ m' = [m EXCEPT ![cur.key] = v]

Stop == cur' = Idle /\ out' \in {out, Nothing} /\ UNCHANGED m

\* The defragmentation iterator replaces a value.
Relocate == /\ cur = Idle /\ UNCHANGED cur /\ out' = Nothing
            /\ \E k \in DOMAIN m, v \in Values : m[k] # "null" /\ m' = [m EXCEPT ![k] = v]

Next ==
    \/ Change \/ InsertFails
    \/ Start \/ Seek \/ Forward \/ Back \/ Jump \/ Stop \/ Relocate
    \/ \E v \in Values : SetData(v)

Spec == Init /\ [][Next]_mvars
=============================================================================
