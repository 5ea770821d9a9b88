------------------------------ MODULE EndToEnd ------------------------------
(***************************************************************************)
(* The content of a file that is kept in fragments: the fragments, each a  *)
(* sequence of units, one after the other.  A unit's place is the pair of  *)
(* its fragment and its index there; it follows the units of the fragments *)
(* before its own.  Counting those, instead of joining the fragments one   *)
(* by one, keeps the definition free of recursion.                         *)
(***************************************************************************)
EXTENDS Integers, Sequences, FiniteSets

Places(ss) == UNION {{k} \X DOMAIN ss[k] : k \in DOMAIN ss}

\* The number of units before fragment k.
StartOf(ss, k) == Cardinality({p \in Places(ss) : p[1] < k})

EndToEnd(ss) ==
    [n \in 1 .. Cardinality(Places(ss)) |->
        LET p == CHOOSE p \in Places(ss) : StartOf(ss, p[1]) + p[2] = n IN ss[p[1]][p[2]]]

\* Fragments of the given lengths; each unit is the pair of its fragment and its offset
\* there, both counted from 0.
Numbered(fs) == [k \in DOMAIN fs |-> [o \in 1 .. fs[k] |-> <<k - 1, o - 1>>]]
=============================================================================
