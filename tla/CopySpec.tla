------------------------------ MODULE CopySpec ------------------------------
(***************************************************************************)
(* What a game copy promises, without queue, buffers, requests or split    *)
(* files: the files of the listing reach the destination one after the     *)
(* other, each as a growing prefix of its source, and the copy reports     *)
(* success only when all of them are whole.  A copier that may take the    *)
(* end of a file too early (MayMiss) says which ones: those are short.     *)
(***************************************************************************)
EXTENDS Integers, Sequences

CONSTANTS MaxWrite,      \* the largest number of units one write may add
          MayMiss        \* whether the end of a file may be missed

VARIABLES source,        \* the content of each file of the listing
          dest,          \* what of it is at the destination
          short,         \* the files whose end was missed
          status         \* "copying", "ok" or "failed"

specVars == <<source, dest, short, status>>

Whole(e) == dest[e] = source[e]
Over(e)  == Whole(e) \/ e \in short

SpecInit ==
    /\ dest = [e \in DOMAIN source |-> << >>]
    /\ short = {} /\ status = "copying"

\* One write: some units are added to the first file that is not over, or to a short one.
Deliver ==
    /\ status = "copying"
    /\ \E e \in DOMAIN source :
         /\ \A d \in 1 .. e - 1 : Over(d)
         /\ \E n \in Len(dest[e]) + 1 .. Len(dest[e]) + MaxWrite :
              /\ n <= Len(source[e])
              /\ dest' = [dest EXCEPT ![e] = SubSeq(source[e], 1, n)]
    /\ UNCHANGED <<source, short, status>>

\* The end of a file is missed.
Miss ==
    /\ MayMiss /\ status = "copying"
    /\ \E e \in DOMAIN source : ~Whole(e) /\ short' = short \cup {e}
    /\ UNCHANGED <<source, dest, status>>

Succeed ==
    /\ status = "copying" /\ \A e \in DOMAIN source : Over(e)
    /\ status' = "ok"
    /\ UNCHANGED <<source, dest, short>>

Fail ==
    /\ status = "copying"
    /\ status' = "failed"
    /\ UNCHANGED <<source, dest, short>>

SpecNext == Deliver \/ Miss \/ Succeed \/ Fail

CopySpec == SpecInit /\ [][SpecNext]_specVars
=============================================================================
