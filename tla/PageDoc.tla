------------------------------ MODULE PageDoc ------------------------------
(***************************************************************************)
(* What live mode promises about the developer's document.  A session is   *)
(* opened on one element, or beside one; its variants come all at once;    *)
(* and it ends with one of them, or with the document as it was before.    *)
(* Nothing else is ever changed.                                           *)
(***************************************************************************)
EXTENDS Sequences, SequencesExt, Integers

CONSTANTS Elements, N, Sessions   \* how many elements and variants; ids

VARIABLES doc   \* blocks: an element's markup, or a session open on it

Nothing == <<0, 0>>
Plain(c) == [s |-> 0, markup |-> c, n |-> 0]
Absent(s) == \A i \in DOMAIN doc : doc[i].s # s

Open(s, i) ==
  /\ Absent(s) /\ doc[i].s = 0
  /\ doc' = [doc EXCEPT ![i].s = s]

OpenBeside(s, i) ==
  /\ Absent(s)
  /\ doc' = InsertAt(doc, i, [s |-> s, markup |-> Nothing, n |-> 0])

Fill(i) ==
  /\ doc[i].s # 0 /\ doc[i].n = 0
  /\ doc' = [doc EXCEPT ![i].n = N]

Keep(i, v) ==
  /\ doc[i].s # 0 /\ doc[i].n = N
  /\ doc' = [doc EXCEPT ![i] = Plain(<<doc[i].s, v>>)]

Drop(i) ==
  /\ doc[i].s # 0
  /\ doc' = IF doc[i].markup = Nothing THEN RemoveAt(doc, i)
            ELSE [doc EXCEPT ![i] = Plain(doc[i].markup)]

Init == doc = [e \in 1 .. Elements |-> Plain(<<0, e>>)]

Next ==
  \/ \E s \in Sessions, i \in DOMAIN doc : Open(s, i)
  \/ \E s \in Sessions, i \in 1 .. Len(doc) + 1 : OpenBeside(s, i)
  \/ \E i \in DOMAIN doc : Fill(i) \/ Drop(i)
  \/ \E i \in DOMAIN doc, v \in 1 .. N : Keep(i, v)

Spec == Init /\ [][Next]_doc
=============================================================================
