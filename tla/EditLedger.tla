----------------------------- MODULE EditLedger -----------------------------
(***************************************************************************)
(* What staged copy edits promise to the developer who makes them.  A      *)
(* saved edit waits until it is applied or thrown away; applying writes a  *)
(* set of waiting edits into the source, each exactly as it was last       *)
(* saved, and at the same moment they stop waiting; nothing else touches   *)
(* the source.  The promise is off once the ledger is broken.              *)
(***************************************************************************)
CONSTANTS Elements, Texts, Nothing

VARIABLES
  staged,   \* the edit that waits at each element
  text,     \* what the source says at each element
  broken    \* something happened that the program does not guard against

Init ==
  /\ staged = [e \in Elements |-> Nothing]
  /\ text \in [Elements -> Texts]
  /\ broken = FALSE

Waiting == {e \in Elements : staged[e] # Nothing}

Save(e) ==
  /\ \E t \in Texts : staged' = [staged EXCEPT ![e] = t]
  /\ UNCHANGED text

Apply(S) ==
  /\ text'   = [e \in Elements |-> IF e \in S THEN staged[e] ELSE text[e]]
  /\ staged' = [e \in Elements |-> IF e \in S THEN Nothing ELSE staged[e]]

Discard ==
  /\ staged' = [e \in Elements |-> Nothing]
  /\ UNCHANGED text

Kept ==
  \/ \E e \in Elements : Save(e)
  \/ \E S \in SUBSET Waiting : Apply(S)
  \/ Discard

Spec ==
  Init /\ [][(~broken /\ ~broken' /\ Kept) \/ broken']_<<staged, text, broken>>
=============================================================================
