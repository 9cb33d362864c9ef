--------------------------- MODULE MCManualEdits ---------------------------
(* ManualEdits on a small instance: two elements, each a chunk of its own. *)
EXTENDS ManualEdits
=============================================================================
