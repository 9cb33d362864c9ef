--------------------------- MODULE MCAdminSession ---------------------------
(***************************************************************************)
(* Two requests at a time, two secrets, two batches, one failure.          *)
(***************************************************************************)
EXTENDS AdminSession
=============================================================================
