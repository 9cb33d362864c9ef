---------------------------- MODULE MCLiveServer ----------------------------
(* LiveServer on a small instance: one session, two agents, one fault.     *)
EXTENDS LiveServer
=============================================================================
