--------------------------- MODULE MCLiveOverlay ---------------------------
(* One element, and either two sessions and one fault or one session and   *)
(* two faults, of two variants each: in a JSX project with hot updates,    *)
(* whose elements all look different, and in an HTML project without,      *)
(* whose elements look alike.                                              *)
EXTENDS LiveOverlay

MCProjects ==
  {[jsx |-> TRUE, hmr |-> TRUE, alike |-> FALSE],
   [jsx |-> FALSE, hmr |-> FALSE, alike |-> TRUE]}
MCPlaces == {"after"}
=============================================================================
