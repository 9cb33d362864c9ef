----------------------------- MODULE ConfigSync -----------------------------
(***************************************************************************)
(* What the panel promises about the sing-box configuration file, without  *)
(* saying how: the database is written table by table, and from time to    *)
(* time a configuration rendered from it is published as the live file.    *)
(* Every published configuration has passed `sing-box check`, shows each   *)
(* table as it was at some moment up to now, and never goes back to an     *)
(* older state of a table than the one already live.                       *)
(***************************************************************************)
EXTENDS Naturals

CONSTANTS
  MaxVersion,   \* bound on the number of committed writes per table
  Rejected,     \* the configurations `sing-box check` refuses
  None          \* no configuration file

Tables   == {"inbounds", "clients"}
Versions == 0 .. MaxVersion
Content  == [Tables -> Versions]

VARIABLES db, live
vars == <<db, live>>

Init ==
  /\ db = [t \in Tables |-> 0]
  /\ live \in {None, db} \ Rejected

\* A committed write to table t.
Write(t) ==
  /\ db[t] < MaxVersion
  /\ db' = [db EXCEPT ![t] = @ + 1]
  /\ UNCHANGED live

\* c may replace the live configuration.
Publishable(c) ==
  /\ c \in Content \ Rejected
  /\ \A t \in Tables : c[t] <= db[t]
  /\ live # None => \A t \in Tables : live[t] <= c[t]

Publish(c) ==
  /\ Publishable(c)
  /\ live' = c
  /\ UNCHANGED db

Next ==
  \/ \E t \in Tables : Write(t)
  \/ \E c \in Content : Publish(c)

Spec == Init /\ [][Next]_vars
=============================================================================
