----------------------------- MODULE LiveStore -----------------------------
(***************************************************************************)
(* The durable record of a live-mode session (live-session-store.mjs).     *)
(* Every event is appended to the session's journal; the state of a        *)
(* session is the fold of its journal, and every reader refolds it, so a   *)
(* session is represented by the folded snapshot: whether and how it is    *)
(* over, and the one event that still waits for the agent.                 *)
(***************************************************************************)
CONSTANTS None   \* no pending event

BrowserEvents == {"generate", "steer", "accept", "discard"}

ASSUME StoreAssumption == None \notin BrowserEvents

\* Which of the phases before the end a session is in is only displayed.
Terminal == {"completed", "discarded"}
Phases   == {"open"} \cup Terminal

baseSnapshot == [phase |-> "open", pending |-> None]

applyEventKeepingFailed(snap, type) ==
  [phase   |-> CASE type = "complete"  -> "completed"
                 [] type = "discarded" -> "discarded"
                 [] OTHER              -> "open",
   pending |-> IF type \in BrowserEvents THEN type
               ELSE IF type = "agent_error" THEN snap.pending ELSE None]

\* A browser event takes the only slot for a pending event, a reply empties
\* it.  Whatever the phase was before, an event sets its own.
applyEvent(snap, type) ==
  [phase   |-> CASE type = "complete"  -> "completed"
                 [] type = "discarded" -> "discarded"
                 [] OTHER              -> "open",
   pending |-> IF type \in BrowserEvents THEN type ELSE None]
=============================================================================
