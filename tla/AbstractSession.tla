--------------------------- MODULE AbstractSession ---------------------------
(***************************************************************************)
(* What a plugin session promises (spec section 4.1), with no RPCs,        *)
(* deadlines or payloads: a session joins the workflow once -- finished,  *)
(* with nothing exchanged, or with the shared snapshot -- or fails; a     *)
(* joined plugin works, possibly failing; then Complete either returns    *)
(* nil, which it may only do once the server has recorded the plugin's    *)
(* outcome, or fails.  The server records at most one outcome, and it is  *)
(* the plugin's.  A failed Complete may still be recorded later.          *)
(***************************************************************************)
VARIABLES
  phase,     \* "idle" | "joined" | "worked" | "done" | "connectFailed" | "completeFailed"
  finished,  \* Connect reported that the workflow had already completed
  snapshot,  \* "none" | "shared": the shared data the plugin holds
  failed,    \* the plugin's work failed
  record     \* "none" | "Success" | "Error": the server's record

avars == <<phase, finished, snapshot, failed, record>>

AInit ==
  /\ phase = "idle" /\ finished = FALSE /\ snapshot = "none"
  /\ failed = FALSE /\ record = "none"

ConnectFails ==
  /\ phase = "idle" /\ phase' = "connectFailed"
  /\ UNCHANGED <<finished, snapshot, failed, record>>

ConnectFinished ==
  /\ phase = "idle" /\ phase' = "joined" /\ finished' = TRUE
  /\ UNCHANGED <<snapshot, failed, record>>

ConnectJoined ==
  /\ phase = "idle" /\ phase' = "joined" /\ snapshot' = "shared"
  /\ UNCHANGED <<finished, failed, record>>

\* A finished session skips the work, which then cannot fail.
Work ==
  /\ phase = "joined" /\ phase' = "worked"
  /\ failed' \in IF finished THEN {FALSE} ELSE BOOLEAN
  /\ UNCHANGED <<finished, snapshot, record>>

Record ==
  /\ phase \in {"worked", "completeFailed"} /\ record = "none"
  /\ record' = IF failed THEN "Error" ELSE "Success"
  /\ UNCHANGED <<phase, finished, snapshot, failed>>

CompleteOk ==
  /\ phase = "worked" /\ record # "none" /\ phase' = "done"
  /\ UNCHANGED <<finished, snapshot, failed, record>>

CompleteFails ==
  /\ phase = "worked" /\ phase' = "completeFailed"
  /\ UNCHANGED <<finished, snapshot, failed, record>>

ANext ==
  \/ ConnectFails \/ ConnectFinished \/ ConnectJoined \/ Work
  \/ Record \/ CompleteOk \/ CompleteFails

\* Every call the plugin makes returns: Connect, the work and Complete
\* each end.
ASpec ==
  /\ AInit /\ [][ANext]_avars
  /\ WF_avars(ConnectFails \/ ConnectFinished \/ ConnectJoined)
  /\ WF_avars(Work)
  /\ WF_avars(CompleteOk \/ CompleteFails)
==============================================================================
