---------------------------- MODULE TicketStates ----------------------------
(***************************************************************************)
(* The canonical states of a ticket, the transitions validate_transition   *)
(* admits, the states that are projected to the board, and the board       *)
(* column that shows each of them.                                         *)
(***************************************************************************)

CanonicalStates == {
    "draft", "needs_architecture", "ready_local", "implementing", "verifying",
    "local_review", "repairing", "accepted", "needs_human_test", "needs_checkpoint",
    "needs_triage", "blocked", "done", "rejected", "reverted"}

\* _ALLOWED
Allowed(s) ==
    CASE s = "draft" -> {"needs_architecture", "ready_local", "blocked", "rejected"}
      [] s = "needs_architecture" -> {"ready_local", "blocked", "rejected"}
      [] s = "ready_local" -> {"implementing", "blocked"}
      [] s = "implementing" -> {"verifying", "repairing", "needs_triage", "blocked"}
      [] s = "verifying" -> {"local_review", "accepted", "repairing", "needs_triage", "blocked"}
      [] s = "local_review" -> {"accepted", "repairing", "needs_checkpoint", "needs_triage"}
      [] s = "repairing" -> {"implementing", "needs_triage", "blocked"}
      [] s = "accepted" -> {"done", "needs_human_test", "needs_checkpoint", "reverted"}
      [] s = "needs_human_test" -> {"done", "repairing", "needs_checkpoint", "blocked"}
      [] s = "needs_checkpoint" -> {"done", "repairing", "needs_triage", "blocked", "rejected"}
      [] s = "needs_triage" -> {"ready_local", "local_review", "repairing", "needs_checkpoint",
                                "blocked", "rejected"}
      [] s = "blocked" -> {"draft", "ready_local", "needs_triage", "repairing", "rejected"}
      [] OTHER -> {}      \* done, rejected, reverted

\* Ledger._PROJECTABLE_STATES
Projectable ==
    CanonicalStates \ {"draft", "implementing", "verifying", "repairing"}

\* A repair an operator authorizes for a blocked ticket is projected too.
RetryEvent(from, to) == from = "blocked" /\ to = "repairing"

Columns == {"todo", "ready", "scheduled", "blocked", "done"}

\* The column of a card that Hermes does not execute (HermesBoardAdapter.set_state).
Column(s) ==
    CASE s = "done" -> "done"
      [] s \in {"blocked", "needs_triage", "needs_checkpoint", "needs_human_test"} -> "blocked"
      [] OTHER -> "scheduled"
=============================================================================
