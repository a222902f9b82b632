----------------------------- MODULE RunStates -----------------------------
(***************************************************************************)
(* The life cycle of a run: engine/states.py.                              *)
(***************************************************************************)
EXTENDS Integers

LiveStates == {"queued", "preparing", "image_build", "base_run", "head_run",
               "probing", "adjudicating", "rendering"}

TERMINAL_STATES == {"done", "failed", "cancelled"}

RunState == LiveStates \cup TERMINAL_STATES

\* The place of a state in ORDER.  FAILED and CANCELLED are not in ORDER; like
\* DONE they are the end of a run.
Position(state) ==
    CASE state = "queued"       -> 0
      [] state = "preparing"    -> 1
      [] state = "image_build"  -> 2
      [] state = "base_run"     -> 3
      [] state = "head_run"     -> 4
      [] state = "probing"      -> 5
      [] state = "adjudicating" -> 6
      [] state = "rendering"    -> 7
      [] OTHER                  -> 8

\* Seeded fault: the end of a run is not checked for.
CanTransitionAnywhere(current, target) ==
    \/ target \in {"failed", "cancelled"}
    \/ current \in {"failed", "cancelled"}
    \/ Position(target) > Position(current)

\* can_transition: forward along ORDER, or into a terminal state.
CanTransition(current, target) ==
    /\ current \notin TERMINAL_STATES
    /\ \/ target \in {"failed", "cancelled"}
       \/ Position(target) > Position(current)
============================================================================
