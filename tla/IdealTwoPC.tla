----------------------------- MODULE IdealTwoPC -----------------------------
(***************************************************************************)
(* What two-party computation promises, with all of the cryptography gone: *)
(* the evaluator learns a circuit's output for the two parties' inputs,    *)
(* once.  Between parties that follow the protocol the functionality       *)
(* neither aborts nor changes its answer.                                  *)
(***************************************************************************)
CONSTANTS
  Answers(_),   \* the answers that are right for a request
  Undecided

VARIABLES
  request,      \* a circuit and the parties' inputs
  result        \* what the evaluator's full_protocol returned

Init == result = Undecided

Decide ==
  /\ result = Undecided
  /\ result' \in Answers(request)
  /\ UNCHANGED request

(* Nothing but a right answer, once. *)
Safety == Init /\ [][Decide]_<<request, result>>

(* And the answer does come. *)
Spec == Safety /\ WF_<<request, result>>(Decide)
=============================================================================
