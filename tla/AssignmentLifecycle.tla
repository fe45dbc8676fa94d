------------------------ MODULE AssignmentLifecycle ------------------------
(***************************************************************************)
(* What one evaluation assignment promises its users, every request taken  *)
(* as a single step: the state machine is followed, the draft is what the  *)
(* evaluator last sent, and one submission is recorded for each time the   *)
(* work is handed in.                                                      *)
(***************************************************************************)
EXTENDS StateMachine, Sequences

CONSTANTS Values,      \* the answers an evaluator may send
          EmptyDraft   \* the draft nobody saved yet: the JSON object {}

VARIABLES state,       \* assignments.state, or "NONE" where there is no row
          draft,       \* assignments.draft_values
          handed       \* the inputs of the recorded submissions, in order

vars == <<state, draft, handed>>

Init == state \in {"NONE", "NOT_STARTED"} /\ draft = EmptyDraft /\ handed = <<>>

\* The roster changes only around work that has not started.
Add  == state = "NONE" /\ state' = "NOT_STARTED" /\ UNCHANGED <<draft, handed>>
Drop == state = "NOT_STARTED" /\ state' = "NONE" /\ UNCHANGED <<draft, handed>>

\* A save starts or resumes the work, and may be repeated.
Save == /\ state = "IN_PROGRESS" \/ CanTransition(state, "IN_PROGRESS")
        /\ state' = "IN_PROGRESS"
        /\ draft' \in Values
        /\ UNCHANGED handed

\* Submitting untouched work implies its first save.
Submit == /\ state = "NOT_STARTED" \/ CanTransition(state, "SUBMITTED")
          /\ state' = "SUBMITTED"
          /\ draft' \in Values
          /\ handed' = Append(handed, draft')

\* The reviewer returns the work or archives it.
Review == /\ state = "SUBMITTED"
          /\ \E target \in AssignmentStates :
               CanTransition(state, target) /\ state' = target
          /\ UNCHANGED <<draft, handed>>

Next == Add \/ Drop \/ Save \/ Submit \/ Review

Spec == Init /\ [][Next]_vars
=============================================================================
