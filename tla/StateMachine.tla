---------------------------- MODULE StateMachine ----------------------------
(***************************************************************************)
(* The assignment state machine of services/state_machine.py.              *)
(***************************************************************************)

AssignmentStates ==
  {"NOT_STARTED", "IN_PROGRESS", "SUBMITTED", "RETURNED_FOR_REVISION", "ARCHIVED"}

\* Slip: a draft may be returned.
WithReturnOfDrafts ==
  {<<"NOT_STARTED", "IN_PROGRESS">>, <<"IN_PROGRESS", "SUBMITTED">>,
   <<"IN_PROGRESS", "RETURNED_FOR_REVISION">>,
   <<"SUBMITTED", "RETURNED_FOR_REVISION">>, <<"SUBMITTED", "ARCHIVED">>,
   <<"RETURNED_FOR_REVISION", "IN_PROGRESS">>}

\* ARCHIVED has no way out.
AllowedTransitions ==
  {<<"NOT_STARTED", "IN_PROGRESS">>,
   <<"IN_PROGRESS", "SUBMITTED">>,
   <<"SUBMITTED", "RETURNED_FOR_REVISION">>,
   <<"SUBMITTED", "ARCHIVED">>,
   <<"RETURNED_FOR_REVISION", "IN_PROGRESS">>}

CanTransition(current, target) == <<current, target>> \in AllowedTransitions
=============================================================================
