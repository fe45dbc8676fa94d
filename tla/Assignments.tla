---------------------------- MODULE Assignments ----------------------------
(***************************************************************************)
(* The assignment of one evaluator to one evaluation cycle, as the request *)
(* handlers of routes/assignments.py and routes/cycles.py drive it through *)
(* PostgreSQL (READ COMMITTED, one transaction per request).               *)
(*                                                                         *)
(* A request reads the row without locking it and decides on what it read  *)
(* (Begin...); its UPDATE, INSERT or DELETE waits for whoever holds the    *)
(* row (Flush...); the commit makes it visible and frees the row           *)
(* (Commit...).  Authentication updates the row of the caller's own        *)
(* session and keeps it locked until the commit, so requests of one        *)
(* session are serial while those of different sessions interleave.        *)
(* A request its guards refuse changes nothing and is left out.            *)
(***************************************************************************)
EXTENDS StateMachine, Naturals, Sequences, FiniteSets

CONSTANTS Evaluators,        \* login sessions of the assigned evaluator
          Reviewers,         \* sessions of the assigned reviewer or an admin
          Managers,          \* sessions holding cycle:manage
          Ids,               \* identifiers the assignment's rows may receive
          NoId,              \* the id of a row not inserted yet
          Values,            \* answers a form may carry
          EmptyDraft,        \* the JSON object {}
          Deadline,          \* the cycle's deadline_at
          EffectiveDeadline, \* effective_deadline(...): after the make-up days
          MakeupEnabled,     \* the cycle's makeup_enabled
          MaxTime,           \* bound on the clock
          MaxSubmissions     \* bound on the submissions begun for one row

ASSUME IdsAssumption == NoId \notin Ids
ASSUME DraftAssumption == EmptyDraft \in Values
ASSUME TimeAssumption == /\ Deadline \in Nat \ {0}
                         /\ EffectiveDeadline \in Nat
                         /\ Deadline <= EffectiveDeadline
                         /\ MaxTime \in Nat \ {0}
                         /\ MakeupEnabled \in BOOLEAN
                         /\ MaxSubmissions \in Nat

VARIABLES clock,   \* the wall clock
          rows,    \* rows[i]: the committed columns of assignment i, if live
          live,    \* the assignments that have a committed row
          used,    \* the identifiers already given out
          subs,    \* subs[i]: inputs of i's committed submissions, in order
          audit,   \* audit rows committed for the roster and for returns
          phase,   \* phase[s]: how far the request of session s has come
          req      \* req[s]: that request

vars == <<clock, rows, live, used, subs, audit, phase, req>>
table == <<rows, live, used, subs, audit>>

Sessions == Evaluators \cup Reviewers \cup Managers

\* Timestamps are positive; 0 stands for the NULL of submitted_at.
Times == 0 .. MaxTime

Row == [state : AssignmentStates, draft : Values, submitted_at : Times,
        late_flag : BOOLEAN, archived : BOOLEAN]

\* Slip: a row inserted without its default state.
UndefaultedRow == [state |-> "", draft |-> EmptyDraft, submitted_at |-> 0,
                   late_flag |-> FALSE, archived |-> FALSE]

NewRow == [state |-> "NOT_STARTED", draft |-> EmptyDraft, submitted_at |-> 0,
           late_flag |-> FALSE, archived |-> FALSE]

Updates == {"save", "submit", "return", "approve"}
Ops == Updates \cup {"add", "drop"}

\* A request: the row it read and the row its handler turned that into.
Requests == [op : Ops, id : Ids \cup {NoId}, was : Row, new : Row]
NoRequest == [op |-> "none", id |-> NoId, was |-> NewRow, new |-> NewRow]

Init ==
  /\ clock = 1
  /\ rows = [i \in Ids |-> NewRow]
  /\ live = {} \/ \E i \in Ids : live = {i}
  /\ used = live
  /\ subs = [i \in Ids |-> <<>>]
  /\ audit = [add |-> Cardinality(live), drop |-> 0, return |-> 0]
  /\ phase = [s \in Sessions |-> "idle"]
  /\ req = [s \in Sessions |-> NoRequest]

-----------------------------------------------------------------------------
\* Reading and deciding.

Begin(s, op, i, was, new) ==
  /\ phase[s] = "idle"
  /\ phase' = [phase EXCEPT ![s] = "read"]
  /\ req' = [req EXCEPT ![s] = [op |-> op, id |-> i, was |-> was, new |-> new]]
  /\ UNCHANGED <<clock, table>>

\* Slip: work under review may still be edited.
SaveUnlessArchived(state) == state # "ARCHIVED"

CanSave(state) == state = "IN_PROGRESS" \/ CanTransition(state, "IN_PROGRESS")

BeginSave(s, i, v) ==
  /\ s \in Evaluators
  /\ CanSave(rows[i].state)
  /\ Begin(s, "save", i, rows[i],
           [rows[i] EXCEPT !.state = "IN_PROGRESS", !.draft = v])

\* Slip: work may be handed in twice.
SubmitUnlessArchived(state) == state # "ARCHIVED"

\* ensure_transition after the implied first save of an untouched row.
CanSubmit(state) == state = "NOT_STARTED" \/ CanTransition(state, "SUBMITTED")

\* Slip: the deadline itself is late.
LateFromDeadlineOn(now) == now >= Deadline
\* Slip: late only after the make-up days.
LateAfterMakeup(now) == now > EffectiveDeadline

IsLate(now) == now > Deadline

InWindow(now) == ~IsLate(now) \/ (MakeupEnabled /\ now <= EffectiveDeadline)

BeginSubmit(s, i, v) ==
  /\ s \in Evaluators
  /\ Len(subs[i]) < MaxSubmissions
  /\ CanSubmit(rows[i].state)
  /\ InWindow(clock)
  /\ Begin(s, "submit", i, rows[i],
           [rows[i] EXCEPT !.state = "SUBMITTED", !.draft = v,
                           !.submitted_at = clock, !.late_flag = IsLate(clock)])

BeginReturn(s, i) ==
  /\ s \in Reviewers
  /\ CanTransition(rows[i].state, "RETURNED_FOR_REVISION")
  /\ Begin(s, "return", i, rows[i],
           [rows[i] EXCEPT !.state = "RETURNED_FOR_REVISION"])

BeginApprove(s, i) ==
  /\ s \in Reviewers
  /\ CanTransition(rows[i].state, "ARCHIVED")
  /\ Begin(s, "approve", i, rows[i],
           [rows[i] EXCEPT !.state = "ARCHIVED", !.archived = TRUE])

\* Bound: every insert under way finds an identifier.
IdLeft == Cardinality({t \in Sessions : req[t].op = "add"}) < Cardinality(Ids \ used)

\* add_assignment looks for a row of the pair before it inserts one.
BeginAdd(s) ==
  /\ s \in Managers
  /\ live = {}
  /\ IdLeft
  /\ Begin(s, "add", NoId, NewRow, NewRow)

BeginDrop(s, i) ==
  /\ s \in Managers
  /\ rows[i].state = "NOT_STARTED"
  /\ Begin(s, "drop", i, rows[i], rows[i])

-----------------------------------------------------------------------------
\* Writing, under the row lock.

\* A flushed request holds its row, and an inserted one its unique key, until
\* it ends.
Holding(i) == \E t \in Sessions : phase[t] = "flushed" /\ req[t].id = i

Inserting == \E t \in Sessions : phase[t] = "flushed" /\ req[t].op = "add"

\* The ORM names in the UPDATE only the columns whose value the handler changed.
Changes(r) == r.new # r.was

Flush(s) == /\ phase[s] = "read"
            /\ phase' = [phase EXCEPT ![s] = "flushed"]
            /\ UNCHANGED <<clock, table>>

\* Slip: the row count of an UPDATE is not looked at.
RowNotCounted(r) == TRUE

\* The UPDATE has to match one row, or the ORM raises StaleDataError.
RowFound(r) == r.id \in live

FlushUpdate(s) ==
  /\ req[s].op \in Updates
  /\ Changes(req[s])
  /\ RowFound(req[s])
  /\ ~Holding(req[s].id)
  /\ Flush(s)
  /\ UNCHANGED req

\* The insert of a second row waits for any writer of the first one and for any
\* other insert; uq_assignment_cycle_evaluator then admits at most one row.
KeyFree == ~Inserting /\ \A i \in live : ~Holding(i)

\* Slip: the unique constraint is missing.
NoConstraint == TRUE

UniqueKey == live = {}

FlushAdd(s) ==
  /\ req[s].op = "add"
  /\ KeyFree
  /\ UniqueKey
  /\ Flush(s)
  /\ \E i \in Ids \ used : req' = [req EXCEPT ![s].id = i]

\* A DELETE that no longer finds its row is no error: the ORM only warns.
FlushDrop(s) ==
  /\ req[s].op = "drop"
  /\ req[s].id \in live => ~Holding(req[s].id)
  /\ Flush(s)
  /\ UNCHANGED req

Finish(s) == /\ phase' = [phase EXCEPT ![s] = "idle"]
             /\ req' = [req EXCEPT ![s] = NoRequest]

\* A save that repeats the stored draft of work in progress writes nothing.
CommitUnchanged(s) ==
  /\ phase[s] = "read"
  /\ req[s].op \in Updates
  /\ ~Changes(req[s])
  /\ Finish(s)
  /\ UNCHANGED <<clock, table>>

\* Slip: an UPDATE without a row is never given up.
RefusedInsert(r) == r.op = "add" /\ KeyFree /\ ~UniqueKey

Refused(r) == \/ r.op \in Updates /\ Changes(r) /\ ~RowFound(r)
              \/ r.op = "add" /\ KeyFree /\ ~UniqueKey

\* StaleDataError and IntegrityError are answered 500 and rolled back.
Fail(s) ==
  /\ phase[s] = "read"
  /\ Refused(req[s])
  /\ Finish(s)
  /\ UNCHANGED <<clock, table>>

-----------------------------------------------------------------------------
\* Ending.

\* Slip: submit forgets to store the inputs as the draft.
MergeButDraft(now, was, new) ==
  [now EXCEPT !.state = new.state, !.submitted_at = new.submitted_at,
              !.late_flag = new.late_flag, !.archived = new.archived]

Pick(now, was, new) == IF new # was THEN new ELSE now

\* What the row holds after an UPDATE of the changed columns: the others keep
\* what their last writer put there, be it a request this one never saw.
Merge(now, was, new) ==
  [state        |-> Pick(now.state, was.state, new.state),
   draft        |-> Pick(now.draft, was.draft, new.draft),
   submitted_at |-> Pick(now.submitted_at, was.submitted_at, new.submitted_at),
   late_flag    |-> Pick(now.late_flag, was.late_flag, new.late_flag),
   archived     |-> Pick(now.archived, was.archived, new.archived)]

\* Slip: drops leave no audit row.
AuditedUnlessDrop(op) == IF op \in {"add", "return"} THEN [audit EXCEPT ![op] = @ + 1] ELSE audit

\* Submissions and approvals are audited too; subs and archived show them.
Audited(op) == IF op \in DOMAIN audit THEN [audit EXCEPT ![op] = @ + 1] ELSE audit

CommitUpdate(s) ==
  LET r == req[s] IN
  /\ phase[s] = "flushed"
  /\ r.op \in Updates
  /\ rows' = [rows EXCEPT ![r.id] = Merge(@, r.was, r.new)]
  /\ subs' = IF r.op = "submit" THEN [subs EXCEPT ![r.id] = Append(@, r.new.draft)]
                                ELSE subs
  /\ audit' = Audited(r.op)
  /\ Finish(s)
  /\ UNCHANGED <<clock, live, used>>

CommitAdd(s) ==
  /\ phase[s] = "flushed"
  /\ req[s].op = "add"
  /\ rows' = [rows EXCEPT ![req[s].id] = NewRow]
  /\ live' = live \cup {req[s].id}
  /\ used' = used \cup {req[s].id}
  /\ audit' = Audited("add")
  /\ Finish(s)
  /\ UNCHANGED <<clock, subs>>

\* submissions.assignment_id is ON DELETE CASCADE.
CommitDrop(s) ==
  /\ phase[s] = "flushed"
  /\ req[s].op = "drop"
  /\ live' = live \ {req[s].id}
  /\ rows' = [rows EXCEPT ![req[s].id] = NewRow]
  /\ subs' = [subs EXCEPT ![req[s].id] = <<>>]
  /\ audit' = Audited("drop")
  /\ Finish(s)
  /\ UNCHANGED <<clock, used>>

\* Any request may end in an exception (persist_submission rejects a number that
\* is not finite, the client goes away): the transaction is rolled back.
Rollback(s) == /\ phase[s] # "idle"
               /\ Finish(s)
               /\ UNCHANGED <<clock, table>>

\* The API process stops, and with it every open transaction.
Restart == /\ \E s \in Sessions : phase[s] # "idle"
           /\ phase' = [s \in Sessions |-> "idle"]
           /\ req' = [s \in Sessions |-> NoRequest]
           /\ UNCHANGED <<clock, table>>

Tick == /\ clock < MaxTime
        /\ clock' = clock + 1
        /\ UNCHANGED <<table, phase, req>>

-----------------------------------------------------------------------------

Start(s) == \/ \E i \in live : \/ \E v \in Values : BeginSave(s, i, v) \/ BeginSubmit(s, i, v)
                               \/ BeginReturn(s, i)
                               \/ BeginApprove(s, i)
                               \/ BeginDrop(s, i)
            \/ BeginAdd(s)

Write(s) == FlushUpdate(s) \/ FlushAdd(s) \/ FlushDrop(s) \/ Fail(s)

End(s) == CommitUnchanged(s) \/ CommitUpdate(s) \/ CommitAdd(s) \/ CommitDrop(s)

Next == \/ \E s \in Sessions : Start(s) \/ Write(s) \/ End(s) \/ Rollback(s)
        \/ Restart
        \/ Tick

Spec == Init /\ [][Next]_vars

\* The event loop runs every coroutine that is ready, and PostgreSQL serves the
\* waiters of a row lock in the order they came.
Fairness == \A s \in Sessions : SF_vars(Write(s)) /\ WF_vars(End(s))

FairSpec == Spec /\ Fairness
-----------------------------------------------------------------------------
(* Correctness: whatever the interleaving of any number of sessions *)

\* Every variable has its type.
TypeOK ==
  /\ clock \in 1 .. MaxTime
  /\ rows \in [Ids -> Row]
  /\ live \subseteq used
  /\ used \subseteq Ids
  /\ subs \in [Ids -> Seq(Values)]
  /\ audit \in [add : Nat, drop : Nat, return : Nat]
  /\ phase \in [Sessions -> {"idle", "read", "flushed"}]
  /\ req \in [Sessions -> Requests \cup {NoRequest}]

HandedIn == {"SUBMITTED", "RETURNED_FOR_REVISION", "ARCHIVED"}

\* An assignment a reviewer can see as submitted, returned or archived has a
\* submission with its inputs on record: the state change of submit() and the
\* rows of persist_submission become visible together, and no late request
\* that decided on an older row brings such a state back without one.
HandedInHasSubmission ==
  \A i \in live : rows[i].state \in HandedIn => subs[i] # <<>>

\* No submission outlives or precedes its assignment, whatever the order in
\* which a submit and a drop of the same row reach the database.
NoOrphanSubmission == \A i \in Ids : subs[i] # <<>> => i \in live

\* A submission stamped after the deadline carries late_flag, and none is
\* stamped outside the make-up window, even where concurrent submits each wrote
\* only the columns they changed.
LateIsFlagged ==
  \A i \in live : /\ rows[i].submitted_at > Deadline => rows[i].late_flag
                  /\ rows[i].submitted_at # 0 => InWindow(rows[i].submitted_at)

\* The evaluator has one assignment in the cycle, although add_assignment looks
\* for an existing row without locking anything.
OneRowPerEvaluator == \A i, j \in live : i = j

\* No change of the roster escapes the audit log.  Two managers who drop the same
\* row both write a PARTICIPANT_ADD_DROP row, so drops are counted at least once.
RosterIsAudited == /\ audit.add = Cardinality(used)
                   /\ audit.drop >= Cardinality(used \ live)

\* Every request is answered: none waits for a row lock for ever.
RequestsEnd == \A s \in Sessions : phase[s] # "idle" ~> phase[s] = "idle"

-----------------------------------------------------------------------------
(* Correctness where each actor works from a single session *)

\* The evaluator's assignment seen without identifiers.
Current == CHOOSE i \in live : TRUE
CurrentState == IF live = {} THEN "NONE" ELSE rows[Current].state
CurrentDraft == IF live = {} THEN EmptyDraft ELSE rows[Current].draft
CurrentSubs == IF live = {} THEN <<>> ELSE subs[Current]

Lifecycle == INSTANCE AssignmentLifecycle
               WITH state <- CurrentState, draft <- CurrentDraft, handed <- CurrentSubs

\* With one evaluator session and one reviewer session the handlers, their
\* unlocked reads included, behave like the state machine taken atomically.
ImplementsLifecycle == Lifecycle!Spec

\* While work waits for review, its draft is what was last handed in, so the
\* form the reviewer opens shows the inputs the score was computed from.
DraftIsSubmitted ==
  \A i \in live : rows[i].state \in {"SUBMITTED", "ARCHIVED"} =>
                    rows[i].draft = subs[i][Len(subs[i])]

\* late_flag never marks work whose submitted_at is within the deadline.
FlagMeansLate ==
  \A i \in live : rows[i].late_flag => rows[i].submitted_at > Deadline

\* Each return is answered by one submission at most: the work is under review
\* or archived exactly when there is one submission more than returns.
SubmissionsAnswerReturns ==
  \A i \in live :
    Len(subs[i]) = audit.return
                     + IF rows[i].state \in {"SUBMITTED", "ARCHIVED"} THEN 1 ELSE 0

-----------------------------------------------------------------------------
(* What the code says of itself, and two reviewer sessions break *)

\* state_machine.py: "ARCHIVED is terminal."
ArchivedIsTerminal ==
  [][\A i \in live : rows[i].state = "ARCHIVED" => i \in live' /\ rows'[i].state = "ARCHIVED"]_vars
=============================================================================
