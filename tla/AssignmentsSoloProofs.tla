----------------------- MODULE AssignmentsSoloProofs -----------------------
(***************************************************************************)
(* Proofs about Assignments where each actor works from a single session,  *)
(* for any number of rows, answers and instants.                           *)
(***************************************************************************)
EXTENDS AssignmentsProofs

\* The evaluator and the reviewer have one session each, which may be the same.
OneSessionEach == /\ \A s, t \in Evaluators : s = t
                  /\ \A s, t \in Reviewers : s = t

\* The roster is left alone, or the one who changes it works alone: an
\* administrator, who may act as evaluator and reviewer too.
ManagersAlone == \A m \in Managers, s \in Sessions : s = m

Open(s) == phase[s] # "idle"

\* A request is of a kind its session may send.
RolesKnown ==
  \A s \in Sessions : Open(s) =>
    /\ req[s].op \in {"save", "submit"} => s \in Evaluators
    /\ req[s].op \in {"return", "approve"} => s \in Reviewers
    /\ req[s].op \in {"add", "drop"} => s \in Managers

\* What a request read without a lock is still true: the other actor's guards
\* refuse the states in which this one writes.
FreshReads ==
  \A s \in Sessions :
    Open(s) /\ req[s].op \in Updates /\ req[s].id \in live => req[s].was = rows[req[s].id]

\* A reviewer decides on the work and does not touch it.
ReviewsKeep ==
  \A s \in Sessions :
    Open(s) /\ req[s].op \in {"return", "approve"} => req[s].new.draft = req[s].was.draft

ReadInv == RolesKnown /\ FreshReads /\ ReviewsKeep

-----------------------------------------------------------------------------
(* The steps *)

\* What a request carries when it starts.
LEMMA StartRoles ==
  ASSUME IInv, NEW s \in Sessions, Start(s)
  PROVE  \E op \in Ops, i \in live \cup {NoId}, was \in Row, new \in Row :
           /\ Begin(s, op, i, was, new)
           /\ op \in {"save", "submit"} => s \in Evaluators
           /\ op \in {"return", "approve"} => s \in Reviewers /\ new.draft = was.draft
           /\ op \in {"add", "drop"} => s \in Managers
           /\ op # "add" => i \in live /\ was = rows[i]
           /\ op = "drop" => rows[i].state = "NOT_STARTED"
<1>1. \A i \in live : rows[i] \in Row
  BY DEF IInv, TInv, TypeOK
<1>2. {"save", "submit", "return", "approve", "add", "drop"} \subseteq Ops
  BY DEF Ops, Updates
<1>3. CASE \E i \in live, v \in Values : BeginSave(s, i, v)
  <2>1. PICK i \in live, v \in Values : BeginSave(s, i, v)
    BY <1>3
  <2> DEFINE new == [rows[i] EXCEPT !.state = "IN_PROGRESS", !.draft = v]
  <2>2. new \in Row
    BY <1>1 DEF Row, AssignmentStates
  <2>3. Begin(s, "save", i, rows[i], new) /\ s \in Evaluators
    BY <2>1 DEF BeginSave
  <2> HIDE DEF new
  <2>4. QED
    BY <1>1, <1>2, <2>2, <2>3
<1>4. CASE \E i \in live, v \in Values : BeginSubmit(s, i, v)
  <2>1. PICK i \in live, v \in Values : BeginSubmit(s, i, v)
    BY <1>4
  <2> DEFINE new == [rows[i] EXCEPT !.state = "SUBMITTED", !.draft = v,
                       !.submitted_at = clock, !.late_flag = IsLate(clock)]
  <2>2. clock \in Times /\ IsLate(clock) \in BOOLEAN
    BY TimeFacts DEF IInv, TInv, TypeOK
  <2>3. new \in Row
    BY <1>1, <2>2 DEF Row, AssignmentStates
  <2>4. Begin(s, "submit", i, rows[i], new) /\ s \in Evaluators
    BY <2>1 DEF BeginSubmit
  <2> HIDE DEF new
  <2>5. QED
    BY <1>1, <1>2, <2>3, <2>4
<1>5. CASE \E i \in live : BeginReturn(s, i)
  <2>1. PICK i \in live : BeginReturn(s, i)
    BY <1>5
  <2> DEFINE new == [rows[i] EXCEPT !.state = "RETURNED_FOR_REVISION"]
  <2>2. new \in Row /\ new.draft = rows[i].draft
    BY <1>1 DEF Row, AssignmentStates
  <2>3. Begin(s, "return", i, rows[i], new) /\ s \in Reviewers
    BY <2>1 DEF BeginReturn
  <2> HIDE DEF new
  <2>4. QED
    BY <1>1, <1>2, <2>2, <2>3
<1>6. CASE \E i \in live : BeginApprove(s, i)
  <2>1. PICK i \in live : BeginApprove(s, i)
    BY <1>6
  <2> DEFINE new == [rows[i] EXCEPT !.state = "ARCHIVED", !.archived = TRUE]
  <2>2. new \in Row /\ new.draft = rows[i].draft
    BY <1>1 DEF Row, AssignmentStates
  <2>3. Begin(s, "approve", i, rows[i], new) /\ s \in Reviewers
    BY <2>1 DEF BeginApprove
  <2> HIDE DEF new
  <2>4. QED
    BY <1>1, <1>2, <2>2, <2>3
<1>7. CASE \E i \in live : BeginDrop(s, i)
  BY <1>1, <1>2, <1>7 DEF BeginDrop
<1>8. CASE BeginAdd(s)
  BY <1>2, <1>8, NewRowType DEF BeginAdd
<1>9. QED
  BY <1>3, <1>4, <1>5, <1>6, <1>7, <1>8 DEF Start

\* No request starts, and those that are still open carry what they carried.
RequestsKeep ==
  \A t \in Sessions : phase'[t] # "idle" =>
    /\ phase[t] # "idle"
    /\ req'[t].op = req[t].op /\ req'[t].was = req[t].was /\ req'[t].new = req[t].new
    /\ req'[t].op # "add" => req'[t].id = req[t].id

\* A step begins a request, commits one, or leaves the tables alone.
LEMMA StepKinds ==
  ASSUME IInv, [Next]_vars
  PROVE  \/ UNCHANGED table /\ RequestsKeep
         \/ \E s \in Sessions : \/ Start(s) \/ CommitUpdate(s)
                                \/ CommitAdd(s) \/ CommitDrop(s)
<1>1. ASSUME NEW s \in Sessions, FlushUpdate(s) \/ FlushAdd(s) \/ FlushDrop(s)
      PROVE  UNCHANGED table /\ RequestsKeep
  <2>1. /\ UNCHANGED table
        /\ phase[s] = "read" /\ phase' = [phase EXCEPT ![s] = "flushed"]
    BY <1>1 DEF FlushUpdate, FlushAdd, FlushDrop, Flush
  <2>2. req[s] \in Requests
    BY <2>1 DEF IInv, TInv, WellFormed
  <2>3. CASE FlushUpdate(s) \/ FlushDrop(s)
    BY <2>1, <2>3 DEF FlushUpdate, FlushDrop, IInv, TInv, TypeOK, RequestsKeep
  <2>4. CASE FlushAdd(s)
    BY <2>1, <2>2, <2>4 DEF FlushAdd, IInv, TInv, TypeOK, Requests, RequestsKeep
  <2>5. QED
    BY <1>1, <2>3, <2>4
<1>2. ASSUME NEW s \in Sessions, CommitUnchanged(s) \/ Fail(s) \/ Rollback(s)
      PROVE  UNCHANGED table /\ RequestsKeep
  <2>1. Finish(s) /\ UNCHANGED table
    BY <1>2 DEF CommitUnchanged, Fail, Rollback
  <2>2. \A t \in Sessions : phase'[t] # "idle" => phase[t] # "idle" /\ req'[t] = req[t]
    BY <2>1, FinishRequests DEF IInv
  <2>3. QED
    BY <2>1, <2>2 DEF RequestsKeep
<1>3. ASSUME Restart
      PROVE  UNCHANGED table /\ RequestsKeep
  BY <1>3 DEF Restart, RequestsKeep
<1>4. ASSUME Tick \/ UNCHANGED vars
      PROVE  UNCHANGED table /\ RequestsKeep
  BY <1>4 DEF Tick, vars, table, RequestsKeep
<1>5. QED
  BY <1>1, <1>2, <1>3, <1>4 DEF Next, Write, End

\* The request that commits is the only one whose request ends.
LEMMA CommitKeeps ==
  ASSUME IInv, NEW s \in Sessions, CommitUpdate(s) \/ CommitAdd(s) \/ CommitDrop(s)
  PROVE  RequestsKeep /\ \A t \in Sessions : phase'[t] # "idle" => t # s /\ req'[t] = req[t]
<1>1. Finish(s)
  BY DEF CommitUpdate, CommitAdd, CommitDrop
<1>2. \A t \in Sessions : phase'[t] # "idle" =>
        t # s /\ phase[t] # "idle" /\ req'[t] = req[t]
  BY <1>1, FinishRequests DEF IInv
<1>3. QED
  BY <1>2 DEF RequestsKeep
-----------------------------------------------------------------------------
(* Unlocked reads stay true *)

\* An UPDATE that overwrites what it read leaves what its handler decided.
LEMMA MergeOfRead ==
  ASSUME NEW was \in Row, NEW new \in Row
  PROVE  Merge(was, was, new) = new
  BY DEF Merge, Pick, Row

\* A request that commits finds the row as it read it, and nobody else is about
\* to change that row.
LEMMA CommitOfRead ==
  ASSUME IInv, ReadInv, OneSessionEach, NEW s \in Sessions, CommitUpdate(s)
  PROVE  /\ req[s].op \in Updates /\ req[s].id \in live /\ Decided(req[s])
         /\ req[s].was = rows[req[s].id]
         /\ req[s].new \in Row
         /\ \A i \in live : rows'[i] = IF i = req[s].id THEN req[s].new ELSE rows[i]
         /\ \A t \in Sessions \ {s} :
              Open(t) /\ req[t].op \in Updates => req[t].id # req[s].id
<1> DEFINE r == req[s]
<1>1. Flushed(s) /\ r.op \in Updates
  BY DEF CommitUpdate, Flushed
<1>2. r \in Requests /\ Decided(r) /\ r.id \in live /\ live \subseteq Ids
  BY <1>1 DEF Flushed, IInv, TInv, TypeOK, WellFormed, AllDecided, LockInv, UpdatedRowsStay
<1>3. r.was = rows[r.id] /\ r.was \in Row /\ r.new \in Row
  BY <1>1, <1>2 DEF Flushed, ReadInv, FreshReads, Open, Requests
<1>4. Merge(rows[r.id], r.was, r.new) = r.new
  BY <1>3, MergeOfRead
<1>5. \A i \in live : rows'[i] = IF i = r.id THEN r.new ELSE rows[i]
  BY <1>2, <1>4 DEF CommitUpdate, IInv, TInv, TypeOK
<1>6. ASSUME NEW t \in Sessions \ {s}, Open(t), req[t].op \in Updates, req[t].id = r.id
      PROVE  FALSE
  <2>1. req[t].was = r.was /\ Decided(req[t])
    BY <1>2, <1>3, <1>6 DEF ReadInv, FreshReads, IInv, AllDecided, Open
  <2>2. /\ req[t].op \in {"save", "submit"} => t \in Evaluators
        /\ req[t].op \in {"return", "approve"} => t \in Reviewers
    BY <1>6 DEF ReadInv, RolesKnown
  <2>3. /\ r.op \in {"save", "submit"} => s \in Evaluators
        /\ r.op \in {"return", "approve"} => s \in Reviewers
    BY <1>1 DEF ReadInv, RolesKnown, Open, Flushed
  <2>4. /\ r.op \in {"save", "submit"} => r.was.state # "SUBMITTED"
        /\ r.op \in {"return", "approve"} => r.was.state = "SUBMITTED"
        /\ req[t].op \in {"save", "submit"} => r.was.state # "SUBMITTED"
        /\ req[t].op \in {"return", "approve"} => r.was.state = "SUBMITTED"
    BY <1>2, <2>1 DEF Decided, CanSave, CanSubmit, CanTransition, AllowedTransitions
  <2>5. QED
    BY <1>1, <1>6, <2>2, <2>3, <2>4 DEF OneSessionEach, Updates
<1>7. QED
  BY <1>1, <1>2, <1>3, <1>5, <1>6

LEMMA InitReads == Init => ReadInv
  BY DEF Init, ReadInv, RolesKnown, FreshReads, ReviewsKeep, Open

\* Requests that stay what they were remain true while the rows they read stay.
LEMMA ReadsStay ==
  ASSUME ReadInv, RequestsKeep,
         \A t \in Sessions : phase'[t] # "idle" /\ req[t].op \in Updates
           /\ req[t].id \in live' => req[t].id \in live /\ rows'[req[t].id] = rows[req[t].id]
  PROVE  ReadInv'
<1>1. RolesKnown'
  BY DEF ReadInv, RolesKnown, RequestsKeep, Open
<1>2. FreshReads'
  <2> SUFFICES ASSUME NEW t \in Sessions, phase'[t] # "idle", req'[t].op \in Updates,
                      req'[t].id \in live'
               PROVE  req'[t].was = rows'[req'[t].id]
    BY DEF FreshReads, Open
  <2>1. /\ Open(t) /\ req[t].op \in Updates /\ req'[t].id = req[t].id
        /\ req'[t].was = req[t].was
    BY DEF RequestsKeep, Updates, Open
  <2>2. QED
    BY <2>1 DEF ReadInv, FreshReads
<1>3. ReviewsKeep'
  BY DEF ReadInv, ReviewsKeep, RequestsKeep, Open
<1>4. QED
  BY <1>1, <1>2, <1>3 DEF ReadInv

LEMMA NextReads ==
  ASSUME OneSessionEach, IInv, ReadInv, [Next]_vars
  PROVE  ReadInv'
<1>1. CASE UNCHANGED table /\ RequestsKeep
  BY <1>1, ReadsStay DEF table
<1>2. ASSUME NEW s \in Sessions, Start(s)
      PROVE  ReadInv'
  <2>1. PICK op \in Ops, i \in live \cup {NoId}, was \in Row, new \in Row :
           /\ Begin(s, op, i, was, new)
           /\ op \in {"save", "submit"} => s \in Evaluators
           /\ op \in {"return", "approve"} => s \in Reviewers /\ new.draft = was.draft
           /\ op \in {"add", "drop"} => s \in Managers
           /\ op # "add" => i \in live /\ was = rows[i]
           /\ op = "drop" => rows[i].state = "NOT_STARTED"
    BY <1>2, StartRoles
  <2>2. \A t \in Sessions :
          IF t = s THEN req'[t] = [op |-> op, id |-> i, was |-> was, new |-> new]
                   ELSE phase'[t] = phase[t] /\ req'[t] = req[t]
    BY <2>1 DEF Begin, IInv, TInv, TypeOK
  <2>3. UNCHANGED table
    BY <2>1 DEF Begin
  <2>4. RolesKnown'
    BY <2>1, <2>2 DEF ReadInv, RolesKnown, Open
  <2>5. FreshReads'
    BY <2>1, <2>2, <2>3 DEF ReadInv, FreshReads, Open, table, Updates
  <2>6. ReviewsKeep'
    BY <2>1, <2>2 DEF ReadInv, ReviewsKeep, Open
  <2>7. QED
    BY <2>4, <2>5, <2>6 DEF ReadInv
<1>3. ASSUME NEW s \in Sessions, CommitUpdate(s)
      PROVE  ReadInv'
  <2>1. RequestsKeep /\ \A t \in Sessions : phase'[t] # "idle" => t # s
    BY <1>3, CommitKeeps
  <2>2. live' = live
    BY <1>3 DEF CommitUpdate
  <2>3. \A t \in Sessions : phase'[t] # "idle" /\ req[t].op \in Updates =>
          req[t].id # req[s].id
    BY <1>3, <2>1, CommitOfRead DEF RequestsKeep, Open
  <2>4. \A i \in live : i # req[s].id => rows'[i] = rows[i]
    BY <1>3, CommitOfRead
  <2>5. QED
    BY <2>1, <2>2, <2>3, <2>4, ReadsStay
<1>4. ASSUME NEW s \in Sessions, CommitAdd(s)
      PROVE  ReadInv'
  <2>1. RequestsKeep
    BY <1>4, CommitKeeps
  <2>2. live' = {req[s].id} /\ req[s].id \notin used
    BY <1>4 DEF CommitAdd, Flushed, IInv, LockInv, InsertsExclusive
  <2>3. \A t \in Sessions : phase'[t] # "idle" /\ req[t].op \in Updates => req[t].id \in used
    BY <2>1 DEF RequestsKeep, IInv, TInv, WellFormed, Updates
  <2>4. QED
    BY <2>1, <2>2, <2>3, ReadsStay
<1>5. ASSUME NEW s \in Sessions, CommitDrop(s)
      PROVE  ReadInv'
  <2>1. RequestsKeep
    BY <1>5, CommitKeeps
  <2>2. live' \subseteq live /\ \A i \in live' : rows'[i] = rows[i]
    BY <1>5 DEF CommitDrop, IInv, TInv, TypeOK
  <2>3. QED
    BY <2>1, <2>2, ReadsStay
<1>6. QED
  BY <1>1, <1>2, <1>3, <1>4, <1>5, StepKinds
-----------------------------------------------------------------------------
(* What the rows show *)

SoloInv == ReadInv /\ DraftIsSubmitted /\ FlagMeansLate

\* A step that leaves the rows alone leaves what they show.
LEMMA RowsShow ==
  ASSUME DraftIsSubmitted, FlagMeansLate, live' \subseteq live,
         \A i \in live' : rows'[i] = rows[i] /\ subs'[i] = subs[i]
  PROVE  DraftIsSubmitted' /\ FlagMeansLate'
<1>1. DraftIsSubmitted'
  BY DEF DraftIsSubmitted
<1>2. FlagMeansLate'
  BY DEF FlagMeansLate
<1>3. QED
  BY <1>1, <1>2

\* The last element of an extended sequence is the one appended.
LEMMA LastOfAppend ==
  ASSUME NEW S, NEW q \in Seq(S), NEW v \in S
  PROVE  /\ Append(q, v) \in Seq(S)
         /\ Len(Append(q, v)) = Len(q) + 1
         /\ Append(q, v)[Len(Append(q, v))] = v
  BY AppendProperties

LEMMA UpdateShows ==
  ASSUME OneSessionEach, IInv, SoloInv, NEW s \in Sessions, CommitUpdate(s)
  PROVE  DraftIsSubmitted' /\ FlagMeansLate'
<1> DEFINE r == req[s]
<1>1. /\ r.op \in Updates /\ r.id \in live /\ Decided(r)
      /\ r.was = rows[r.id] /\ r.new \in Row
      /\ \A i \in live : rows'[i] = IF i = r.id THEN r.new ELSE rows[i]
  BY CommitOfRead DEF SoloInv
<1>2. live' = live /\ live \subseteq Ids /\ Open(s)
  BY DEF CommitUpdate, IInv, TInv, TypeOK, Open
<1>3. r.new.draft \in Values /\ subs[r.id] \in Seq(Values)
  BY <1>1, <1>2 DEF Row, IInv, TInv, TypeOK
<1>4. r.op \in {"return", "approve"} => r.new.draft = r.was.draft
  BY <1>2 DEF SoloInv, ReadInv, ReviewsKeep
<1>5. subs' = IF r.op = "submit" THEN [subs EXCEPT ![r.id] = Append(@, r.new.draft)]
                                 ELSE subs
  BY DEF CommitUpdate
<1>6. \A i \in live : i # r.id => subs'[i] = subs[i]
  BY <1>2, <1>5 DEF IInv, TInv, TypeOK
<1> HIDE DEF r
<1>7. DraftIsSubmitted'
  <2>1. CASE r.op = "submit"
    <3>1. subs'[r.id] = Append(subs[r.id], r.new.draft)
      BY <1>1, <1>2, <1>5, <2>1 DEF IInv, TInv, TypeOK
    <3>2. subs'[r.id][Len(subs'[r.id])] = r.new.draft
      BY <1>3, <3>1, LastOfAppend
    <3>3. QED
      BY <1>1, <1>2, <1>6, <3>2 DEF SoloInv, DraftIsSubmitted
  <2>2. CASE r.op = "save" \/ r.op = "return"
    <3>1. r.new.state \notin {"SUBMITTED", "ARCHIVED"} /\ subs' = subs
      BY <1>1, <1>5, <2>2 DEF Decided
    <3>2. QED
      BY <1>1, <1>2, <3>1 DEF SoloInv, DraftIsSubmitted
  <2>3. CASE r.op = "approve"
    <3>1. r.was.state = "SUBMITTED" /\ r.new.draft = r.was.draft /\ subs' = subs
      BY <1>1, <1>4, <1>5, <2>3 DEF Decided
    <3>2. QED
      BY <1>1, <1>2, <3>1 DEF SoloInv, DraftIsSubmitted
  <2>4. QED
    BY <1>1, <2>1, <2>2, <2>3 DEF Updates
<1>8. FlagMeansLate'
  <2>1. r.new.late_flag => r.new.submitted_at > Deadline
    <3>1. CASE r.op = "submit"
      BY <1>1, <3>1 DEF Decided, IsLate
    <3>2. CASE r.op # "submit"
      BY <1>1, <3>2 DEF Decided, SoloInv, FlagMeansLate
    <3>3. QED
      BY <3>1, <3>2
  <2>2. QED
    BY <1>1, <1>2, <2>1 DEF SoloInv, FlagMeansLate
<1>9. QED
  BY <1>7, <1>8

LEMMA InitSolo == Init => SoloInv
<1> SUFFICES ASSUME Init
             PROVE  SoloInv
  OBVIOUS
<1>1. \A i \in live : rows[i].state = "NOT_STARTED" /\ rows[i].late_flag = FALSE
  BY DEF Init, NewRow
<1>2. QED
  BY <1>1, InitReads DEF SoloInv, DraftIsSubmitted, FlagMeansLate

LEMMA NextSolo ==
  ASSUME OneSessionEach, IInv, SoloInv, [Next]_vars
  PROVE  SoloInv'
<1>1. ReadInv'
  BY NextReads DEF SoloInv
<1>2. CASE UNCHANGED table
  BY <1>1, <1>2, RowsShow DEF SoloInv, table
<1>3. ASSUME NEW s \in Sessions, Start(s)
      PROVE  SoloInv'
  BY <1>2, <1>3, StartRoles DEF Begin
<1>4. ASSUME NEW s \in Sessions, CommitUpdate(s)
      PROVE  SoloInv'
  BY <1>1, <1>4, UpdateShows DEF SoloInv
<1>5. ASSUME NEW s \in Sessions, CommitAdd(s)
      PROVE  SoloInv'
  <2>1. req[s].id \in Ids /\ live' = {req[s].id}
    BY <1>5 DEF CommitAdd, Flushed, IInv, TInv, WellFormed, LockInv, InsertsExclusive
  <2>2. rows'[req[s].id] = NewRow
    BY <1>5, <2>1 DEF CommitAdd, IInv, TInv, TypeOK
  <2>3. QED
    BY <1>1, <2>1, <2>2 DEF SoloInv, DraftIsSubmitted, FlagMeansLate, NewRow
<1>6. ASSUME NEW s \in Sessions, CommitDrop(s)
      PROVE  SoloInv'
  <2>1. live' \subseteq live /\ \A i \in live' : rows'[i] = rows[i] /\ subs'[i] = subs[i]
    BY <1>6 DEF CommitDrop, IInv, TInv, TypeOK
  <2>2. QED
    BY <1>1, <2>1, RowsShow DEF SoloInv
<1>7. QED
  BY <1>2, <1>3, <1>4, <1>5, <1>6, StepKinds

LEMMA SoloInvariant ==
  ASSUME OneSessionEach
  PROVE  Spec => []SoloInv
<1>1. IInv /\ SoloInv /\ [Next]_vars => SoloInv'
  BY NextSolo
<1>2. QED
  BY <1>1, InitSolo, InductiveInvariant, PTL DEF Spec

\* With one session of each, what the reviewer opens is what was handed in last,
\* although neither handler locks the row it decides on, and whatever managers do.
THEOREM ReviewedDraftIsSubmitted ==
  ASSUME OneSessionEach
  PROVE  Spec => []DraftIsSubmitted
<1>1. SoloInv => DraftIsSubmitted
  BY DEF SoloInv
<1>2. QED
  BY <1>1, SoloInvariant, PTL

\* With one session of each, late_flag never marks work handed in on time.
THEOREM OnlyLateIsFlagged ==
  ASSUME OneSessionEach
  PROVE  Spec => []FlagMeansLate
<1>1. SoloInv => FlagMeansLate
  BY DEF SoloInv
<1>2. QED
  BY <1>1, SoloInvariant, PTL
-----------------------------------------------------------------------------
(* Submissions and returns *)

\* A drop under way removes work that nobody has started.
DropsUntouched ==
  \A s \in Sessions : Open(s) /\ req[s].op = "drop" =>
    req[s].id \in live /\ rows[req[s].id].state = "NOT_STARTED"

\* Work that has not started is blank, and so nothing was ever returned while
\* there is none that has.
Untouched ==
  /\ \A i \in live : rows[i].state = "NOT_STARTED" =>
                       rows[i].draft = EmptyDraft /\ subs[i] = <<>>
  /\ live = {} => audit.return = 0

AloneInv == DropsUntouched /\ Untouched /\ SubmissionsAnswerReturns

\* A drop is under way in the only session there is.
LEMMA DropsAlone ==
  ASSUME ManagersAlone, ReadInv, NEW s \in Sessions, NEW t \in Sessions,
         Open(t), req[t].op = "drop"
  PROVE  s = t
  BY DEF ManagersAlone, ReadInv, RolesKnown

LEMMA InitAlone == Init => AloneInv
<1> SUFFICES ASSUME Init
             PROVE  AloneInv
  OBVIOUS
<1>1. /\ \A i \in live : rows[i] = NewRow /\ subs[i] = <<>>
      /\ audit.return = 0 /\ \A s \in Sessions : ~Open(s)
  BY DEF Init, Open
<1>2. QED
  BY <1>1 DEF AloneInv, DropsUntouched, Untouched, SubmissionsAnswerReturns, NewRow

LEMMA UpdateAnswers ==
  ASSUME OneSessionEach, ManagersAlone, IInv, SoloInv, AloneInv,
         NEW s \in Sessions, CommitUpdate(s)
  PROVE  AloneInv'
<1> DEFINE r == req[s]
<1>1. /\ r.op \in Updates /\ r.id \in live /\ Decided(r)
      /\ r.was = rows[r.id] /\ r.new \in Row
      /\ \A i \in live : rows'[i] = IF i = r.id THEN r.new ELSE rows[i]
  BY CommitOfRead DEF SoloInv
<1>2. live' = live /\ live \subseteq Ids /\ \A i \in live : i = r.id
  BY <1>1 DEF CommitUpdate, IInv, TInv, TypeOK, LockInv, OneRowPerEvaluator
<1>3. /\ audit'.return = audit.return + IF r.op = "return" THEN 1 ELSE 0
      /\ audit.return \in Nat
  <2>1. audit' = Audited(r.op) /\ r.op \notin {"add", "drop"}
    BY <1>1 DEF CommitUpdate, Updates
  <2>2. QED
    BY <2>1, UpdateAudit DEF IInv, TInv, TypeOK
<1>4. r.new.draft \in Values /\ subs[r.id] \in Seq(Values)
  BY <1>1, <1>2 DEF Row, IInv, TInv, TypeOK
<1>5. Len(subs'[r.id]) = Len(subs[r.id]) + IF r.op = "submit" THEN 1 ELSE 0
  <2>1. CASE r.op = "submit"
    <3>1. subs'[r.id] = Append(subs[r.id], r.new.draft)
      BY <1>1, <1>2, <2>1 DEF CommitUpdate, IInv, TInv, TypeOK
    <3>2. QED
      BY <1>4, <2>1, <3>1, LastOfAppend
  <2>2. CASE r.op # "submit"
    <3>1. subs' = subs /\ Len(subs[r.id]) \in Nat
      BY <1>4, <2>2 DEF CommitUpdate
    <3>2. QED
      BY <2>2, <3>1
  <2>3. QED
    BY <2>1, <2>2
<1>6. RequestsKeep /\ \A t \in Sessions : phase'[t] # "idle" => t # s
  BY CommitKeeps
<1>7. Len(subs[r.id]) = audit.return
                          + IF r.was.state \in {"SUBMITTED", "ARCHIVED"} THEN 1 ELSE 0
  BY <1>1 DEF AloneInv, SubmissionsAnswerReturns
<1> HIDE DEF r
<1>8. DropsUntouched'
  <2> SUFFICES ASSUME NEW t \in Sessions, phase'[t] # "idle", req'[t].op = "drop"
               PROVE  FALSE
    BY DEF DropsUntouched, Open
  <2>1. Open(t) /\ req[t].op = "drop" /\ t # s
    BY <1>6 DEF RequestsKeep, Open
  <2>2. QED
    BY <2>1, DropsAlone DEF SoloInv
<1>9. Untouched'
  <2>1. r.new.state # "NOT_STARTED"
    BY <1>1 DEF Decided, Updates
  <2>2. QED
    BY <1>1, <1>2, <2>1 DEF Untouched
<1>10. SubmissionsAnswerReturns'
  <2>1. Len(subs'[r.id]) = audit'.return
                             + IF r.new.state \in {"SUBMITTED", "ARCHIVED"} THEN 1 ELSE 0
    <3>1. CASE r.op = "save"
      <4>1. r.new.state = "IN_PROGRESS" /\ r.was.state \notin {"SUBMITTED", "ARCHIVED"}
        BY <1>1, <3>1 DEF Decided, CanSave, CanTransition, AllowedTransitions
      <4>2. QED
        BY <1>3, <1>5, <1>7, <3>1, <4>1
    <3>2. CASE r.op = "submit"
      <4>1. r.new.state = "SUBMITTED" /\ r.was.state \notin {"SUBMITTED", "ARCHIVED"}
        BY <1>1, <3>2 DEF Decided, CanSubmit, CanTransition, AllowedTransitions
      <4>2. QED
        BY <1>3, <1>5, <1>7, <3>2, <4>1
    <3>3. CASE r.op = "return"
      <4>1. r.new.state = "RETURNED_FOR_REVISION" /\ r.was.state = "SUBMITTED"
        BY <1>1, <3>3 DEF Decided
      <4>2. QED
        BY <1>3, <1>5, <1>7, <3>3, <4>1
    <3>4. CASE r.op = "approve"
      <4>1. r.new.state = "ARCHIVED" /\ r.was.state = "SUBMITTED"
        BY <1>1, <3>4 DEF Decided
      <4>2. QED
        BY <1>3, <1>5, <1>7, <3>4, <4>1
    <3>5. QED
      BY <1>1, <3>1, <3>2, <3>3, <3>4 DEF Updates
  <2>2. QED
    BY <1>1, <1>2, <2>1 DEF SubmissionsAnswerReturns
<1>11. QED
  BY <1>8, <1>9, <1>10 DEF AloneInv

\* An add finds no row, and nothing on record of an earlier one.
LEMMA AddedRow ==
  ASSUME IInv, NEW s \in Sessions, CommitAdd(s)
  PROVE  /\ live = {} /\ live' = {req[s].id}
         /\ rows'[req[s].id] = NewRow /\ subs'[req[s].id] = <<>>
<1>1. live = {} /\ live' = {req[s].id} /\ req[s].id \in Ids
  BY DEF CommitAdd, Flushed, IInv, TInv, WellFormed, LockInv, InsertsExclusive
<1>2. rows'[req[s].id] = NewRow /\ subs' = subs
  BY <1>1 DEF CommitAdd, IInv, TInv, TypeOK
<1>3. subs[req[s].id] = <<>>
  BY <1>1 DEF IInv, LockInv, NoOrphanSubmission
<1>4. QED
  BY <1>1, <1>2, <1>3

\* A drop removes the only row.
LEMMA DroppedRow ==
  ASSUME IInv, AloneInv, NEW s \in Sessions, CommitDrop(s)
  PROVE  /\ live = {req[s].id} /\ live' = {}
         /\ rows[req[s].id].state = "NOT_STARTED"
<1>1. req[s].id \in live /\ rows[req[s].id].state = "NOT_STARTED"
  BY DEF CommitDrop, AloneInv, DropsUntouched, Open
<1>2. live = {req[s].id}
  BY <1>1 DEF IInv, LockInv, OneRowPerEvaluator
<1>3. QED
  BY <1>1, <1>2 DEF CommitDrop

LEMMA NextAlone ==
  ASSUME OneSessionEach, ManagersAlone, IInv, SoloInv, AloneInv, [Next]_vars
  PROVE  AloneInv'
<1>1. CASE UNCHANGED table /\ RequestsKeep
  <2>1. DropsUntouched'
    BY <1>1 DEF AloneInv, DropsUntouched, RequestsKeep, Open, table
  <2>2. Untouched' /\ SubmissionsAnswerReturns'
    BY <1>1 DEF AloneInv, Untouched, SubmissionsAnswerReturns, table
  <2>3. QED
    BY <2>1, <2>2 DEF AloneInv
<1>2. ASSUME NEW s \in Sessions, Start(s)
      PROVE  AloneInv'
  <2>1. PICK op \in Ops, i \in live \cup {NoId}, was \in Row, new \in Row :
           /\ Begin(s, op, i, was, new)
           /\ op \in {"save", "submit"} => s \in Evaluators
           /\ op \in {"return", "approve"} => s \in Reviewers /\ new.draft = was.draft
           /\ op \in {"add", "drop"} => s \in Managers
           /\ op # "add" => i \in live /\ was = rows[i]
           /\ op = "drop" => rows[i].state = "NOT_STARTED"
    BY <1>2, StartRoles
  <2>2. /\ \A t \in Sessions :
             IF t = s THEN req'[t] = [op |-> op, id |-> i, was |-> was, new |-> new]
                      ELSE phase'[t] = phase[t] /\ req'[t] = req[t]
        /\ UNCHANGED table
    BY <2>1 DEF Begin, IInv, TInv, TypeOK
  <2>3. DropsUntouched'
    BY <2>1, <2>2 DEF AloneInv, DropsUntouched, Open, table
  <2>4. Untouched' /\ SubmissionsAnswerReturns'
    BY <2>2 DEF AloneInv, Untouched, SubmissionsAnswerReturns, table
  <2>5. QED
    BY <2>3, <2>4 DEF AloneInv
<1>3. ASSUME NEW s \in Sessions, CommitUpdate(s)
      PROVE  AloneInv'
  BY <1>3, UpdateAnswers
<1>4. ASSUME NEW s \in Sessions, CommitAdd(s) \/ CommitDrop(s)
      PROVE  DropsUntouched'
  <2> SUFFICES ASSUME NEW t \in Sessions, phase'[t] # "idle", req'[t].op = "drop"
               PROVE  FALSE
    BY DEF DropsUntouched, Open
  <2>1. Open(t) /\ req[t].op = "drop" /\ t # s
    BY <1>4, CommitKeeps DEF RequestsKeep, Open
  <2>2. QED
    BY <2>1, DropsAlone DEF SoloInv
<1>5. ASSUME NEW s \in Sessions, CommitAdd(s)
      PROVE  AloneInv'
  <2>1. /\ live = {} /\ live' = {req[s].id}
        /\ rows'[req[s].id] = NewRow /\ subs'[req[s].id] = <<>>
    BY <1>5, AddedRow
  <2>2. audit'.return = 0
    <3>1. audit' = [audit EXCEPT !.add = @ + 1]
      BY <1>5, RosterAudit DEF CommitAdd, IInv, TInv, TypeOK
    <3>2. QED
      BY <2>1, <3>1 DEF AloneInv, Untouched, IInv, TInv, TypeOK
  <2>3. Untouched' /\ SubmissionsAnswerReturns'
    BY <2>1, <2>2 DEF Untouched, SubmissionsAnswerReturns, NewRow
  <2>4. QED
    BY <1>4, <1>5, <2>3 DEF AloneInv
<1>6. ASSUME NEW s \in Sessions, CommitDrop(s)
      PROVE  AloneInv'
  <2>1. live = {req[s].id} /\ live' = {} /\ rows[req[s].id].state = "NOT_STARTED"
    BY <1>6, DroppedRow
  <2>2. audit.return = 0
    BY <2>1 DEF AloneInv, Untouched, SubmissionsAnswerReturns, IInv, TInv, TypeOK
  <2>3. audit'.return = 0
    <3>1. audit' = [audit EXCEPT !.drop = @ + 1]
      BY <1>6, RosterAudit DEF CommitDrop, IInv, TInv, TypeOK
    <3>2. QED
      BY <2>2, <3>1 DEF IInv, TInv, TypeOK
  <2>4. Untouched' /\ SubmissionsAnswerReturns'
    BY <2>1, <2>3 DEF Untouched, SubmissionsAnswerReturns
  <2>5. QED
    BY <1>4, <1>6, <2>4 DEF AloneInv
<1>7. QED
  BY <1>1, <1>2, <1>3, <1>5, <1>6, StepKinds

LEMMA AloneInvariant ==
  ASSUME OneSessionEach, ManagersAlone
  PROVE  Spec => [](IInv /\ SoloInv /\ AloneInv)
<1>1. IInv /\ SoloInv /\ AloneInv /\ [Next]_vars => AloneInv'
  BY NextAlone
<1>2. QED
  BY <1>1, InitAlone, SoloInvariant, InductiveInvariant, PTL DEF Spec

\* With one session of each, and a roster changed by nobody else, the work was
\* handed in once more than it was returned exactly while it is under review or
\* archived.
THEOREM ReturnsAreAnsweredOnce ==
  ASSUME OneSessionEach, ManagersAlone
  PROVE  Spec => []SubmissionsAnswerReturns
<1>1. AloneInv => SubmissionsAnswerReturns
  BY DEF AloneInv
<1>2. QED
  BY <1>1, AloneInvariant, PTL
-----------------------------------------------------------------------------
(* The state machine taken atomically *)

\* The row of the pair is the one the abstract machine sees ...
LEMMA ViewOfRow ==
  ASSUME OneRowPerEvaluator, NEW i \in live
  PROVE  /\ CurrentState = rows[i].state
         /\ CurrentDraft = rows[i].draft
         /\ CurrentSubs = subs[i]
<1>1. live # {} /\ Current \in live
  BY DEF Current
<1>2. Current = i
  BY <1>1 DEF OneRowPerEvaluator
<1>3. QED
  BY <1>1, <1>2 DEF CurrentState, CurrentDraft, CurrentSubs

\* ... and after a step too.
LEMMA ViewOfNextRow ==
  ASSUME OneRowPerEvaluator', NEW i \in live'
  PROVE  /\ CurrentState' = rows'[i].state
         /\ CurrentDraft' = rows'[i].draft
         /\ CurrentSubs' = subs'[i]
<1>1. live' # {} /\ Current' \in live'
  BY DEF Current
<1>2. Current' = i
  BY <1>1 DEF OneRowPerEvaluator
<1>3. QED
  BY <1>1, <1>2 DEF CurrentState, CurrentDraft, CurrentSubs

\* Where there is no row the abstract machine sees a blank.
LEMMA ViewOfNone ==
  /\ live = {} => CurrentState = "NONE" /\ CurrentDraft = EmptyDraft /\ CurrentSubs = <<>>
  /\ live' = {} => CurrentState' = "NONE" /\ CurrentDraft' = EmptyDraft /\ CurrentSubs' = <<>>
  BY DEF CurrentState, CurrentDraft, CurrentSubs

LEMMA InitRefines == Init => Lifecycle!Init
<1> SUFFICES ASSUME Init
             PROVE  Lifecycle!Init
  OBVIOUS
<1>1. CASE live = {}
  BY <1>1, ViewOfNone DEF Lifecycle!Init
<1>2. CASE live # {}
  <2>1. PICK i \in live : rows[i] = NewRow /\ subs[i] = <<>>
    BY <1>2 DEF Init
  <2>2. OneRowPerEvaluator
    BY DEF Init, OneRowPerEvaluator
  <2>3. QED
    BY <2>1, <2>2, ViewOfRow DEF Lifecycle!Init, NewRow
<1>3. QED
  BY <1>1, <1>2

\* Tables that stay as they are look the same.
LEMMA StutterRefines ==
  ASSUME UNCHANGED table, OneRowPerEvaluator
  PROVE  UNCHANGED Lifecycle!vars
<1>1. live' = live /\ rows' = rows /\ subs' = subs /\ OneRowPerEvaluator'
  BY DEF table, OneRowPerEvaluator
<1>2. CASE live = {}
  BY <1>1, <1>2, ViewOfNone DEF Lifecycle!vars
<1>3. CASE live # {}
  <2>1. PICK i : i \in live /\ i \in live'
    BY <1>1, <1>3
  <2>2. QED
    BY <1>1, <2>1, ViewOfRow, ViewOfNextRow DEF Lifecycle!vars
<1>4. QED
  BY <1>2, <1>3

\* The commit of an update is the whole of its abstract action.
LEMMA UpdateRefines ==
  ASSUME OneSessionEach, IInv, IInv', SoloInv, NEW s \in Sessions, CommitUpdate(s)
  PROVE  Lifecycle!Next
<1> DEFINE r == req[s]
<1>1. /\ r.op \in Updates /\ r.id \in live /\ Decided(r)
      /\ r.was = rows[r.id] /\ r.new \in Row /\ rows'[r.id] = r.new
  BY CommitOfRead DEF SoloInv
<1>2. r.id \in live' /\ r.id \in Ids
  BY <1>1 DEF CommitUpdate, IInv, TInv, TypeOK
<1>3. r.op \in {"return", "approve"} => r.new.draft = r.was.draft
  BY DEF CommitUpdate, Open, SoloInv, ReadInv, ReviewsKeep
<1>4. subs'[r.id] = IF r.op = "submit" THEN Append(subs[r.id], r.new.draft) ELSE subs[r.id]
  BY <1>2 DEF CommitUpdate, IInv, TInv, TypeOK
<1>5. /\ CurrentState = r.was.state /\ CurrentDraft = r.was.draft
      /\ CurrentSubs = subs[r.id]
  BY <1>1, ViewOfRow DEF IInv, LockInv
<1>6. /\ CurrentState' = r.new.state /\ CurrentDraft' = r.new.draft
      /\ CurrentSubs' = subs'[r.id]
  BY <1>1, <1>2, ViewOfNextRow DEF IInv, LockInv
<1>7. r.new.draft \in Values
  BY <1>1 DEF Row
<1> HIDE DEF r
<1>8. CASE r.op = "save"
  <2>1. CanSave(r.was.state) /\ r.new.state = "IN_PROGRESS"
    BY <1>1, <1>8 DEF Decided
  <2>2. Lifecycle!Save
    BY <1>4, <1>5, <1>6, <1>7, <1>8, <2>1
       DEF Lifecycle!Save, CanSave, CanTransition, AllowedTransitions,
           Lifecycle!CanTransition, Lifecycle!AllowedTransitions
  <2>3. QED
    BY <2>2 DEF Lifecycle!Next
<1>9. CASE r.op = "submit"
  <2>1. CanSubmit(r.was.state) /\ r.new.state = "SUBMITTED"
    BY <1>1, <1>9 DEF Decided
  <2>2. Lifecycle!Submit
    BY <1>4, <1>5, <1>6, <1>7, <1>9, <2>1
       DEF Lifecycle!Submit, CanSubmit, CanTransition, AllowedTransitions,
           Lifecycle!CanTransition, Lifecycle!AllowedTransitions
  <2>3. QED
    BY <2>2 DEF Lifecycle!Next
<1>10. CASE r.op \in {"return", "approve"}
  <2>1. /\ r.was.state = "SUBMITTED"
        /\ r.new.state \in {"RETURNED_FOR_REVISION", "ARCHIVED"}
    BY <1>1, <1>10 DEF Decided
  <2>2. Lifecycle!Review
    <3>1. /\ r.new.state \in Lifecycle!AssignmentStates
          /\ Lifecycle!CanTransition(CurrentState, r.new.state)
      BY <1>5, <2>1 DEF Lifecycle!AssignmentStates, Lifecycle!CanTransition,
                        Lifecycle!AllowedTransitions
    <3>2. QED
      BY <1>3, <1>4, <1>5, <1>6, <1>10, <2>1, <3>1 DEF Lifecycle!Review
  <2>3. QED
    BY <2>2 DEF Lifecycle!Next
<1>11. QED
  BY <1>1, <1>8, <1>9, <1>10 DEF Updates

LEMMA RosterRefines ==
  ASSUME IInv, IInv', AloneInv, NEW s \in Sessions, CommitAdd(s) \/ CommitDrop(s)
  PROVE  Lifecycle!Next
<1> DEFINE i == req[s].id
<1>1. CASE CommitAdd(s)
  <2>1. live = {} /\ i \in live' /\ rows'[i] = NewRow /\ subs'[i] = <<>>
    BY <1>1, AddedRow
  <2>2. CurrentState' = "NOT_STARTED" /\ CurrentDraft' = EmptyDraft /\ CurrentSubs' = <<>>
    BY <2>1, ViewOfNextRow DEF IInv, LockInv, NewRow
  <2>3. CurrentState = "NONE" /\ CurrentDraft = EmptyDraft /\ CurrentSubs = <<>>
    BY <2>1, ViewOfNone
  <2>4. QED
    BY <2>2, <2>3 DEF Lifecycle!Next, Lifecycle!Add
<1>2. CASE CommitDrop(s)
  <2>1. i \in live /\ live' = {} /\ rows[i].state = "NOT_STARTED"
    BY <1>2, DroppedRow
  <2>2. rows[i].draft = EmptyDraft /\ subs[i] = <<>>
    BY <2>1 DEF AloneInv, Untouched
  <2>3. CurrentState = "NOT_STARTED" /\ CurrentDraft = EmptyDraft /\ CurrentSubs = <<>>
    BY <2>1, <2>2, ViewOfRow DEF IInv, LockInv
  <2>4. CurrentState' = "NONE" /\ CurrentDraft' = EmptyDraft /\ CurrentSubs' = <<>>
    BY <2>1, ViewOfNone
  <2>5. QED
    BY <2>3, <2>4 DEF Lifecycle!Next, Lifecycle!Drop
<1>3. QED
  BY <1>1, <1>2

LEMMA StepRefines ==
  ASSUME OneSessionEach, ManagersAlone, IInv, IInv', SoloInv, AloneInv, [Next]_vars
  PROVE  [Lifecycle!Next]_(Lifecycle!vars)
<1>1. ASSUME NEW s \in Sessions, Start(s)
      PROVE  UNCHANGED table
  BY <1>1, StartRoles DEF Begin
<1>2. CASE UNCHANGED table
  BY <1>2, StutterRefines DEF IInv, LockInv
<1>3. QED
  BY <1>1, <1>2, StepKinds, UpdateRefines, RosterRefines

\* With one session of each, and a roster changed by nobody else, requests that
\* read without a lock, wait for one, fail, are rolled back or die with the
\* process look to the users like the state machine of AssignmentLifecycle, in
\* which each of them is a single step.
THEOREM RequestsLookAtomic ==
  ASSUME OneSessionEach, ManagersAlone
  PROVE  Spec => ImplementsLifecycle
<1>1. IInv /\ IInv' /\ SoloInv /\ AloneInv /\ [Next]_vars
        => [Lifecycle!Next]_(Lifecycle!vars)
  BY StepRefines
<1>2. QED
  BY <1>1, InitRefines, AloneInvariant, PTL DEF Spec, ImplementsLifecycle, Lifecycle!Spec
=============================================================================
