------------------------- MODULE AssignmentsProofs -------------------------
(***************************************************************************)
(* Proofs about Assignments for any number of sessions, rows and answers.  *)
(***************************************************************************)
EXTENDS Assignments, FiniteSetTheorems, SequenceTheorems, TLAPS

\* A session is idle or has one request under way, which carries the identifier
\* of a row it has seen, or the one its INSERT received.
WellFormed ==
  \A s \in Sessions :
    IF phase[s] = "idle" THEN req[s] = NoRequest
    ELSE /\ req[s] \in Requests
         /\ req[s].op # "add" => req[s].id \in used
         /\ phase[s] = "flushed" => req[s].id \in Ids

TInv == TypeOK /\ WellFormed

-----------------------------------------------------------------------------
(* The shape of a step *)

LEMMA TimeFacts == /\ 0 \in Times
                   /\ \A t \in 1 .. MaxTime : t \in Times /\ IsLate(t) \in BOOLEAN
  BY TimeAssumption DEF Times, IsLate

LEMMA NewRowType == NewRow \in Row
  BY DraftAssumption, TimeFacts DEF NewRow, Row, AssignmentStates

\* A request starts by reading a live row, or, for add, by finding none.
LEMMA StartShape ==
  ASSUME TypeOK, NEW s \in Sessions, Start(s)
  PROVE  \E op \in Ops, i \in live \cup {NoId}, was \in Row, new \in Row :
           /\ Begin(s, op, i, was, new)
           /\ op # "add" => i \in live /\ was = rows[i]
<1>1. ASSUME NEW i \in live, NEW v \in Values, BeginSave(s, i, v)
      PROVE  \E new \in Row : Begin(s, "save", i, rows[i], new)
  <2>1. rows[i] \in Row
    BY DEF TypeOK
  <2>2. [rows[i] EXCEPT !.state = "IN_PROGRESS", !.draft = v] \in Row
    BY <2>1 DEF Row, AssignmentStates
  <2>3. QED
    BY <1>1, <2>2 DEF BeginSave
<1>2. ASSUME NEW i \in live, NEW v \in Values, BeginSubmit(s, i, v)
      PROVE  \E new \in Row : Begin(s, "submit", i, rows[i], new)
  <2>1. rows[i] \in Row /\ clock \in Times /\ IsLate(clock) \in BOOLEAN
    BY TimeFacts DEF TypeOK
  <2>2. [rows[i] EXCEPT !.state = "SUBMITTED", !.draft = v,
                        !.submitted_at = clock, !.late_flag = IsLate(clock)] \in Row
    BY <2>1 DEF Row, AssignmentStates
  <2>3. QED
    BY <1>2, <2>2 DEF BeginSubmit
<1>3. ASSUME NEW i \in live, BeginReturn(s, i)
      PROVE  \E new \in Row : Begin(s, "return", i, rows[i], new)
  <2>1. rows[i] \in Row
    BY DEF TypeOK
  <2>2. [rows[i] EXCEPT !.state = "RETURNED_FOR_REVISION"] \in Row
    BY <2>1 DEF Row, AssignmentStates
  <2>3. QED
    BY <1>3, <2>2 DEF BeginReturn
<1>4. ASSUME NEW i \in live, BeginApprove(s, i)
      PROVE  \E new \in Row : Begin(s, "approve", i, rows[i], new)
  <2>1. rows[i] \in Row
    BY DEF TypeOK
  <2>2. [rows[i] EXCEPT !.state = "ARCHIVED", !.archived = TRUE] \in Row
    BY <2>1 DEF Row, AssignmentStates
  <2>3. QED
    BY <1>4, <2>2 DEF BeginApprove
<1>5. ASSUME NEW i \in live, BeginDrop(s, i)
      PROVE  Begin(s, "drop", i, rows[i], rows[i])
  BY <1>5 DEF BeginDrop
<1>6. ASSUME BeginAdd(s)
      PROVE  Begin(s, "add", NoId, NewRow, NewRow)
  BY <1>6 DEF BeginAdd
<1>7. \A i \in live : rows[i] \in Row
  BY DEF TypeOK
<1>8. {"save", "submit", "return", "approve", "add", "drop"} \subseteq Ops
  BY DEF Ops, Updates
<1>9. CASE BeginAdd(s)
  BY <1>6, <1>8, <1>9, NewRowType
<1>10. CASE \E i \in live : BeginDrop(s, i)
  BY <1>5, <1>7, <1>8, <1>10
<1>11. CASE \E i \in live : BeginReturn(s, i) \/ BeginApprove(s, i)
  BY <1>3, <1>4, <1>7, <1>8, <1>11
<1>12. CASE \E i \in live, v \in Values : BeginSave(s, i, v) \/ BeginSubmit(s, i, v)
  BY <1>1, <1>2, <1>7, <1>8, <1>12
<1>13. QED
  BY <1>9, <1>10, <1>11, <1>12 DEF Start

\* An UPDATE leaves a well-typed row, whatever it overwrote.
LEMMA MergeType ==
  ASSUME NEW now \in Row, NEW was \in Row, NEW new \in Row
  PROVE  Merge(now, was, new) \in Row
  BY DEF Merge, Pick, Row
-----------------------------------------------------------------------------
(* Types *)

LEMMA AuditType ==
  ASSUME NEW op, audit \in [add : Nat, drop : Nat, return : Nat]
  PROVE  Audited(op) \in [add : Nat, drop : Nat, return : Nat]
<1>1. DOMAIN audit = {"add", "drop", "return"}
  OBVIOUS
<1>2. CASE op = "add"
  <2>1. Audited(op) = [audit EXCEPT !.add = @ + 1]
    BY <1>1, <1>2 DEF Audited
  <2>2. QED
    BY <2>1
<1>3. CASE op = "drop"
  <2>1. Audited(op) = [audit EXCEPT !.drop = @ + 1]
    BY <1>1, <1>3 DEF Audited
  <2>2. QED
    BY <2>1
<1>4. CASE op = "return"
  <2>1. Audited(op) = [audit EXCEPT !.return = @ + 1]
    BY <1>1, <1>4 DEF Audited
  <2>2. QED
    BY <2>1
<1>5. CASE op \notin {"add", "drop", "return"}
  BY <1>1, <1>5 DEF Audited
<1>6. QED
  BY <1>2, <1>3, <1>4, <1>5

LEMMA InitTypes == Init => TInv
<1> SUFFICES ASSUME Init
             PROVE  TInv
  OBVIOUS
<1>1. Cardinality(live) \in Nat
  <2>1. CASE live = {}
    BY <2>1, FS_EmptySet
  <2>2. ASSUME NEW i \in Ids, live = {i}
        PROVE  Cardinality(live) \in Nat
    BY <2>2, FS_Singleton
  <2>3. QED
    BY <2>1, <2>2 DEF Init
<1>2. clock \in 1 .. MaxTime
  BY TimeAssumption DEF Init
<1>3. audit \in [add : Nat, drop : Nat, return : Nat]
  BY <1>1 DEF Init
<1>4. rows \in [Ids -> Row] /\ subs \in [Ids -> Seq(Values)]
  BY NewRowType DEF Init
<1>5. live \subseteq used /\ used \subseteq Ids
  BY DEF Init
<1>6. phase \in [Sessions -> {"idle", "read", "flushed"}]
      /\ req \in [Sessions -> Requests \cup {NoRequest}]
  BY DEF Init
<1>7. WellFormed
  BY DEF WellFormed, Init
<1>8. QED
  BY <1>2, <1>3, <1>4, <1>5, <1>6, <1>7 DEF TInv, TypeOK

\* A session that ends its request leaves the requests well formed, provided no
\* identifier is forgotten.
LEMMA FinishTypes ==
  ASSUME TInv, NEW s \in Sessions, Finish(s), used \subseteq used'
  PROVE  /\ phase' \in [Sessions -> {"idle", "read", "flushed"}]
         /\ req' \in [Sessions -> Requests \cup {NoRequest}]
         /\ WellFormed'
<1>1. /\ phase' \in [Sessions -> {"idle", "read", "flushed"}]
      /\ req' \in [Sessions -> Requests \cup {NoRequest}]
  BY DEF Finish, TInv, TypeOK
<1>2. \A t \in Sessions : IF t = s THEN phase'[t] = "idle" /\ req'[t] = NoRequest
                                   ELSE phase'[t] = phase[t] /\ req'[t] = req[t]
  BY DEF Finish, TInv, TypeOK
<1>3. WellFormed'
  BY <1>2 DEF WellFormed, TInv
<1>4. QED
  BY <1>1, <1>3

\* A request that takes its locks stays well formed.
LEMMA FlushTypes ==
  ASSUME TInv, NEW s \in Sessions, FlushUpdate(s) \/ FlushAdd(s) \/ FlushDrop(s)
  PROVE  TInv'
<1>1. phase[s] = "read" /\ phase' = [phase EXCEPT ![s] = "flushed"] /\ UNCHANGED <<clock, table>>
  BY DEF FlushUpdate, FlushAdd, FlushDrop, Flush
<1>2. req[s] \in Requests /\ (req[s].op # "add" => req[s].id \in used)
  BY <1>1 DEF TInv, WellFormed
<1>3. \E i \in Ids : req' = [req EXCEPT ![s].id = i] /\ (req[s].op # "add" => i \in used)
  <2>1. CASE FlushUpdate(s) \/ FlushDrop(s)
    <3>1. req' = req /\ req[s].op # "add"
      BY <2>1 DEF FlushUpdate, FlushDrop, Updates
    <3>2. req[s].id \in used /\ used \subseteq Ids
      BY <3>1, <1>2 DEF TInv, TypeOK
    <3>3. req = [req EXCEPT ![s].id = req[s].id]
      BY <1>2 DEF TInv, TypeOK, Requests
    <3>4. QED
      BY <3>1, <3>2, <3>3
  <2>2. CASE FlushAdd(s)
    BY <2>2 DEF FlushAdd
  <2>3. QED
    BY <2>1, <2>2
<1>4. PICK i \in Ids : req' = [req EXCEPT ![s].id = i] /\ (req[s].op # "add" => i \in used)
  BY <1>3
<1>5. [req[s] EXCEPT !.id = i] \in Requests
  BY <1>2 DEF Requests
<1>6. \A t \in Sessions :
        IF t = s THEN phase'[t] = "flushed" /\ req'[t] = [req[s] EXCEPT !.id = i]
                 ELSE phase'[t] = phase[t] /\ req'[t] = req[t]
  BY <1>1, <1>4 DEF TInv, TypeOK
<1>7. WellFormed'
  <2> SUFFICES ASSUME NEW t \in Sessions
               PROVE  IF phase'[t] = "idle" THEN req'[t] = NoRequest
                      ELSE /\ req'[t] \in Requests
                           /\ req'[t].op # "add" => req'[t].id \in used'
                           /\ phase'[t] = "flushed" => req'[t].id \in Ids
    BY DEF WellFormed
  <2>1. used' = used
    BY <1>1 DEF table
  <2>2. CASE t = s
    <3>1. req'[t].op = req[s].op /\ req'[t].id = i
      BY <1>2, <1>6, <2>2 DEF Requests
    <3>2. QED
      BY <1>4, <1>5, <1>6, <2>1, <2>2, <3>1
  <2>3. CASE t # s
    BY <1>6, <2>1, <2>3 DEF TInv, WellFormed
  <2>4. QED
    BY <2>2, <2>3
<1>8. TypeOK'
  <2>1. phase' \in [Sessions -> {"idle", "read", "flushed"}]
    BY <1>1 DEF TInv, TypeOK
  <2>2. req' \in [Sessions -> Requests \cup {NoRequest}]
    BY <1>4, <1>5 DEF TInv, TypeOK
  <2>3. QED
    BY <1>1, <2>1, <2>2 DEF TInv, TypeOK, table
<1>9. QED
  BY <1>7, <1>8 DEF TInv

LEMMA StartTypes ==
  ASSUME TInv, NEW s \in Sessions, Start(s)
  PROVE  TInv'
<1>1. PICK op \in Ops, i \in live \cup {NoId}, was \in Row, new \in Row :
        /\ Begin(s, op, i, was, new)
        /\ op # "add" => i \in live /\ was = rows[i]
  BY StartShape DEF TInv
<1> DEFINE r == [op |-> op, id |-> i, was |-> was, new |-> new]
<1>2. r \in Requests
  BY DEF Requests, TInv, TypeOK
<1>3. \A t \in Sessions : IF t = s THEN phase'[t] = "read" /\ req'[t] = r
                                   ELSE phase'[t] = phase[t] /\ req'[t] = req[t]
  BY <1>1 DEF Begin, TInv, TypeOK
<1>4. UNCHANGED <<clock, table>>
  BY <1>1 DEF Begin
<1>5. WellFormed'
  <2>1. op # "add" => i \in used
    BY <1>1 DEF TInv, TypeOK
  <2>2. QED
    BY <1>2, <1>3, <1>4, <2>1 DEF WellFormed, TInv, table
<1>6. TypeOK'
  <2>1. phase' \in [Sessions -> {"idle", "read", "flushed"}]
    BY <1>1 DEF Begin, TInv, TypeOK
  <2>2. req' \in [Sessions -> Requests \cup {NoRequest}]
    BY <1>1, <1>2 DEF Begin, TInv, TypeOK
  <2>3. QED
    BY <1>4, <2>1, <2>2 DEF TInv, TypeOK, table
<1>7. QED
  BY <1>5, <1>6 DEF TInv

LEMMA EndTypes ==
  ASSUME TInv, NEW s \in Sessions, End(s) \/ Fail(s) \/ Rollback(s)
  PROVE  TInv'
<1>1. CASE CommitUnchanged(s) \/ Fail(s) \/ Rollback(s)
  <2>1. Finish(s) /\ UNCHANGED <<clock, table>>
    BY <1>1 DEF CommitUnchanged, Fail, Rollback
  <2>2. QED
    BY <2>1, FinishTypes DEF TInv, TypeOK, table
<1>2. CASE CommitUpdate(s)
  <2>1. /\ Finish(s) /\ UNCHANGED <<clock, live, used>>
        /\ req[s] \in Requests /\ req[s].id \in Ids
    BY <1>2 DEF CommitUpdate, TInv, WellFormed
  <2>2. rows' \in [Ids -> Row]
    <3>1. req[s].was \in Row /\ req[s].new \in Row /\ rows[req[s].id] \in Row
      BY <2>1 DEF Requests, TInv, TypeOK
    <3>2. Merge(rows[req[s].id], req[s].was, req[s].new) \in Row
      BY <3>1, MergeType
    <3>3. QED
      BY <1>2, <3>2 DEF CommitUpdate, TInv, TypeOK
  <2>3. subs' \in [Ids -> Seq(Values)]
    <3>1. req[s].new.draft \in Values
      BY <2>1 DEF Requests, Row
    <3>2. Append(subs[req[s].id], req[s].new.draft) \in Seq(Values)
      BY <2>1, <3>1, AppendProperties DEF TInv, TypeOK
    <3>3. QED
      BY <1>2, <3>2 DEF CommitUpdate, TInv, TypeOK
  <2>4. audit' \in [add : Nat, drop : Nat, return : Nat]
    BY <1>2, AuditType DEF CommitUpdate, TInv, TypeOK
  <2>5. QED
    BY <2>1, <2>2, <2>3, <2>4, FinishTypes DEF TInv, TypeOK
<1>3. CASE CommitAdd(s)
  <2>1. Finish(s) /\ UNCHANGED <<clock, subs>> /\ req[s].id \in Ids
    BY <1>3 DEF CommitAdd, TInv, WellFormed
  <2>2. rows' \in [Ids -> Row]
    BY <1>3, NewRowType DEF CommitAdd, TInv, TypeOK
  <2>3. audit' \in [add : Nat, drop : Nat, return : Nat]
    BY <1>3, AuditType DEF CommitAdd, TInv, TypeOK
  <2>4. live' \subseteq used' /\ used \subseteq used' /\ used' \subseteq Ids
    BY <1>3, <2>1 DEF CommitAdd, TInv, TypeOK
  <2>5. QED
    BY <2>1, <2>2, <2>3, <2>4, FinishTypes DEF TInv, TypeOK
<1>4. CASE CommitDrop(s)
  <2>1. Finish(s) /\ UNCHANGED <<clock, used>>
    BY <1>4 DEF CommitDrop
  <2>2. rows' \in [Ids -> Row] /\ subs' \in [Ids -> Seq(Values)]
    <3>1. <<>> \in Seq(Values)
      OBVIOUS
    <3>2. QED
      BY <1>4, <3>1, NewRowType DEF CommitDrop, TInv, TypeOK
  <2>3. audit' \in [add : Nat, drop : Nat, return : Nat]
    BY <1>4, AuditType DEF CommitDrop, TInv, TypeOK
  <2>4. live' \subseteq used'
    BY <1>4, <2>1 DEF CommitDrop, TInv, TypeOK
  <2>5. QED
    BY <2>1, <2>2, <2>3, <2>4, FinishTypes DEF TInv, TypeOK
<1>5. QED
  BY <1>1, <1>2, <1>3, <1>4 DEF End

LEMMA NextTypes == TInv /\ [Next]_vars => TInv'
<1> SUFFICES ASSUME TInv, [Next]_vars
             PROVE  TInv'
  OBVIOUS
<1>1. ASSUME NEW s \in Sessions, Start(s) \/ Write(s) \/ End(s) \/ Rollback(s)
      PROVE  TInv'
  BY <1>1, StartTypes, FlushTypes, EndTypes DEF Write
<1>2. CASE Restart
  <2>1. /\ phase' = [s \in Sessions |-> "idle"]
        /\ req' = [s \in Sessions |-> NoRequest]
        /\ UNCHANGED <<clock, table>>
    BY <1>2 DEF Restart
  <2>2. WellFormed'
    BY <2>1 DEF WellFormed
  <2>3. TypeOK'
    BY <2>1 DEF TInv, TypeOK, table
  <2>4. QED
    BY <2>2, <2>3 DEF TInv
<1>3. CASE Tick
  <2>1. clock' \in 1 .. MaxTime /\ UNCHANGED <<table, phase, req>>
    BY <1>3, TimeAssumption DEF Tick, TInv, TypeOK
  <2>2. QED
    BY <2>1 DEF TInv, TypeOK, WellFormed, table
<1>4. CASE UNCHANGED vars
  BY <1>4 DEF vars, TInv, TypeOK, WellFormed
<1>5. QED
  BY <1>1, <1>2, <1>3, <1>4 DEF Next

\* Every variable keeps its type, for any number of sessions and of rows.
THEOREM TypeCorrect == Spec => []TypeOK
<1>1. TInv => TypeOK
  BY DEF TInv
<1>2. QED
  BY <1>1, InitTypes, NextTypes, PTL DEF Spec
-----------------------------------------------------------------------------
(* Row locks and the unique key *)

Flushed(s) == phase[s] = "flushed"

\* At most one open transaction has written a given row.
RowLocks ==
  \A s, t \in Sessions :
    Flushed(s) /\ Flushed(t) /\ req[s].id = req[t].id /\ req[s].id \in live => s = t

\* A row stays while an open transaction has updated it.
UpdatedRowsStay ==
  \A s \in Sessions : Flushed(s) /\ req[s].op \in Updates => req[s].id \in live

\* At most one open transaction has inserted, under a fresh identifier, and only
\* where there was no row.
InsertsExclusive ==
  \A s \in Sessions : Flushed(s) /\ req[s].op = "add" =>
    /\ live = {}
    /\ req[s].id \in Ids \ used
    /\ \A t \in Sessions : Flushed(t) /\ req[t].op = "add" => s = t

LockInv == /\ RowLocks
           /\ UpdatedRowsStay
           /\ InsertsExclusive
           /\ OneRowPerEvaluator
           /\ NoOrphanSubmission

LEMMA InitLocks == Init => LockInv
<1> SUFFICES ASSUME Init
             PROVE  LockInv
  OBVIOUS
<1>1. \A s \in Sessions : ~Flushed(s)
  BY DEF Init, Flushed
<1>2. OneRowPerEvaluator
  BY DEF Init, OneRowPerEvaluator
<1>3. NoOrphanSubmission
  BY DEF Init, NoOrphanSubmission
<1>4. QED
  BY <1>1, <1>2, <1>3 DEF LockInv, RowLocks, UpdatedRowsStay, InsertsExclusive

\* A step that takes no lock and touches no row keeps all that locks protect.
LEMMA NoNewLocks ==
  ASSUME LockInv, UNCHANGED <<live, used, subs>>,
         \A t \in Sessions : Flushed(t)' => Flushed(t) /\ req'[t] = req[t]
  PROVE  LockInv'
<1>1. RowLocks' /\ UpdatedRowsStay'
  BY DEF LockInv, RowLocks, UpdatedRowsStay
<1>2. InsertsExclusive'
  BY DEF LockInv, InsertsExclusive
<1>3. OneRowPerEvaluator' /\ NoOrphanSubmission'
  BY DEF LockInv, OneRowPerEvaluator, NoOrphanSubmission
<1>4. QED
  BY <1>1, <1>2, <1>3 DEF LockInv

LEMMA FlushLocks ==
  ASSUME TInv, LockInv, NEW s \in Sessions, FlushUpdate(s) \/ FlushAdd(s) \/ FlushDrop(s)
  PROVE  LockInv'
<1>1. /\ phase[s] = "read"
      /\ UNCHANGED <<live, used, subs>>
      /\ \A t \in Sessions : Flushed(t)' <=> t = s \/ Flushed(t)
  BY DEF FlushUpdate, FlushAdd, FlushDrop, Flush, Flushed, TInv, TypeOK, table
<1>2. req[s] \in Requests
  BY <1>1 DEF TInv, WellFormed
<1>3. OneRowPerEvaluator' /\ NoOrphanSubmission'
  BY <1>1 DEF LockInv, OneRowPerEvaluator, NoOrphanSubmission
<1>4. CASE FlushUpdate(s) \/ FlushDrop(s)
  <2>1. /\ req' = req
        /\ req[s].op # "add"
        /\ req[s].id \in live => ~Holding(req[s].id)
        /\ req[s].op \in Updates => req[s].id \in live
    BY <1>4 DEF FlushUpdate, FlushDrop, RowFound, Updates
  <2>2. RowLocks'
    BY <1>1, <2>1 DEF LockInv, RowLocks, Holding, Flushed
  <2>3. UpdatedRowsStay' /\ InsertsExclusive'
    BY <1>1, <2>1 DEF LockInv, UpdatedRowsStay, InsertsExclusive
  <2>4. QED
    BY <1>3, <2>2, <2>3 DEF LockInv
<1>5. CASE FlushAdd(s)
  <2>1. PICK i \in Ids \ used : req' = [req EXCEPT ![s].id = i]
    BY <1>5 DEF FlushAdd
  <2>2. req[s].op = "add" /\ live = {} /\ ~Inserting
    BY <1>5 DEF FlushAdd, KeyFree, UniqueKey
  <2>3. /\ req'[s].op = "add" /\ req'[s].id = i
        /\ \A t \in Sessions \ {s} : req'[t] = req[t]
    BY <1>2, <2>1, <2>2 DEF TInv, TypeOK, Requests
  <2>4. RowLocks'
    BY <1>1, <2>2 DEF RowLocks
  <2>5. UpdatedRowsStay'
    BY <1>1, <2>3 DEF LockInv, UpdatedRowsStay, Updates
  <2>6. InsertsExclusive'
    BY <1>1, <2>2, <2>3 DEF InsertsExclusive, Inserting, Flushed
  <2>7. QED
    BY <1>3, <2>4, <2>5, <2>6 DEF LockInv
<1>6. QED
  BY <1>4, <1>5

\* The session that ends its request is the only one whose request changes.
LEMMA FinishRequests ==
  ASSUME TInv, NEW s \in Sessions, Finish(s)
  PROVE  /\ ~Flushed(s)' /\ phase'[s] = "idle" /\ req'[s] = NoRequest
         /\ \A t \in Sessions \ {s} : phase'[t] = phase[t] /\ req'[t] = req[t]
         /\ \A t \in Sessions : Flushed(t)' => t # s /\ Flushed(t) /\ req'[t] = req[t]
  BY DEF Finish, Flushed, TInv, TypeOK

LEMMA CommitLocks ==
  ASSUME TInv, LockInv, NEW s \in Sessions,
         CommitUpdate(s) \/ CommitAdd(s) \/ CommitDrop(s)
  PROVE  LockInv'
<1>1. /\ Finish(s) /\ Flushed(s) /\ req[s] \in Requests /\ req[s].id \in Ids
      /\ req[s].op # "add" => req[s].id \in used
  BY DEF CommitUpdate, CommitAdd, CommitDrop, Flushed, TInv, WellFormed
<1>2. \A t \in Sessions : Flushed(t)' => t # s /\ Flushed(t) /\ req'[t] = req[t]
  BY <1>1, FinishRequests
<1>3. CASE CommitUpdate(s)
  <2>1. UNCHANGED <<live, used>> /\ req[s].id \in live
    BY <1>1, <1>3 DEF CommitUpdate, LockInv, UpdatedRowsStay
  <2>2. \A i \in Ids : subs'[i] # subs[i] => i \in live
    BY <1>3, <2>1 DEF CommitUpdate, TInv, TypeOK
  <2>3. RowLocks' /\ UpdatedRowsStay' /\ InsertsExclusive'
    BY <1>2, <2>1 DEF LockInv, RowLocks, UpdatedRowsStay, InsertsExclusive
  <2>4. OneRowPerEvaluator' /\ NoOrphanSubmission'
    BY <2>1, <2>2 DEF LockInv, OneRowPerEvaluator, NoOrphanSubmission
  <2>5. QED
    BY <2>3, <2>4 DEF LockInv
<1>4. CASE CommitAdd(s)
  <2>1. /\ live' = {req[s].id} /\ used' = used \cup {req[s].id} /\ subs' = subs
        /\ req[s].id \notin used
        /\ live = {}
    BY <1>1, <1>4 DEF CommitAdd, LockInv, InsertsExclusive
  <2>2. \A t \in Sessions : Flushed(t)' => req'[t].op # "add" /\ req'[t].op \notin Updates
                                             /\ req'[t].id # req[s].id
    <3> SUFFICES ASSUME NEW t \in Sessions, Flushed(t)'
                 PROVE  req'[t].op # "add" /\ req'[t].op \notin Updates
                          /\ req'[t].id # req[s].id
      OBVIOUS
    <3>1. t # s /\ Flushed(t) /\ req'[t] = req[t] /\ phase[t] # "idle"
      BY <1>2 DEF Flushed
    <3>2. req[t].op # "add"
      BY <1>1, <1>4, <3>1 DEF CommitAdd, LockInv, InsertsExclusive
    <3>3. req[t].id \in used
      BY <3>1, <3>2 DEF TInv, WellFormed
    <3>4. req[t].op \notin Updates
      BY <2>1, <3>1 DEF LockInv, UpdatedRowsStay
    <3>5. QED
      BY <2>1, <3>1, <3>2, <3>3, <3>4
  <2>3. RowLocks' /\ UpdatedRowsStay' /\ InsertsExclusive'
    BY <2>1, <2>2 DEF RowLocks, UpdatedRowsStay, InsertsExclusive
  <2>4. OneRowPerEvaluator' /\ NoOrphanSubmission'
    BY <2>1 DEF LockInv, OneRowPerEvaluator, NoOrphanSubmission
  <2>5. QED
    BY <2>3, <2>4 DEF LockInv
<1>5. CASE CommitDrop(s)
  <2>1. /\ live' = live \ {req[s].id} /\ used' = used
        /\ subs' = [subs EXCEPT ![req[s].id] = <<>>]
    BY <1>5 DEF CommitDrop
  <2>2. RowLocks'
    BY <1>2, <2>1 DEF LockInv, RowLocks
  <2>3. UpdatedRowsStay'
    <3> SUFFICES ASSUME NEW t \in Sessions, Flushed(t)', req'[t].op \in Updates
                 PROVE  req'[t].id \in live'
      BY DEF UpdatedRowsStay
    <3>1. t # s /\ Flushed(t) /\ req'[t] = req[t]
      BY <1>2
    <3>2. req[t].id \in live
      BY <3>1 DEF LockInv, UpdatedRowsStay
    <3>3. req[t].id # req[s].id
      BY <1>1, <3>1, <3>2 DEF LockInv, RowLocks
    <3>4. QED
      BY <2>1, <3>1, <3>2, <3>3
  <2>4. InsertsExclusive'
    BY <1>2, <2>1 DEF LockInv, InsertsExclusive
  <2>5. OneRowPerEvaluator' /\ NoOrphanSubmission'
    BY <2>1 DEF LockInv, OneRowPerEvaluator, NoOrphanSubmission, TInv, TypeOK
  <2>6. QED
    BY <2>2, <2>3, <2>4, <2>5 DEF LockInv
<1>6. QED
  BY <1>3, <1>4, <1>5

LEMMA NextLocks == TInv /\ LockInv /\ [Next]_vars => LockInv'
<1> SUFFICES ASSUME TInv, LockInv, [Next]_vars
             PROVE  LockInv'
  OBVIOUS
<1>1. ASSUME NEW s \in Sessions, Start(s)
      PROVE  LockInv'
  <2>1. PICK op \in Ops, i \in live \cup {NoId}, was \in Row, new \in Row :
          Begin(s, op, i, was, new)
    BY <1>1, StartShape DEF TInv
  <2>2. UNCHANGED <<live, used, subs>>
    BY <2>1 DEF Begin, table
  <2>3. \A t \in Sessions : Flushed(t)' => Flushed(t) /\ req'[t] = req[t]
    BY <2>1 DEF Begin, Flushed, TInv, TypeOK
  <2>4. QED
    BY <2>2, <2>3, NoNewLocks
<1>2. ASSUME NEW s \in Sessions, FlushUpdate(s) \/ FlushAdd(s) \/ FlushDrop(s)
      PROVE  LockInv'
  BY <1>2, FlushLocks
<1>3. ASSUME NEW s \in Sessions, CommitUpdate(s) \/ CommitAdd(s) \/ CommitDrop(s)
      PROVE  LockInv'
  BY <1>3, CommitLocks
<1>4. ASSUME NEW s \in Sessions, CommitUnchanged(s) \/ Fail(s) \/ Rollback(s)
      PROVE  LockInv'
  <2>1. Finish(s) /\ UNCHANGED <<live, used, subs>>
    BY <1>4 DEF CommitUnchanged, Fail, Rollback, table
  <2>2. QED
    BY <2>1, FinishRequests, NoNewLocks
<1>5. CASE Restart
  BY <1>5, NoNewLocks DEF Restart, Flushed, table
<1>6. CASE Tick \/ UNCHANGED vars
  BY <1>6, NoNewLocks DEF Tick, Flushed, table, vars
<1>7. QED
  BY <1>1, <1>2, <1>3, <1>4, <1>5, <1>6 DEF Next, Write, End

LEMMA LocksInvariant == Spec => [](TInv /\ LockInv)
  BY InitTypes, NextTypes, InitLocks, NextLocks, PTL DEF Spec

\* However many managers add at once, the pair never has two assignments.
THEOREM UniqueAssignment == Spec => []OneRowPerEvaluator
  BY LocksInvariant, PTL DEF LockInv

\* However drops and submits race, no submission is left without its assignment.
THEOREM SubmissionsHaveRows == Spec => []NoOrphanSubmission
  BY LocksInvariant, PTL DEF LockInv
-----------------------------------------------------------------------------
(* What the handlers decided, and what that makes of the row *)

\* A request under way carries what its handler may have decided on the row it
\* read, at a time that is past.
Decided(r) ==
  /\ r.op = "save" => CanSave(r.was.state) /\ r.new.state = "IN_PROGRESS"
  /\ r.op = "submit" => /\ CanSubmit(r.was.state) /\ r.new.state = "SUBMITTED"
                        /\ r.new.submitted_at \in 1 .. clock
                        /\ InWindow(r.new.submitted_at)
                        /\ r.new.late_flag = IsLate(r.new.submitted_at)
  /\ r.op = "return" => r.was.state = "SUBMITTED" /\ r.new.state = "RETURNED_FOR_REVISION"
  /\ r.op = "approve" => r.was.state = "SUBMITTED" /\ r.new.state = "ARCHIVED"
  /\ r.op \in Updates \ {"submit"} => /\ r.new.submitted_at = r.was.submitted_at
                                      /\ r.new.late_flag = r.was.late_flag

AllDecided == \A s \in Sessions : phase[s] # "idle" => Decided(req[s])

\* A request that read work as handed in is still right that it was, as long as
\* the row exists.
HandedInKnown ==
  \A s \in Sessions :
    phase[s] # "idle" /\ req[s].op \in Updates /\ req[s].id \in live
      /\ req[s].was.state \in HandedIn => subs[req[s].id] # <<>>

\* late_flag is set on late work only after the deadline, and is never cleared:
\* whoever read it set finds it set.
LateKnown ==
  /\ \A i \in live : rows[i].late_flag => IsLate(clock)
  /\ \A s \in Sessions :
       phase[s] # "idle" /\ req[s].op \in Updates /\ req[s].was.late_flag =>
         /\ req[s].id \in live => rows[req[s].id].late_flag
         /\ req[s].new.late_flag

SubInv == HandedInHasSubmission /\ HandedInKnown
TimeInv == LateIsFlagged /\ LateKnown

IInv == TInv /\ LockInv /\ AllDecided /\ SubInv /\ TimeInv

\* What a handler decides on a live row satisfies the invariant.
LEMMA StartDecides ==
  ASSUME IInv, NEW s \in Sessions, Start(s)
  PROVE  \E op \in Ops, i \in live \cup {NoId}, was \in Row, new \in Row :
           /\ Begin(s, op, i, was, new)
           /\ op # "add" => i \in live /\ was = rows[i]
           /\ Decided([op |-> op, id |-> i, was |-> was, new |-> new])
           /\ op = "submit" /\ was.late_flag => new.late_flag
<1>1. \A i \in live : rows[i] \in Row
  BY DEF IInv, TInv, TypeOK
<1>2. {"save", "submit", "return", "approve", "add", "drop"} \subseteq Ops
  BY DEF Ops, Updates
<1>3. CASE \E i \in live, v \in Values : BeginSave(s, i, v)
  <2>1. PICK i \in live, v \in Values : BeginSave(s, i, v)
    BY <1>3
  <2> DEFINE new == [rows[i] EXCEPT !.state = "IN_PROGRESS", !.draft = v]
  <2>2. /\ new \in Row /\ new.state = "IN_PROGRESS"
        /\ new.submitted_at = rows[i].submitted_at /\ new.late_flag = rows[i].late_flag
    BY <1>1 DEF Row, AssignmentStates
  <2>3. Begin(s, "save", i, rows[i], new) /\ CanSave(rows[i].state)
    BY <2>1 DEF BeginSave
  <2>4. Decided([op |-> "save", id |-> i, was |-> rows[i], new |-> new])
    BY <2>2, <2>3 DEF Decided
  <2> HIDE DEF new
  <2>5. QED
    BY <1>1, <1>2, <2>2, <2>3, <2>4
<1>4. CASE \E i \in live, v \in Values : BeginSubmit(s, i, v)
  <2>1. PICK i \in live, v \in Values : BeginSubmit(s, i, v)
    BY <1>4
  <2> DEFINE new == [rows[i] EXCEPT !.state = "SUBMITTED", !.draft = v,
                       !.submitted_at = clock, !.late_flag = IsLate(clock)]
  <2>2. clock \in 1 .. MaxTime
    BY DEF IInv, TInv, TypeOK
  <2>3. clock \in Times /\ IsLate(clock) \in BOOLEAN
    BY <2>2, TimeFacts
  <2>4. /\ new \in Row /\ new.state = "SUBMITTED"
        /\ new.submitted_at = clock /\ new.late_flag = IsLate(clock)
    BY <1>1, <2>3 DEF Row, AssignmentStates
  <2>5. Begin(s, "submit", i, rows[i], new) /\ CanSubmit(rows[i].state) /\ InWindow(clock)
    BY <2>1 DEF BeginSubmit
  <2>6. clock \in 1 .. clock
    BY <2>2, TimeAssumption
  <2>7. Decided([op |-> "submit", id |-> i, was |-> rows[i], new |-> new])
    BY <2>4, <2>5, <2>6 DEF Decided
  <2>8. rows[i].late_flag => new.late_flag
    BY <2>4 DEF IInv, TimeInv, LateKnown
  <2> HIDE DEF new
  <2>9. QED
    BY <1>1, <1>2, <2>4, <2>5, <2>7, <2>8
<1>5. CASE \E i \in live : BeginReturn(s, i)
  <2>1. PICK i \in live : BeginReturn(s, i)
    BY <1>5
  <2> DEFINE new == [rows[i] EXCEPT !.state = "RETURNED_FOR_REVISION"]
  <2>2. /\ new \in Row /\ new.state = "RETURNED_FOR_REVISION"
        /\ new.submitted_at = rows[i].submitted_at /\ new.late_flag = rows[i].late_flag
    BY <1>1 DEF Row, AssignmentStates
  <2>3. Begin(s, "return", i, rows[i], new) /\ rows[i].state = "SUBMITTED"
    BY <2>1 DEF BeginReturn, CanTransition, AllowedTransitions
  <2>4. Decided([op |-> "return", id |-> i, was |-> rows[i], new |-> new])
    BY <2>2, <2>3 DEF Decided
  <2> HIDE DEF new
  <2>5. QED
    BY <1>1, <1>2, <2>2, <2>3, <2>4
<1>6. CASE \E i \in live : BeginApprove(s, i)
  <2>1. PICK i \in live : BeginApprove(s, i)
    BY <1>6
  <2> DEFINE new == [rows[i] EXCEPT !.state = "ARCHIVED", !.archived = TRUE]
  <2>2. /\ new \in Row /\ new.state = "ARCHIVED"
        /\ new.submitted_at = rows[i].submitted_at /\ new.late_flag = rows[i].late_flag
    BY <1>1 DEF Row, AssignmentStates
  <2>3. Begin(s, "approve", i, rows[i], new) /\ rows[i].state = "SUBMITTED"
    BY <2>1 DEF BeginApprove, CanTransition, AllowedTransitions
  <2>4. Decided([op |-> "approve", id |-> i, was |-> rows[i], new |-> new])
    BY <2>2, <2>3 DEF Decided
  <2> HIDE DEF new
  <2>5. QED
    BY <1>1, <1>2, <2>2, <2>3, <2>4
<1>7. CASE \E i \in live : BeginDrop(s, i)
  <2>1. PICK i \in live : Begin(s, "drop", i, rows[i], rows[i])
    BY <1>7 DEF BeginDrop
  <2>2. Decided([op |-> "drop", id |-> i, was |-> rows[i], new |-> rows[i]])
    BY DEF Decided, Updates
  <2>3. QED
    BY <1>1, <1>2, <2>1, <2>2
<1>8. CASE BeginAdd(s)
  <2>1. Begin(s, "add", NoId, NewRow, NewRow)
    BY <1>8 DEF BeginAdd
  <2>2. Decided([op |-> "add", id |-> NoId, was |-> NewRow, new |-> NewRow])
    BY DEF Decided, Updates
  <2>3. QED
    BY <1>2, <2>1, <2>2, NewRowType
<1>9. QED
  BY <1>3, <1>4, <1>5, <1>6, <1>7, <1>8 DEF Start

\* IsLate depends on the deadline only, and time does not go back.
LEMMA LateStays ==
  ASSUME NEW t \in Nat, NEW u \in Nat, t <= u, IsLate(t)
  PROVE  IsLate(u)
  BY TimeAssumption DEF IsLate

\* The facts about requests and rows hold on while no row changes and no request
\* but those that have ended does.
LEMMA NoNewDecisions ==
  ASSUME IInv, TInv', UNCHANGED <<live, rows, subs>>, clock <= clock',
         \A t \in Sessions : phase'[t] # "idle" =>
           /\ phase[t] # "idle"
           /\ req'[t].op = req[t].op /\ req'[t].was = req[t].was /\ req'[t].new = req[t].new
           /\ req'[t].op # "add" => req'[t].id = req[t].id
  PROVE  (AllDecided /\ SubInv /\ TimeInv)'
<1>1. clock \in Nat /\ clock' \in Nat /\ clock >= 1
  BY TimeAssumption DEF IInv, TInv, TypeOK
<1>2. AllDecided'
  <2> SUFFICES ASSUME NEW t \in Sessions, phase'[t] # "idle"
               PROVE  Decided(req[t])'
    BY DEF AllDecided
  <2>1. Decided(req[t])
    BY DEF IInv, AllDecided
  <2>2. 1 .. clock \subseteq 1 .. clock'
    BY <1>1
  <2>3. QED
    BY <2>1, <2>2 DEF Decided, InWindow, IsLate
<1>3. SubInv'
  <2>1. HandedInHasSubmission'
    BY DEF IInv, SubInv, HandedInHasSubmission
  <2>2. HandedInKnown'
    BY DEF IInv, SubInv, HandedInKnown, Updates
  <2>3. QED
    BY <2>1, <2>2 DEF SubInv
<1>4. TimeInv'
  <2>1. LateIsFlagged'
    BY DEF IInv, TimeInv, LateIsFlagged, InWindow, IsLate
  <2>2. \A i \in live' : rows'[i].late_flag => IsLate(clock')
    BY <1>1, LateStays DEF IInv, TimeInv, LateKnown
  <2>3. LateKnown'
    BY <2>2 DEF IInv, TimeInv, LateKnown, Updates, IsLate
  <2>4. QED
    BY <2>1, <2>3 DEF TimeInv
<1>5. QED
  BY <1>2, <1>3, <1>4

LEMMA StartKeeps ==
  ASSUME IInv, NEW s \in Sessions, Start(s)
  PROVE  (AllDecided /\ SubInv /\ TimeInv)'
<1>1. PICK op \in Ops, i \in live \cup {NoId}, was \in Row, new \in Row :
        /\ Begin(s, op, i, was, new)
        /\ op # "add" => i \in live /\ was = rows[i]
        /\ Decided([op |-> op, id |-> i, was |-> was, new |-> new])
        /\ op = "submit" /\ was.late_flag => new.late_flag
  BY StartDecides
<1> DEFINE r == [op |-> op, id |-> i, was |-> was, new |-> new]
<1>2. UNCHANGED <<clock, rows, live, subs>>
  BY <1>1 DEF Begin, table
<1>3. \A t \in Sessions : IF t = s THEN phase'[t] = "read" /\ req'[t] = r
                                   ELSE phase'[t] = phase[t] /\ req'[t] = req[t]
  BY <1>1 DEF Begin, IInv, TInv, TypeOK
<1>4. Decided(r) /\ r.op = op /\ r.id = i /\ r.was = was /\ r.new = new
  BY <1>1
<1> HIDE DEF r
<1>5. AllDecided'
  <2> SUFFICES ASSUME NEW t \in Sessions, phase'[t] # "idle"
               PROVE  Decided(req[t])'
    BY DEF AllDecided
  <2>1. Decided(req'[t])
    BY <1>3, <1>4 DEF IInv, AllDecided
  <2>2. QED
    BY <1>2, <2>1 DEF Decided, InWindow, IsLate
<1>6. op \in Updates => i \in live /\ was = rows[i]
  BY <1>1 DEF Updates
<1>7. SubInv'
  <2>1. HandedInHasSubmission'
    BY <1>2 DEF IInv, SubInv, HandedInHasSubmission
  <2>2. HandedInKnown'
    BY <1>2, <1>3, <1>4, <1>6 DEF IInv, SubInv, HandedInKnown, HandedInHasSubmission
  <2>3. QED
    BY <2>1, <2>2 DEF SubInv
<1>8. TimeInv'
  <2>1. LateIsFlagged'
    BY <1>2 DEF IInv, TimeInv, LateIsFlagged, InWindow, IsLate
  <2>2. op \in Updates /\ was.late_flag => rows[i].late_flag /\ new.late_flag
    BY <1>1, <1>4, <1>6 DEF Decided
  <2>3. LateKnown'
    BY <1>2, <1>3, <1>4, <2>2 DEF IInv, TimeInv, LateKnown, IsLate
  <2>4. QED
    BY <2>1, <2>3 DEF TimeInv
<1>9. QED
  BY <1>5, <1>7, <1>8

LEMMA UpdateKeeps ==
  ASSUME IInv, NEW s \in Sessions, CommitUpdate(s)
  PROVE  (AllDecided /\ SubInv /\ TimeInv)'
<1> DEFINE r == req[s]
           row == rows[r.id]
           merged == Merge(row, r.was, r.new)
<1>1. /\ r \in Requests /\ r.op \in Updates /\ r.id \in live /\ live \subseteq Ids
      /\ Decided(r)
      /\ r.was \in Row /\ r.new \in Row /\ row \in Row /\ merged \in Row
  <2>1. Flushed(s) /\ r.op \in Updates
    BY DEF CommitUpdate, Flushed
  <2>2. r \in Requests /\ Decided(r)
    BY <2>1 DEF Flushed, IInv, TInv, WellFormed, AllDecided
  <2>3. r.id \in live /\ live \subseteq Ids
    BY <2>1 DEF IInv, LockInv, UpdatedRowsStay, TInv, TypeOK
  <2>4. r.was \in Row /\ r.new \in Row /\ row \in Row
    BY <2>2, <2>3 DEF Requests, IInv, TInv, TypeOK
  <2>5. QED
    BY <2>1, <2>2, <2>3, <2>4, MergeType
<1>2. /\ UNCHANGED <<clock, live>>
      /\ \A i \in live : rows'[i] = IF i = r.id THEN merged ELSE rows[i]
  BY <1>1 DEF CommitUpdate, IInv, TInv, TypeOK
<1>3. \A i \in live : subs[i] # <<>> \/ (i = r.id /\ r.op = "submit") => subs'[i] # <<>>
  <2>1. r.new.draft \in Values /\ \A i \in live : subs[i] \in Seq(Values)
    BY <1>1 DEF Row, IInv, TInv, TypeOK
  <2>2. Append(subs[r.id], r.new.draft) # <<>>
    BY <1>1, <2>1, AppendProperties
  <2>3. CASE r.op = "submit"
    BY <1>1, <2>2, <2>3 DEF CommitUpdate, IInv, TInv, TypeOK
  <2>4. CASE r.op # "submit"
    BY <2>4 DEF CommitUpdate
  <2>5. QED
    BY <2>3, <2>4
<1>4. \A t \in Sessions : phase'[t] # "idle" => phase[t] # "idle" /\ req'[t] = req[t]
  <2>1. Finish(s)
    BY DEF CommitUpdate
  <2>2. QED
    BY <2>1, FinishRequests DEF IInv
<1>5. phase[s] # "idle"
  BY DEF CommitUpdate
<1>6. AllDecided'
  <2> SUFFICES ASSUME NEW t \in Sessions, phase'[t] # "idle"
               PROVE  Decided(req[t])'
    BY DEF AllDecided
  <2>1. Decided(req[t]) /\ req'[t] = req[t]
    BY <1>4 DEF IInv, AllDecided
  <2>2. QED
    BY <1>2, <2>1 DEF Decided, InWindow, IsLate
<1>7. SubInv'
  <2>1. merged.state \in HandedIn => subs'[r.id] # <<>>
    <3>1. merged.state = IF r.new.state # r.was.state THEN r.new.state ELSE row.state
      BY DEF Merge, Pick
    <3>2. row.state \in HandedIn => subs[r.id] # <<>>
      BY <1>1 DEF IInv, SubInv, HandedInHasSubmission
    <3>3. r.was.state \in HandedIn => subs[r.id] # <<>>
      BY <1>1, <1>5 DEF IInv, SubInv, HandedInKnown
    <3>4. r.new.state \in HandedIn => r.op = "submit" \/ r.was.state = "SUBMITTED"
      BY <1>1 DEF Decided, HandedIn, Updates
    <3>5. QED
      BY <1>1, <1>3, <3>1, <3>2, <3>3, <3>4 DEF HandedIn
  <2>2. HandedInHasSubmission'
    BY <1>2, <1>3, <2>1 DEF IInv, SubInv, HandedInHasSubmission
  <2>3. HandedInKnown'
    BY <1>2, <1>3, <1>4 DEF IInv, SubInv, HandedInKnown
  <2>4. QED
    BY <2>2, <2>3 DEF SubInv
<1>8. TimeInv'
  <2>1. /\ merged.submitted_at = IF r.new.submitted_at # r.was.submitted_at
                                   THEN r.new.submitted_at ELSE row.submitted_at
        /\ merged.late_flag = IF r.new.late_flag # r.was.late_flag
                                THEN r.new.late_flag ELSE row.late_flag
    BY DEF Merge, Pick
  <2>2. /\ row.late_flag \in BOOLEAN /\ r.new.late_flag \in BOOLEAN
        /\ r.was.late_flag \in BOOLEAN
        /\ row.late_flag => IsLate(clock)
    BY <1>1 DEF Row, IInv, TimeInv, LateKnown
  <2>3. r.was.late_flag => row.late_flag /\ r.new.late_flag
    BY <1>1, <1>5 DEF IInv, TimeInv, LateKnown
  <2>4. /\ row.submitted_at > Deadline => row.late_flag
        /\ row.submitted_at # 0 => InWindow(row.submitted_at)
    BY <1>1 DEF IInv, TimeInv, LateIsFlagged
  <2>5. row.late_flag \/ r.new.late_flag => merged.late_flag
    BY <2>1, <2>2, <2>3
  <2>6. r.op # "submit" => merged.submitted_at = row.submitted_at
                             /\ merged.late_flag = row.late_flag
    BY <1>1, <2>1 DEF Decided
  <2>7. r.op = "submit" => /\ InWindow(r.new.submitted_at)
                           /\ r.new.submitted_at > Deadline => r.new.late_flag
                           /\ r.new.late_flag => IsLate(clock)
    <3> SUFFICES ASSUME r.op = "submit"
                 PROVE  /\ InWindow(r.new.submitted_at)
                        /\ r.new.submitted_at > Deadline => r.new.late_flag
                        /\ r.new.late_flag => IsLate(clock)
      OBVIOUS
    <3>1. /\ r.new.submitted_at \in 1 .. clock /\ InWindow(r.new.submitted_at)
          /\ r.new.late_flag = IsLate(r.new.submitted_at)
      BY <1>1 DEF Decided
    <3>2. clock \in Nat
      BY TimeAssumption DEF IInv, TInv, TypeOK
    <3>3. r.new.submitted_at > Deadline => IsLate(r.new.submitted_at)
      BY DEF IsLate
    <3>4. IsLate(r.new.submitted_at) => IsLate(clock)
      <4>1. r.new.submitted_at \in Nat /\ r.new.submitted_at <= clock
        BY <3>1, <3>2
      <4>2. QED
        BY <3>2, <4>1, LateStays
    <3>5. QED
      BY <3>1, <3>3, <3>4
  <2>8. /\ merged.submitted_at > Deadline => merged.late_flag
        /\ merged.submitted_at # 0 => InWindow(merged.submitted_at)
        /\ merged.late_flag => IsLate(clock)
    <3>1. CASE r.op # "submit"
      BY <2>2, <2>4, <2>6, <3>1
    <3>2. CASE r.op = "submit"
      BY <2>1, <2>2, <2>4, <2>5, <2>7, <3>2
    <3>3. QED
      BY <3>1, <3>2
  <2>9. LateIsFlagged'
    BY <1>2, <2>8 DEF IInv, TimeInv, LateIsFlagged, InWindow, IsLate
  <2>10. LateKnown'
    BY <1>2, <1>4, <2>5, <2>8 DEF IInv, TimeInv, LateKnown, IsLate
  <2>11. QED
    BY <2>9, <2>10 DEF TimeInv
<1>9. QED
  BY <1>6, <1>7, <1>8

LEMMA RosterKeeps ==
  ASSUME IInv, NEW s \in Sessions, CommitAdd(s) \/ CommitDrop(s)
  PROVE  (AllDecided /\ SubInv /\ TimeInv)'
<1>1. Finish(s) /\ clock' = clock /\ req[s].id \in Ids
  BY DEF CommitAdd, CommitDrop, IInv, TInv, WellFormed
<1>2. \A t \in Sessions : phase'[t] # "idle" =>
        t # s /\ phase[t] # "idle" /\ req'[t] = req[t]
  BY <1>1, FinishRequests DEF IInv
<1>3. AllDecided'
  <2> SUFFICES ASSUME NEW t \in Sessions, phase'[t] # "idle"
               PROVE  Decided(req[t])'
    BY DEF AllDecided
  <2>1. Decided(req[t]) /\ req'[t] = req[t]
    BY <1>2 DEF IInv, AllDecided
  <2>2. QED
    BY <1>1, <2>1 DEF Decided, InWindow, IsLate
<1>4. CASE CommitAdd(s)
  <2>1. /\ live' = {req[s].id} /\ rows'[req[s].id] = NewRow /\ req[s].id \notin used
    BY <1>1, <1>4 DEF CommitAdd, Flushed, IInv, LockInv, InsertsExclusive, TInv, TypeOK
  <2>2. \A t \in Sessions : phase'[t] # "idle" /\ req'[t].op \in Updates =>
          req'[t].id \notin live'
    BY <1>2, <2>1 DEF IInv, TInv, WellFormed, Updates
  <2>3. SubInv'
    BY <2>1, <2>2 DEF SubInv, HandedInHasSubmission, HandedInKnown, HandedIn, NewRow
  <2>4. LateIsFlagged'
    BY <2>1, TimeAssumption DEF LateIsFlagged, NewRow
  <2>5. LateKnown'
    BY <1>2, <2>1, <2>2 DEF IInv, TimeInv, LateKnown, NewRow
  <2>6. QED
    BY <1>3, <2>3, <2>4, <2>5 DEF TimeInv
<1>5. CASE CommitDrop(s)
  <2>1. /\ live' = live \ {req[s].id}
        /\ \A i \in live' : rows'[i] = rows[i] /\ subs'[i] = subs[i]
    BY <1>5 DEF CommitDrop, IInv, TInv, TypeOK
  <2>2. SubInv'
    BY <1>2, <2>1 DEF IInv, SubInv, HandedInHasSubmission, HandedInKnown
  <2>3. LateIsFlagged'
    BY <2>1 DEF IInv, TimeInv, LateIsFlagged, InWindow, IsLate
  <2>4. LateKnown'
    BY <1>1, <1>2, <2>1 DEF IInv, TimeInv, LateKnown, IsLate
  <2>5. QED
    BY <1>3, <2>2, <2>3, <2>4 DEF TimeInv
<1>6. QED
  BY <1>4, <1>5

LEMMA InitIInv == Init => IInv
<1> SUFFICES ASSUME Init
             PROVE  IInv
  OBVIOUS
<1>1. \A s \in Sessions : phase[s] = "idle"
  BY DEF Init
<1>2. \A i \in live : rows[i] = NewRow
  BY DEF Init
<1>3. AllDecided
  BY <1>1 DEF AllDecided
<1>4. SubInv
  BY <1>1, <1>2 DEF SubInv, HandedInHasSubmission, HandedInKnown, HandedIn, NewRow
<1>5. TimeInv
  BY <1>1, <1>2, TimeAssumption DEF TimeInv, LateIsFlagged, LateKnown, NewRow
<1>6. QED
  BY <1>3, <1>4, <1>5, InitTypes, InitLocks DEF IInv

LEMMA NextIInv == IInv /\ [Next]_vars => IInv'
<1> SUFFICES ASSUME IInv, [Next]_vars
             PROVE  IInv'
  OBVIOUS
<1>1. TInv' /\ LockInv'
  BY NextTypes, NextLocks DEF IInv
<1>2. clock \in Nat
  BY TimeAssumption DEF IInv, TInv, TypeOK
<1>3. ASSUME NEW s \in Sessions, Start(s)
      PROVE  (AllDecided /\ SubInv /\ TimeInv)'
  BY <1>3, StartKeeps
<1>4. ASSUME NEW s \in Sessions, FlushUpdate(s) \/ FlushAdd(s) \/ FlushDrop(s)
      PROVE  (AllDecided /\ SubInv /\ TimeInv)'
  <2>1. /\ UNCHANGED <<clock, live, rows, subs>>
        /\ phase[s] = "read" /\ phase' = [phase EXCEPT ![s] = "flushed"]
    BY <1>4 DEF FlushUpdate, FlushAdd, FlushDrop, Flush, table
  <2>2. req[s] \in Requests
    BY <2>1 DEF IInv, TInv, WellFormed
  <2>3. \A t \in Sessions : phase'[t] # "idle" =>
          /\ phase[t] # "idle"
          /\ req'[t].op = req[t].op /\ req'[t].was = req[t].was /\ req'[t].new = req[t].new
          /\ req'[t].op # "add" => req'[t].id = req[t].id
    <3>1. CASE FlushUpdate(s) \/ FlushDrop(s)
      BY <2>1, <3>1 DEF FlushUpdate, FlushDrop, IInv, TInv, TypeOK
    <3>2. CASE FlushAdd(s)
      BY <2>1, <2>2, <3>2 DEF FlushAdd, IInv, TInv, TypeOK, Requests
    <3>3. QED
      BY <1>4, <3>1, <3>2
  <2>4. QED
    BY <1>1, <1>2, <2>1, <2>3, NoNewDecisions
<1>5. ASSUME NEW s \in Sessions, CommitUnchanged(s) \/ Fail(s) \/ Rollback(s)
      PROVE  (AllDecided /\ SubInv /\ TimeInv)'
  <2>1. Finish(s) /\ UNCHANGED <<clock, live, rows, subs>>
    BY <1>5 DEF CommitUnchanged, Fail, Rollback, table
  <2>2. \A t \in Sessions : phase'[t] # "idle" => phase[t] # "idle" /\ req'[t] = req[t]
    BY <2>1, FinishRequests DEF IInv
  <2>3. QED
    BY <1>1, <1>2, <2>1, <2>2, NoNewDecisions
<1>6. ASSUME NEW s \in Sessions, CommitUpdate(s) \/ CommitAdd(s) \/ CommitDrop(s)
      PROVE  (AllDecided /\ SubInv /\ TimeInv)'
  BY <1>6, UpdateKeeps, RosterKeeps
<1>7. ASSUME Restart
      PROVE  (AllDecided /\ SubInv /\ TimeInv)'
  <2>1. /\ UNCHANGED <<live, rows, subs>>
        /\ clock <= clock'
        /\ \A t \in Sessions : phase'[t] = "idle"
    BY <1>2, <1>7 DEF Restart, table
  <2>2. QED
    BY <1>1, <1>2, <2>1, NoNewDecisions
<1>8. ASSUME Tick \/ UNCHANGED vars
      PROVE  (AllDecided /\ SubInv /\ TimeInv)'
  <2>1. UNCHANGED <<live, rows, subs, phase, req>> /\ clock <= clock'
    BY <1>2, <1>8 DEF Tick, vars, table
  <2>2. \A t \in Sessions : phase'[t] = phase[t] /\ req'[t] = req[t]
    BY <2>1
  <2>3. QED
    BY <1>1, <2>1, <2>2, NoNewDecisions
<1>9. (AllDecided /\ SubInv /\ TimeInv)'
  <2>1. ASSUME NEW s \in Sessions, Start(s) \/ Write(s) \/ End(s) \/ Rollback(s)
        PROVE  (AllDecided /\ SubInv /\ TimeInv)'
    BY <1>3, <1>4, <1>5, <1>6, <2>1 DEF Write, End
  <2>2. QED
    BY <1>7, <1>8, <2>1 DEF Next
<1>10. QED
  BY <1>1, <1>9 DEF IInv

LEMMA InductiveInvariant == Spec => []IInv
  BY InitIInv, NextIInv, PTL DEF Spec

\* Whatever requests race, work that is submitted, returned or archived has a
\* submission on record.
THEOREM HandedInIsRecorded == Spec => []HandedInHasSubmission
<1>1. IInv => HandedInHasSubmission
  BY DEF IInv, SubInv
<1>2. QED
  BY <1>1, InductiveInvariant, PTL

\* Whatever requests race, a late submission carries late_flag and none is
\* stamped outside the make-up window.
THEOREM LateWorkIsFlagged == Spec => []LateIsFlagged
<1>1. IInv => LateIsFlagged
  BY DEF IInv, TimeInv
<1>2. QED
  BY <1>1, InductiveInvariant, PTL
-----------------------------------------------------------------------------
(* The roster and its audit rows *)

\* Every identifier given out stands for one audited add, and every one without
\* a row for a drop that was audited at least once.
RosterInv == IsFiniteSet(used) /\ RosterIsAudited

\* Changes of an update leave the counts of the roster alone.
LEMMA UpdateAudit ==
  ASSUME NEW op, op \notin {"add", "drop"}, audit \in [add : Nat, drop : Nat, return : Nat]
  PROVE  /\ Audited(op).add = audit.add
         /\ Audited(op).drop = audit.drop
         /\ Audited(op).return = audit.return + IF op = "return" THEN 1 ELSE 0
<1>1. DOMAIN audit = {"add", "drop", "return"}
  OBVIOUS
<1>2. CASE op = "return"
  <2>1. Audited(op) = [audit EXCEPT !.return = @ + 1]
    BY <1>1, <1>2 DEF Audited
  <2>2. QED
    BY <1>2, <2>1
<1>3. CASE op # "return"
  <2>1. Audited(op) = audit
    BY <1>1, <1>3 DEF Audited
  <2>2. QED
    BY <1>3, <2>1
<1>4. QED
  BY <1>2, <1>3

\* An add and a drop are counted once.
LEMMA RosterAudit ==
  ASSUME audit \in [add : Nat, drop : Nat, return : Nat]
  PROVE  /\ Audited("add") = [audit EXCEPT !.add = @ + 1]
         /\ Audited("drop") = [audit EXCEPT !.drop = @ + 1]
<1>1. DOMAIN audit = {"add", "drop", "return"}
  OBVIOUS
<1>2. QED
  BY <1>1 DEF Audited

LEMMA InitRoster == Init => RosterInv
<1> SUFFICES ASSUME Init
             PROVE  RosterInv
  OBVIOUS
<1>1. IsFiniteSet(live)
  BY FS_EmptySet, FS_Singleton DEF Init
<1>2. used = live /\ used \ live = {}
  BY DEF Init
<1>3. Cardinality(used \ live) = 0
  BY <1>2, FS_EmptySet
<1>4. audit.add = Cardinality(live) /\ audit.drop = 0
  BY DEF Init
<1>5. QED
  BY <1>1, <1>2, <1>3, <1>4 DEF RosterInv, RosterIsAudited

LEMMA AddRoster ==
  ASSUME TInv, LockInv, RosterInv, NEW s \in Sessions, CommitAdd(s)
  PROVE  RosterInv'
<1> DEFINE i == req[s].id
<1>1. live = {} /\ i \notin used
  BY DEF CommitAdd, Flushed, LockInv, InsertsExclusive
<1>2. used' = used \cup {i} /\ used' \ live' = used \ live
  BY <1>1 DEF CommitAdd
<1>3. audit' = [audit EXCEPT !.add = @ + 1]
  BY RosterAudit DEF CommitAdd, TInv, TypeOK
<1>4. audit'.add = audit.add + 1 /\ audit'.drop = audit.drop
  BY <1>3 DEF TInv, TypeOK
<1>5. IsFiniteSet(used') /\ Cardinality(used') = Cardinality(used) + 1
  BY <1>1, <1>2, FS_AddElement DEF RosterInv
<1>6. QED
  BY <1>2, <1>4, <1>5 DEF RosterInv, RosterIsAudited

LEMMA DropRoster ==
  ASSUME TInv, LockInv, RosterInv, NEW s \in Sessions, CommitDrop(s)
  PROVE  RosterInv'
<1> DEFINE i == req[s].id
           gone == used \ live
<1>1. used' = used /\ used' \ live' \subseteq gone \cup {i}
  BY DEF CommitDrop
<1>2. audit' = [audit EXCEPT !.drop = @ + 1]
  BY RosterAudit DEF CommitDrop, TInv, TypeOK
<1>3. audit'.add = audit.add /\ audit'.drop = audit.drop + 1 /\ audit.drop \in Nat
  BY <1>2 DEF TInv, TypeOK
<1>4. IsFiniteSet(gone)
  BY FS_Subset DEF RosterInv
<1>5. /\ IsFiniteSet(gone \cup {i})
      /\ Cardinality(gone) \in Nat
      /\ Cardinality(gone \cup {i}) <= Cardinality(gone) + 1
  BY <1>4, FS_AddElement, FS_CardinalityType
<1>6. /\ Cardinality(used' \ live') <= Cardinality(gone \cup {i})
      /\ Cardinality(used' \ live') \in Nat /\ Cardinality(gone \cup {i}) \in Nat
  <2>1. used' \ live' \in SUBSET (gone \cup {i})
    BY <1>1
  <2>2. IsFiniteSet(used' \ live')
        /\ Cardinality(used' \ live') <= Cardinality(gone \cup {i})
    BY <1>5, <2>1, FS_Subset
  <2>3. QED
    BY <1>5, <2>2, FS_CardinalityType
<1>7. audit.add = Cardinality(used) /\ audit.drop >= Cardinality(gone)
  BY DEF RosterInv, RosterIsAudited
<1>8. audit'.drop >= Cardinality(used' \ live')
  <2> HIDE DEF gone
  <2>1. QED
    BY <1>3, <1>5, <1>6, <1>7
<1>9. QED
  BY <1>1, <1>3, <1>7, <1>8 DEF RosterInv, RosterIsAudited

LEMMA NextRoster == TInv /\ LockInv /\ RosterInv /\ [Next]_vars => RosterInv'
<1> SUFFICES ASSUME TInv, LockInv, RosterInv, [Next]_vars
             PROVE  RosterInv'
  OBVIOUS
<1>1. ASSUME UNCHANGED <<live, used>>, audit'.add = audit.add, audit'.drop = audit.drop
      PROVE  RosterInv'
  BY <1>1 DEF RosterInv, RosterIsAudited
<1>2. ASSUME UNCHANGED table
      PROVE  RosterInv'
  BY <1>1, <1>2 DEF table
<1>3. ASSUME NEW s \in Sessions, CommitUpdate(s)
      PROVE  RosterInv'
  <2>1. UNCHANGED <<live, used>> /\ audit' = Audited(req[s].op) /\ req[s].op \in Updates
    BY <1>3 DEF CommitUpdate
  <2>2. req[s].op \notin {"add", "drop"}
    BY <2>1 DEF Updates
  <2>3. QED
    BY <1>1, <2>1, <2>2, UpdateAudit DEF TInv, TypeOK
<1>4. ASSUME NEW s \in Sessions, Start(s)
      PROVE  RosterInv'
  BY <1>2, <1>4, StartShape DEF Begin, TInv
<1>5. ASSUME NEW s \in Sessions, Write(s) \/ CommitUnchanged(s) \/ Rollback(s)
      PROVE  RosterInv'
  BY <1>2, <1>5 DEF Write, FlushUpdate, FlushAdd, FlushDrop, Flush, Fail, CommitUnchanged,
                    Rollback
<1>6. ASSUME Restart \/ Tick \/ UNCHANGED vars
      PROVE  RosterInv'
  BY <1>2, <1>6 DEF Restart, Tick, vars, table
<1>7. QED
  BY <1>3, <1>4, <1>5, <1>6, AddRoster, DropRoster DEF Next, End

\* However many managers change the roster at once, and whatever fails or is
\* rolled back in between, the audit log counts every add exactly once and
\* every drop at least once.
THEOREM RosterChangesAreAudited == Spec => []RosterIsAudited
<1>1. RosterInv => RosterIsAudited
  BY DEF RosterInv
<1>2. Spec => []RosterInv
  BY LocksInvariant, InitRoster, NextRoster, PTL DEF Spec
<1>3. QED
  BY <1>1, <1>2, PTL
=============================================================================
