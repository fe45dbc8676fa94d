--------------------------- MODULE RestoresProofs ---------------------------
(***************************************************************************)
(* Proofs about Restores for any number of administrators, keys, archives, *)
(* restore events, days and faults.                                        *)
(***************************************************************************)
EXTENDS Restores, WellFoundedInduction, TLAPS

-----------------------------------------------------------------------------
(* The inductive invariant *)

\* What request r of task s looks like once it has come as far as p.
Form(s, p, r) ==
  /\ r \in Requests \cup {NoRequest}
  /\ p = "idle" <=> r = NoRequest
  /\ p = "made" => r.op = "nightly"
  /\ p = "done" => r.op = "end"
  /\ r.op = "nightly" <=> r.op # "none" /\ s = Scheduler
  /\ r.op \in {"create", "nightly", "stage"} => r.id \in Ids
  /\ r.op = "nightly" => r.day \in Days
  /\ r.op \in Decisions => r.no \in 1 .. MaxEvents
  /\ r.op = "end" => r.state \in Ended

Forms == \A s \in Tasks : Form(s, phase[s], req[s])

TInv == TypeOK /\ Forms

Makers == {s \in Tasks : req[s].op \in {"create", "nightly"}}

\* An archive under way is the only one of its number; its file exists, its row
\* does not.
FilesInv ==
  /\ \A s \in Makers : req[s].id \in disk \ rows
  /\ \A s, t \in Makers : req[s].id = req[t].id => s = t
  /\ FilesOutlastRetention

\* An archive is not deleted while a restore event refers to it or is about to.
RowsInv ==
  /\ \A s \in Writing({"stage"}) : req[s].id \in rows
  /\ \A t \in Writing(Prunes) : /\ ~RefusesDelete(req[t])
                                /\ \A s \in Writing({"stage"}) : req[s].id \notin req[t].old
  /\ RestorableOnRecord

Stagers == {s \in Tasks : req[s].op = "stage"}
Enders == {s \in Tasks : req[s].op = "end"}

\* A restore about to be staged has a number of its own, and its session has no
\* staged one; whoever is about to end a restore has not ended it before.
EventsInv ==
  /\ \A s \in Stagers : events[req[s].no] = NoEvent
  /\ \A s, t \in Stagers : req[s].no = req[t].no => s = t
  /\ \A s \in Stagers : \A n \in Staged : events[n].by # s
  /\ \A s \in Enders : events[req[s].no] # NoEvent
  /\ \A s \in Enders : phase[s] # "done" => ends[req[s].no][s] = 0
  /\ execute => \A s \in Enders : req[s].state # "committed"
  /\ OneStagedEach
  /\ EndsAreRecorded
  /\ NothingIsRestored

\* One decision is under way at a time, and the flag is on for the one restore that
\* is staged.
Orderly ==
  /\ \A s, t \in Stagers \cup Enders : s = t
  /\ \A s \in Stagers : Staged = {}
  /\ \A s \in Enders : Staged = IF phase[s] = "done" THEN {} ELSE {req[s].no}
  /\ \A m, n \in Staged : m = n
  /\ Staged # {} \/ Writing({"stage"}) # {} => flag # Off

FlagInv ==
  /\ calm => Orderly
  /\ TrafficIsHeld
  /\ MaintenanceHasCause

NightInv ==
  /\ req[Scheduler].op = "nightly" => nights = 0
  /\ nights > 0 => last = day
  /\ OneNightPerProcess

IInv == TInv /\ FilesInv /\ RowsInv /\ EventsInv /\ FlagInv /\ NightInv

-----------------------------------------------------------------------------
(* Numbers *)

\* A bounded set of numbers has a highest one.
LEMMA Highest ==
  ASSUME NEW N \in Nat, NEW S, S \subseteq 0 .. N, S # {}
  PROVE  Max(S) \in S /\ \A n \in S : n <= Max(S)
<1> DEFINE T == {k \in 0 .. N : N - k \in S}
<1>1. T \subseteq Nat /\ T # {}
  <2>1. PICK n \in S : n \in 0 .. N
    OBVIOUS
  <2>2. N - n \in 0 .. N /\ N - (N - n) = n
    BY <2>1
  <2>3. QED
    BY <2>1, <2>2
<1>2. PICK d \in T : \A e \in T : ~ (<<e, d>> \in OpToRel(<, Nat))
  BY <1>1, NatLessThanWellFounded, WFMin
<1> DEFINE m == N - d
<1>3. m \in S /\ d \in 0 .. N
  BY <1>2
<1>4. \A n \in S : m >= n
  <2> SUFFICES ASSUME NEW n \in S
               PROVE  m >= n
    OBVIOUS
  <2>1. n \in 0 .. N /\ N - n \in 0 .. N /\ N - (N - n) = n
    OBVIOUS
  <2>2. N - n \in T
    BY <2>1
  <2>3. ~ (N - n < d)
    <3> SUFFICES ASSUME N - n < d
                 PROVE  FALSE
      OBVIOUS
    <3> DEFINE e == N - n
    <3>1. e \in Nat /\ d \in Nat /\ e < d /\ e \in T
      BY <1>3, <2>1, <2>2
    <3> HIDE DEF e, T, m
    <3>2. <<e, d>> \in OpToRel(<, Nat)
      BY <3>1 DEF OpToRel
    <3>3. QED
      BY <1>2, <3>1, <3>2
  <2>4. QED
    BY <1>3, <2>1, <2>3
<1>5. \E x \in S : \A y \in S : x >= y
  BY <1>3, <1>4
<1>6. Max(S) \in S /\ \A y \in S : Max(S) >= y
  BY <1>5 DEF Max
<1>7. QED
  BY <1>6

LEMMA HighestStaged ==
  ASSUME Staged # {}
  PROVE  Max(Staged) \in Staged
<1>1. MaxEvents \in Nat /\ Staged \subseteq 0 .. MaxEvents
  BY LimitsAssumption DEF Staged
<1>2. QED
  BY <1>1, Highest

\* The number of the next event is that of no event, committed or under way.
LEMMA NextIsFresh ==
  ASSUME TInv, NextEvent <= MaxEvents
  PROVE  /\ NextEvent \in 1 .. MaxEvents
         /\ events[NextEvent] = NoEvent
         /\ \A t \in Stagers : req[t].no # NextEvent
<1> DEFINE A == {n \in 1 .. MaxEvents : events[n] # NoEvent}
           B == {req[t].no : t \in {u \in Tasks : req[u].op = "stage"}}
           S == {0} \cup A \cup B
<1>1. MaxEvents \in Nat /\ S \subseteq 0 .. MaxEvents /\ S # {}
  BY LimitsAssumption DEF TInv, Forms, Form, Decisions
<1>2. Max(S) \in S /\ \A n \in S : n <= Max(S)
  BY <1>1, Highest
<1>3. NextEvent = Max(S) + 1
  BY DEF NextEvent
<1>4. NextEvent \in 1 .. MaxEvents /\ NextEvent \notin S
  BY <1>1, <1>2, <1>3
<1>5. QED
  BY <1>4 DEF Stagers

-----------------------------------------------------------------------------
(* Types *)

Phases == {"idle", "made", "read", "flushed", "done"}

LEMMA SetForm ==
  ASSUME TInv, NEW s \in Tasks, NEW p \in Phases, NEW r, Form(s, p, r),
         phase' = [phase EXCEPT ![s] = p], req' = [req EXCEPT ![s] = r]
  PROVE  /\ phase' \in [Tasks -> Phases]
         /\ req' \in [Tasks -> Requests \cup {NoRequest}]
         /\ \A t \in Tasks : /\ phase'[t] = IF t = s THEN p ELSE phase[t]
                            /\ req'[t] = IF t = s THEN r ELSE req[t]
         /\ Forms'
<1>1. r \in Requests \cup {NoRequest}
  BY DEF Form
<1>2. /\ phase' \in [Tasks -> Phases]
      /\ req' \in [Tasks -> Requests \cup {NoRequest}]
      /\ \A t \in Tasks : /\ phase'[t] = IF t = s THEN p ELSE phase[t]
                         /\ req'[t] = IF t = s THEN r ELSE req[t]
  BY <1>1 DEF TInv, TypeOK, Phases
<1>3. Forms'
  <2> SUFFICES ASSUME NEW t \in Tasks
               PROVE  Form(t, phase[t], req[t])'
    BY DEF Forms
  <2>1. Form(t, phase'[t], req'[t])
    BY <1>2 DEF TInv, Forms
  <2>2. QED
    BY <2>1 DEF Form
<1>4. QED
  BY <1>2, <1>3

LEMMA IdleForm == \A s \in Tasks : Form(s, "idle", NoRequest)
  BY DEF Form, NoRequest, Decisions

\* A task that goes on with its request.
LEMMA SetPhase ==
  ASSUME TInv, NEW s \in Tasks, NEW p \in {"read", "flushed", "done"},
         phase[s] # "idle", p = "done" => req[s].op = "end",
         phase' = [phase EXCEPT ![s] = p], req' = req
  PROVE  /\ phase' \in [Tasks -> Phases]
         /\ req' \in [Tasks -> Requests \cup {NoRequest}]
         /\ \A t \in Tasks : phase'[t] = IF t = s THEN p ELSE phase[t]
         /\ Forms'
<1>1. Form(s, p, req[s])
  BY DEF TInv, Forms, Form
<1>2. req' = [req EXCEPT ![s] = req[s]]
  BY DEF TInv, TypeOK
<1>3. p \in Phases
  BY DEF Phases
<1>4. QED
  BY <1>1, <1>2, <1>3, SetForm

\* A task that ends its request.
LEMMA SetIdle ==
  ASSUME TInv, NEW s \in Tasks, Finish(s)
  PROVE  /\ phase' \in [Tasks -> Phases]
         /\ req' \in [Tasks -> Requests \cup {NoRequest}]
         /\ \A t \in Tasks : /\ phase'[t] = IF t = s THEN "idle" ELSE phase[t]
                            /\ req'[t] = IF t = s THEN NoRequest ELSE req[t]
         /\ Forms'
<1>1. "idle" \in Phases
  BY DEF Phases
<1>2. phase' = [phase EXCEPT ![s] = "idle"] /\ req' = [req EXCEPT ![s] = NoRequest]
  BY DEF Finish, Enter
<1>3. QED
  BY <1>1, <1>2, IdleForm, SetForm

\* The requests the tasks make.
LEMMA NewForms ==
  /\ \A s \in Admins, i \in Ids : Form(s, "flushed", [op |-> "create", id |-> i])
  /\ \A s \in Admins, old \in SUBSET Ids : Form(s, "read", [op |-> "prune", old |-> old])
  /\ \A i \in Ids, d \in Days :
       /\ Form(Scheduler, "made", [op |-> "nightly", id |-> i, day |-> d])
       /\ \A old \in SUBSET Ids :
            Form(Scheduler, "read", [op |-> "nightly", id |-> i, day |-> d, old |-> old])
  /\ \A s \in Admins, i \in Ids, n \in 1 .. MaxEvents :
       Form(s, "read", [op |-> "stage", id |-> i, no |-> n])
  /\ \A s \in Admins, n \in 1 .. MaxEvents, state \in Ended :
       Form(s, "read", [op |-> "end", no |-> n, state |-> state])
<1>1. \A s \in Admins, i \in Ids : Form(s, "flushed", [op |-> "create", id |-> i])
  BY SchedulerAssumption DEF Form, Requests, NoRequest, Decisions
<1>2. \A s \in Admins, old \in SUBSET Ids : Form(s, "read", [op |-> "prune", old |-> old])
  BY SchedulerAssumption DEF Form, Requests, NoRequest, Decisions
<1>3. \A i \in Ids, d \in Days : Form(Scheduler, "made", [op |-> "nightly", id |-> i, day |-> d])
  BY DEF Form, Requests, NoRequest, Decisions
<1>4. \A i \in Ids, d \in Days, old \in SUBSET Ids :
        Form(Scheduler, "read", [op |-> "nightly", id |-> i, day |-> d, old |-> old])
  BY DEF Form, Requests, NoRequest, Decisions
<1>5. \A s \in Admins, i \in Ids, n \in 1 .. MaxEvents :
        Form(s, "read", [op |-> "stage", id |-> i, no |-> n])
  BY SchedulerAssumption DEF Form, Requests, NoRequest, Decisions
<1>6. \A s \in Admins, n \in 1 .. MaxEvents, state \in Ended :
        Form(s, "read", [op |-> "end", no |-> n, state |-> state])
  BY SchedulerAssumption DEF Form, Requests, NoRequest, Decisions
<1>7. QED
  BY <1>1, <1>2, <1>3, <1>4, <1>5, <1>6

\* What a task that ends a restore may decide.
LEMMA Outcome ==
  ASSUME NEW s, NEW i
  PROVE  Committing(s, i) \in Ended /\ (execute => Committing(s, i) = "aborted")
BY DEF Committing, Restored, Holders, Ended

\* A new file extends the archives by one.
LEMMA WriteFileTypes ==
  ASSUME TypeOK, WriteFile
  PROVE  /\ Len(made) + 1 \in Ids
         /\ made' \in Seq(Archive) /\ Len(made') = Len(made) + 1 /\ Len(made') <= MaxArchives
         /\ disk' \subseteq 1 .. Len(made') /\ rows' \subseteq 1 .. Len(made')
         /\ \A i \in 1 .. Len(made) : made'[i] = made[i]
<1>1. MaxArchives \in Nat /\ Len(made) \in Nat /\ made \in Seq(Archive) /\ Len(made) < MaxArchives
  BY LimitsAssumption DEF TypeOK, WriteFile
<1> DEFINE a == [day |-> day, key |-> key]
<1>2. a \in Archive /\ made' = Append(made, a)
  BY DEF TypeOK, WriteFile, Archive
<1> HIDE DEF a
<1>3. /\ made' \in Seq(Archive) /\ Len(made') = Len(made) + 1
      /\ \A i \in 1 .. Len(made) : made'[i] = made[i]
  BY <1>1, <1>2
<1>4. 1 .. Len(made') = (1 .. Len(made)) \cup {Len(made) + 1}
  BY <1>1, <1>3
<1>5. disk' \subseteq 1 .. Len(made') /\ rows' \subseteq 1 .. Len(made')
  BY <1>4 DEF TypeOK, WriteFile
<1>6. QED
  BY <1>1, <1>3, <1>5 DEF Ids

LEMMA ArchiveIds ==
  ASSUME TypeOK
  PROVE  /\ Len(made) \in Nat /\ MaxArchives \in Nat
         /\ disk \subseteq Ids /\ rows \subseteq Ids
         /\ Expired \subseteq rows /\ Expired \in SUBSET Ids
<1>1. Len(made) \in Nat /\ MaxArchives \in Nat /\ 1 .. Len(made) \subseteq Ids
  BY LimitsAssumption DEF TypeOK, Ids
<1>2. QED
  BY <1>1 DEF TypeOK, Expired

LEMMA ArchiveTypes ==
  ASSUME IInv,
         \/ \E s \in Admins : BeginCreate(s) \/ BeginPrune(s)
         \/ \E s \in Tasks : CommitCreate(s) \/ Delete(s) \/ CommitPrune(s)
         \/ Nightly
  PROVE  TInv'
<1> USE DEF IInv, Tasks
<1>1. ASSUME NEW s \in Admins, BeginCreate(s)
      PROVE  TInv'
  <2>1. Len(made) + 1 \in Ids
    BY <1>1, WriteFileTypes DEF BeginCreate, TInv, TypeOK
  <2>2. /\ made' \in Seq(Archive) /\ Len(made') <= MaxArchives
        /\ disk' \subseteq 1 .. Len(made') /\ rows' \subseteq 1 .. Len(made')
    BY <1>1, WriteFileTypes DEF BeginCreate, TInv
  <2>3. Forms' /\ phase' \in [Tasks -> Phases] /\ req' \in [Tasks -> Requests \cup {NoRequest}]
    BY <1>1, <2>1, NewForms, SetForm DEF BeginCreate, Enter, Phases
  <2>4. QED
    BY <1>1, <2>2, <2>3 DEF BeginCreate, TInv, TypeOK, Phases, restores, process, ghosts
<1>2. Expired \in SUBSET Ids
  BY ArchiveIds DEF TInv
<1>3. ASSUME NEW s \in Admins, BeginPrune(s)
      PROVE  TInv'
  <2>1. Forms' /\ phase' \in [Tasks -> Phases] /\ req' \in [Tasks -> Requests \cup {NoRequest}]
    BY <1>2, <1>3, NewForms, SetForm DEF BeginPrune, Unlink, Enter, Phases
  <2>2. QED
    BY <1>3, <2>1 DEF BeginPrune, Unlink, TInv, TypeOK, Phases, restores, process, ghosts
<1>4. ASSUME NEW s \in Tasks, CommitCreate(s)
      PROVE  TInv'
  <2>1. req[s].id \in disk
    BY <1>4 DEF CommitCreate, FilesInv, Makers
  <2>2. QED
    BY <1>4, <2>1, SetIdle DEF CommitCreate, TInv, TypeOK, Phases, restores, process, ghosts
<1>5. ASSUME NEW s \in Tasks, Delete(s)
      PROVE  TInv'
  <2>1. phase[s] # "idle"
    BY <1>5 DEF Delete
  <2>2. QED
    BY <1>5, <2>1, SetPhase DEF Delete, TInv, TypeOK, Phases, archives, restores, process, ghosts
<1>6. ASSUME NEW s \in Tasks, CommitPrune(s)
      PROVE  TInv'
  BY <1>6, SetIdle DEF CommitPrune, TInv, TypeOK, Phases, restores, process, ghosts
<1>7. CASE BeginNightly
  <2>1. Len(made) + 1 \in Ids /\ day \in Days
    BY <1>7, WriteFileTypes DEF BeginNightly, TInv, TypeOK
  <2>2. /\ made' \in Seq(Archive) /\ Len(made') <= MaxArchives
        /\ disk' \subseteq 1 .. Len(made') /\ rows' \subseteq 1 .. Len(made')
    BY <1>7, WriteFileTypes DEF BeginNightly, TInv
  <2>3. Forms' /\ phase' \in [Tasks -> Phases] /\ req' \in [Tasks -> Requests \cup {NoRequest}]
    <3> DEFINE r == [op |-> "nightly", id |-> Len(made) + 1, day |-> day]
    <3>1. Form(Scheduler, "made", r)
      BY <2>1, NewForms
    <3>2. phase' = [phase EXCEPT ![Scheduler] = "made"] /\ req' = [req EXCEPT ![Scheduler] = r]
      BY <1>7 DEF BeginNightly, Enter
    <3>3. Scheduler \in Tasks /\ "made" \in Phases /\ TInv
      BY DEF Phases
    <3> HIDE DEF r
    <3>4. QED
      BY <3>1, <3>2, <3>3, SetForm
  <2>4. QED
    BY <1>7, <2>2, <2>3 DEF BeginNightly, TInv, TypeOK, Phases, restores, process
<1>8. CASE PruneNightly
  <2>1. req[Scheduler].id \in Ids /\ req[Scheduler].day \in Days
    BY <1>8 DEF PruneNightly, TInv, Forms, Form
  <2> DEFINE r == [op |-> "nightly", id |-> req[Scheduler].id,
                   day |-> req[Scheduler].day, old |-> Expired]
  <2>4. Form(Scheduler, "read", r)
    BY <1>2, <2>1, NewForms
  <2>5. phase' = [phase EXCEPT ![Scheduler] = "read"] /\ req' = [req EXCEPT ![Scheduler] = r]
    BY <1>8 DEF PruneNightly, Unlink, Enter
  <2>6. Scheduler \in Tasks /\ "read" \in Phases /\ TInv
    BY DEF Phases
  <2> HIDE DEF r
  <2>2. Forms' /\ phase' \in [Tasks -> Phases] /\ req' \in [Tasks -> Requests \cup {NoRequest}]
    BY <2>4, <2>5, <2>6, SetForm
  <2>3. QED
    BY <1>8, <2>2 DEF PruneNightly, Unlink, TInv, TypeOK, Phases, restores, process, ghosts
<1>9. CASE CommitNightly
  <2>1. req[Scheduler].op = "nightly"
    BY <1>9 DEF CommitNightly, TInv, Forms, Form, NoRequest, Requests
  <2>2. req[Scheduler].id \in disk /\ req[Scheduler].day \in Days
    BY <2>1 DEF FilesInv, Makers, TInv, Forms, Form
  <2>3. Forms' /\ phase' \in [Tasks -> Phases] /\ req' \in [Tasks -> Requests \cup {NoRequest}]
    BY <1>9, SetIdle DEF CommitNightly
  <2>4. rows' \subseteq 1 .. Len(made) /\ UNCHANGED <<made, disk, events, ends, flag, key, execute, day>>
    BY <1>9, <2>2 DEF CommitNightly, TInv, TypeOK, restores
  <2>5. last' \in Days \cup {Never} /\ nights' \in Nat
    BY <1>9, <2>2 DEF CommitNightly, TInv, TypeOK
  <2>6. UNCHANGED <<written, stuck, calm, intruded, faults>>
    BY <1>9 DEF CommitNightly
  <2>7. QED
    BY <2>3, <2>4, <2>5, <2>6 DEF TInv, TypeOK, Phases
<1>10. QED
  BY <1>1, <1>3, <1>4, <1>5, <1>6, <1>7, <1>8, <1>9 DEF Nightly

LEMMA RestoreTypes ==
  ASSUME IInv, NEW s \in Tasks,
         \/ s \in Admins /\ \E i \in rows : BeginStage(s, i) \/ BeginCommit(s, i) \/ BeginAbort(s, i)
         \/ FlushStage(s) \/ CommitStage(s) \/ FlushEnd(s) \/ CommitEnd(s) \/ ExitMaintenance(s)
  PROVE  TInv'
<1> USE DEF IInv
<1>1. rows \subseteq Ids
  BY ArchiveIds DEF TInv
<1>2. ASSUME s \in Admins, NEW i \in rows, BeginStage(s, i)
      PROVE  TInv'
  <2>1. NextEvent \in 1 .. MaxEvents
    BY <1>2, NextIsFresh DEF BeginStage
  <2>2. Forms' /\ phase' \in [Tasks -> Phases] /\ req' \in [Tasks -> Requests \cup {NoRequest}]
    <3> DEFINE r == [op |-> "stage", id |-> i, no |-> NextEvent]
    <3>1. Form(s, "read", r)
      BY <1>1, <1>2, <2>1, NewForms
    <3>2. phase' = [phase EXCEPT ![s] = "read"] /\ req' = [req EXCEPT ![s] = r]
      BY <1>2 DEF BeginStage, Enter
    <3>3. "read" \in Phases
      BY DEF Phases
    <3> HIDE DEF r
    <3>4. QED
      BY <3>1, <3>2, <3>3, SetForm
  <2>3. QED
    BY <1>2, <2>2 DEF BeginStage, TInv, TypeOK, Phases, archives, restores, process
<1>3. ASSUME s \in Admins, NEW i \in rows, NEW state \in Ended, BeginEnd(s, i, state)
      PROVE  TInv'
  <2>1. Max(Staged) \in 1 .. MaxEvents
    BY <1>3, HighestStaged DEF BeginEnd, Staged
  <2>2. Forms' /\ phase' \in [Tasks -> Phases] /\ req' \in [Tasks -> Requests \cup {NoRequest}]
    <3> DEFINE r == [op |-> "end", no |-> Max(Staged), state |-> state]
    <3>1. Form(s, "read", r)
      BY <1>3, <2>1, NewForms
    <3>2. phase' = [phase EXCEPT ![s] = "read"] /\ req' = [req EXCEPT ![s] = r]
      BY <1>3 DEF BeginEnd, Enter
    <3>3. "read" \in Phases
      BY DEF Phases
    <3> HIDE DEF r
    <3>4. QED
      BY <3>1, <3>2, <3>3, SetForm
  <2>3. QED
    BY <1>3, <2>2 DEF BeginEnd, TInv, TypeOK, Phases, archives, restores, process
<1>4. CASE FlushStage(s)
  <2>1. req[s].id \in Ids
    BY <1>1, <1>4 DEF FlushStage
  <2>2. QED
    BY <1>4, <2>1, SetPhase DEF FlushStage, Raised, TInv, TypeOK, Phases, archives, process, ghosts
<1>5. CASE CommitStage(s)
  <2>1. s \in Admins /\ req[s].id \in Ids /\ req[s].no \in 1 .. MaxEvents
    BY <1>5 DEF CommitStage, TInv, Forms, Form, Tasks, Decisions
  <2>2. events' \in [1 .. MaxEvents -> Event \cup {NoEvent}]
    BY <1>5, <2>1 DEF CommitStage, TInv, TypeOK, Event
  <2>3. QED
    BY <1>5, <2>2, SetIdle DEF CommitStage, TInv, TypeOK, Phases, archives, process, ghosts
<1>6. CASE FlushEnd(s)
  BY <1>6, SetPhase DEF FlushEnd, TInv, TypeOK, Phases, archives, restores, process, ghosts
<1>7. CASE CommitEnd(s)
  <2>1. s \in Admins /\ req[s].no \in 1 .. MaxEvents /\ req[s].state \in Ended
    BY <1>7 DEF CommitEnd, TInv, Forms, Form, Tasks, Decisions
  <2>2. events[req[s].no] \in Event
    BY <1>7, <2>1 DEF CommitEnd, EventsInv, Enders, TInv, TypeOK
  <2>3. events' \in [1 .. MaxEvents -> Event \cup {NoEvent}]
    BY <1>7, <2>1, <2>2 DEF CommitEnd, TInv, TypeOK, Event
  <2>4. ends' \in [1 .. MaxEvents -> [Admins -> Nat]]
    BY <1>7, <2>1 DEF CommitEnd, TInv, TypeOK
  <2>5. phase[s] # "idle"
    BY <1>7 DEF CommitEnd
  <2>6. QED
    BY <1>7, <2>3, <2>4, <2>5, SetPhase DEF CommitEnd, TInv, TypeOK, Phases, archives, process, ghosts
<1>8. CASE ExitMaintenance(s)
  BY <1>8, SetIdle DEF ExitMaintenance, Lowered, TInv, TypeOK, Phases, archives, process
<1>9. ASSUME s \in Admins, NEW i \in rows, BeginCommit(s, i) \/ BeginAbort(s, i)
      PROVE  TInv'
  BY <1>3, <1>9, Outcome DEF BeginCommit, BeginAbort, Ended
<1>10. QED
  BY <1>2, <1>4, <1>5, <1>6, <1>7, <1>8, <1>9

LEMMA NextTypes == IInv /\ [Next]_vars => TInv'
<1> SUFFICES ASSUME IInv, [Next]_vars
             PROVE  TInv'
  OBVIOUS
<1>1. ASSUME NEW s \in Tasks, Refuse(s) \/ Undo(s)
      PROVE  TInv'
  <2>1. Finish(s)
    BY <1>1 DEF Refuse, Undo
  <2>4. UNCHANGED <<archives, restores, process, day, nights, written, calm, intruded>>
    BY <1>1 DEF Refuse, Undo, ghosts
  <2>5. faults' \in Nat
    BY <1>1 DEF Refuse, Undo, IInv, TInv, TypeOK
  <2>6. stuck' \in BOOLEAN
    <3>1. CASE Refuse(s)
      BY <3>1 DEF Refuse, IInv, TInv, TypeOK, ghosts
    <3>2. CASE Undo(s)
      <4>1. stuck' = (stuck \/ s \in Writing({"stage"}))
        BY <3>2 DEF Undo
      <4>2. QED
        BY <4>1
    <3>3. QED
      BY <1>1, <3>1, <3>2
  <2>2. /\ UNCHANGED <<archives, restores, process, day, nights, written, calm, intruded>>
        /\ faults' \in Nat /\ stuck' \in BOOLEAN
    BY <2>4, <2>5, <2>6
  <2>3. QED
    BY <2>1, <2>2, SetIdle DEF IInv, TInv, TypeOK, Phases, archives, restores, process
<1>2. CASE Restart
  <2>1. /\ phase' \in [Tasks -> Phases] /\ req' \in [Tasks -> Requests \cup {NoRequest}]
        /\ Forms'
    BY <1>2, IdleForm DEF Restart, Forms, Phases
  <2>2. faults' \in Nat /\ calm' \in BOOLEAN
    BY <1>2 DEF Restart, IInv, TInv, TypeOK
  <2>3. QED
    BY <1>2, <2>1, <2>2 DEF Restart, IInv, TInv, TypeOK, Phases, archives
<1>3. CASE Visit \/ NextDay \/ UNCHANGED vars
  <2>1. UNCHANGED <<archives, restores, process, phase, req, stuck, calm, faults>>
    BY <1>3 DEF Visit, NextDay, vars, ghosts
  <2>2. day' \in Days /\ nights' \in Nat /\ written' \in Nat
    <3>1. day \in Days /\ nights \in Nat /\ written \in Nat /\ MaxDay \in Nat
      BY LimitsAssumption DEF IInv, TInv, TypeOK
    <3>2. CASE NextDay
      BY <3>1, <3>2 DEF NextDay, Days
    <3>3. CASE Visit \/ UNCHANGED vars
      BY <3>1, <3>3 DEF Visit, vars, ghosts
    <3>4. QED
      BY <1>3, <3>2, <3>3
  <2>4. intruded' \in BOOLEAN
    BY <1>3 DEF Visit, NextDay, vars, ghosts, IInv, TInv, TypeOK
  <2>3. QED
    BY <2>1, <2>2, <2>4 DEF IInv, TInv, TypeOK, Forms, Form, archives, restores, process
<1>4. QED
  BY <1>1, <1>2, <1>3, ArchiveTypes, RestoreTypes DEF Next, Proceed, Tasks

-----------------------------------------------------------------------------
(* What steps leave alone *)

ArchiveStep ==
  \/ \E s \in Admins : BeginCreate(s) \/ BeginPrune(s)
  \/ \E s \in Tasks : CommitCreate(s) \/ Delete(s) \/ CommitPrune(s)
  \/ Nightly

DecisionStep(s) ==
  \/ s \in Admins /\ \E i \in rows : BeginStage(s, i) \/ BeginCommit(s, i) \/ BeginAbort(s, i)
  \/ FlushStage(s) \/ CommitStage(s) \/ FlushEnd(s) \/ CommitEnd(s) \/ ExitMaintenance(s)
  \/ Refuse(s) \/ Undo(s)

\* The steps of Next are those of one of these kinds.
LEMMA Kinds ==
  ASSUME [Next]_vars
  PROVE  \/ ArchiveStep
         \/ \E s \in Tasks : DecisionStep(s)
         \/ Restart \/ Visit \/ NextDay \/ UNCHANGED vars
BY DEF Next, Proceed, ArchiveStep, DecisionStep, Tasks

\* The requests that make, or decide, go on as they were, if they go on.
MakersStay ==
  \A t \in Tasks : req'[t].op \in {"create", "nightly"} => req'[t] = req[t]

DecisionsStay ==
  \A t \in Tasks : req[t].op \in Decisions \/ req'[t].op \in Decisions
                   => phase'[t] = phase[t] /\ req'[t] = req[t]

\* An idle task has no request.
LEMMA IdleHasNone ==
  ASSUME TInv, NEW s \in Tasks, phase[s] = "idle"
  PROVE  req[s].op \notin Decisions \cup {"create", "prune", "nightly"}
BY DEF TInv, Forms, Form, NoRequest, Decisions

LEMMA ArchiveFrame ==
  ASSUME TInv, ArchiveStep
  PROVE  UNCHANGED <<events, ends, flag, execute, day, stuck, calm, intruded>> /\ DecisionsStay
<1> USE DEF Tasks
<1>1. phase \in [Tasks -> Phases] /\ req \in [Tasks -> Requests \cup {NoRequest}]
  BY DEF TInv, TypeOK, Phases
<1>2. UNCHANGED <<events, ends, flag, execute, day, stuck, calm, intruded>>
  BY DEF ArchiveStep, Nightly, BeginCreate, BeginPrune, CommitCreate, Delete, CommitPrune, Unlink,
         BeginNightly, PruneNightly, CommitNightly, restores, process, ghosts
<1>3. ASSUME NEW s \in Tasks, NEW p, NEW r,
             phase' = [phase EXCEPT ![s] = p], req' = [req EXCEPT ![s] = r],
             req[s].op \notin Decisions, r.op \notin Decisions
      PROVE  DecisionsStay
  BY <1>1, <1>3 DEF DecisionsStay
<1>4. ASSUME NEW s \in Admins, BeginCreate(s)
      PROVE  DecisionsStay
  BY <1>3, <1>4, IdleHasNone DEF BeginCreate, Enter, Decisions
<1>5. ASSUME NEW s \in Admins, BeginPrune(s)
      PROVE  DecisionsStay
  BY <1>3, <1>5, IdleHasNone DEF BeginPrune, Unlink, Enter, Decisions
<1>6. ASSUME NEW s \in Tasks, CommitCreate(s) \/ CommitPrune(s)
      PROVE  DecisionsStay
  BY <1>3, <1>6 DEF CommitCreate, CommitPrune, Finish, Enter, NoRequest, Decisions
<1>7. ASSUME NEW s \in Tasks, Delete(s)
      PROVE  DecisionsStay
  BY <1>1, <1>7 DEF Delete, DecisionsStay, Prunes, Decisions
<1>8. Scheduler \in Tasks /\ req[Scheduler].op \notin Decisions
  BY DEF TInv, Forms, Form, Decisions, NoRequest
<1>9. ASSUME NEW p, NEW r, r.op \notin Decisions,
             phase' = [phase EXCEPT ![Scheduler] = p], req' = [req EXCEPT ![Scheduler] = r]
      PROVE  DecisionsStay
  BY <1>3, <1>8, <1>9
<1>10. CASE BeginNightly
  BY <1>2, <1>9, <1>10 DEF BeginNightly, Enter, Decisions
<1>11. CASE PruneNightly
  BY <1>2, <1>9, <1>11 DEF PruneNightly, Unlink, Enter, Decisions
<1>12. CASE CommitNightly
  BY <1>2, <1>9, <1>12 DEF CommitNightly, Finish, Enter, NoRequest, Decisions
<1>13. QED
  BY <1>2, <1>4, <1>5, <1>6, <1>7, <1>10, <1>11, <1>12 DEF ArchiveStep, Nightly

LEMMA DecisionFrame ==
  ASSUME TInv, NEW s \in Tasks, DecisionStep(s)
  PROVE  /\ UNCHANGED <<made, disk, rows, last, key, execute, day, nights>>
         /\ \A t \in Tasks \ {s} : phase'[t] = phase[t] /\ req'[t] = req[t]
         /\ MakersStay
<1>1. phase \in [Tasks -> Phases] /\ req \in [Tasks -> Requests \cup {NoRequest}]
  BY DEF TInv, TypeOK, Phases
<1>2. UNCHANGED <<made, disk, rows, last, key, execute, day, nights>>
  BY DEF DecisionStep, BeginStage, BeginCommit, BeginAbort, BeginEnd, FlushStage, CommitStage, FlushEnd,
         CommitEnd, ExitMaintenance, Refuse, Undo, archives, restores, process, ghosts
<1>3. ASSUME NEW p, NEW r, phase' = [phase EXCEPT ![s] = p], req' = [req EXCEPT ![s] = r],
             r = req[s] \/ r.op \notin {"create", "nightly"}
      PROVE  /\ \A t \in Tasks \ {s} : phase'[t] = phase[t] /\ req'[t] = req[t]
             /\ MakersStay
  BY <1>1, <1>3 DEF MakersStay
<1>4. ASSUME NEW i \in rows, BeginStage(s, i) \/ BeginCommit(s, i) \/ BeginAbort(s, i)
      PROVE  /\ \A t \in Tasks \ {s} : phase'[t] = phase[t] /\ req'[t] = req[t]
             /\ MakersStay
  <2>1. ASSUME NEW state, BeginEnd(s, i, state)
        PROVE  /\ \A t \in Tasks \ {s} : phase'[t] = phase[t] /\ req'[t] = req[t]
               /\ MakersStay
    BY <1>3, <2>1 DEF BeginEnd, Enter
  <2>2. QED
    BY <1>3, <1>4, <2>1 DEF BeginStage, BeginCommit, BeginAbort, Enter
<1>5. CASE Finish(s)
  BY <1>2, <1>3, <1>5 DEF Finish, Enter, NoRequest
<1>6. ASSUME NEW p, phase' = [phase EXCEPT ![s] = p], req' = req
      PROVE  /\ \A t \in Tasks \ {s} : phase'[t] = phase[t] /\ req'[t] = req[t]
             /\ MakersStay
  BY <1>1, <1>6 DEF MakersStay
<1>7. CASE FlushStage(s) \/ FlushEnd(s) \/ CommitEnd(s)
  BY <1>2, <1>6, <1>7 DEF FlushStage, FlushEnd, CommitEnd
<1>8. CASE CommitStage(s) \/ ExitMaintenance(s) \/ Refuse(s) \/ Undo(s)
  BY <1>5, <1>8 DEF CommitStage, ExitMaintenance, Refuse, Undo
<1>9. QED
  BY <1>2, <1>4, <1>7, <1>8 DEF DecisionStep

\* The days archives were made on.
LEMMA MadeDays ==
  ASSUME TypeOK
  PROVE  /\ \A i \in 1 .. Len(made) : made[i].day \in Nat
         /\ day \in Nat /\ Retention \in Nat
<1>1. \A i \in 1 .. Len(made) : made[i] \in Archive
  BY DEF TypeOK
<1>2. \A a \in Archive : a.day \in Days
  BY DEF Archive
<1>3. Days \subseteq Nat
  BY LimitsAssumption DEF Days
<1>4. QED
  BY <1>1, <1>2, <1>3, LimitsAssumption DEF TypeOK

\* A scheduler under way is at its nightly archive.
LEMMA NightlyUnderWay ==
  ASSUME TInv, phase[Scheduler] # "idle"
  PROVE  req[Scheduler].op = "nightly"
<1>1. Form(Scheduler, phase[Scheduler], req[Scheduler])
  BY DEF TInv, Forms, Tasks
<1>2. req[Scheduler] \in Requests
  BY <1>1 DEF Form
<1>3. req[Scheduler].op # "none"
  BY <1>2 DEF Requests
<1>4. QED
  BY <1>1, <1>3 DEF Form

-----------------------------------------------------------------------------
(* Files *)

\* Nothing new is made, and no file or row changes.
LEMMA FilesFrame ==
  ASSUME IInv, MakersStay, UNCHANGED <<made, disk, rows>>, day' \in Nat, day' >= day
  PROVE  FilesInv'
<1>1. \A s \in Makers' : s \in Makers /\ req'[s] = req[s]
  BY DEF MakersStay, Makers
<1>2. (\A s \in Makers : req[s].id \in disk \ rows)'
  BY <1>1 DEF IInv, FilesInv
<1>3. (\A s, t \in Makers : req[s].id = req[t].id => s = t)'
  BY <1>1 DEF IInv, FilesInv
<1>4. FilesOutlastRetention'
  <2> SUFFICES ASSUME NEW i \in rows \ disk
               PROVE  day' - made[i].day > Retention
    BY DEF FilesOutlastRetention
  <2>1. made[i].day \in Nat /\ day \in Nat /\ Retention \in Nat
    BY MadeDays DEF IInv, TInv, TypeOK
  <2>2. day - made[i].day > Retention
    BY DEF IInv, FilesInv, FilesOutlastRetention
  <2>3. QED
    BY <2>1, <2>2
<1>5. QED
  BY <1>2, <1>3, <1>4 DEF FilesInv

\* A task begins with an archive of the next number.
LEMMA FilesMade ==
  ASSUME IInv, NEW s \in Tasks, WriteFile, UNCHANGED day,
         \A t \in Tasks \ {s} : req'[t] = req[t],
         req'[s].id = Len(made) + 1
  PROVE  FilesInv'
<1>1. /\ Len(made) \in Nat /\ disk \subseteq 1 .. Len(made) /\ rows \subseteq 1 .. Len(made)
      /\ Len(made) + 1 \notin disk \cup rows
  BY DEF IInv, TInv, TypeOK
<1>2. rows' = rows /\ disk' = disk \cup {Len(made) + 1}
  BY DEF WriteFile
<1>3. ASSUME NEW t \in Tasks, t \in Makers', t # s
      PROVE  t \in Makers /\ req'[t] = req[t]
  <2>1. req'[t] = req[t]
    BY <1>3
  <2>2. QED
    BY <1>3, <2>1 DEF Makers
<1>8. Makers' \subseteq Tasks
  BY DEF Makers
<1>4. (\A t \in Makers : req[t].id \in disk \ rows)'
  BY <1>1, <1>2, <1>3, <1>8 DEF IInv, FilesInv
<1>5. (\A t, u \in Makers : req[t].id = req[u].id => t = u)'
  BY <1>1, <1>3, <1>8 DEF IInv, FilesInv
<1>6. FilesOutlastRetention'
  <2>1. \A i \in 1 .. Len(made) : made'[i] = made[i]
    BY WriteFileTypes DEF IInv, TInv
  <2>2. QED
    BY <1>1, <1>2, <2>1 DEF IInv, FilesInv, FilesOutlastRetention
<1>7. QED
  BY <1>4, <1>5, <1>6 DEF FilesInv

\* Expired files go.
LEMMA FilesUnlinked ==
  ASSUME IInv, NEW s \in Tasks, NEW r, Unlink(s, r),
         r.op \in {"create", "nightly"} => s \in Makers /\ r.id = req[s].id
  PROVE  FilesInv'
<1>1. PICK kept \in SUBSET Expired : disk' = disk \ (Expired \ kept)
  BY DEF Unlink
<1>2. UNCHANGED <<made, rows, day>>
  BY DEF Unlink
<1>3. req' = [req EXCEPT ![s] = r] /\ req \in [Tasks -> Requests \cup {NoRequest}]
  BY DEF Unlink, Enter, IInv, TInv, TypeOK
<1>4. \A t \in Makers' : t \in Makers /\ req'[t].id = req[t].id
  BY <1>3 DEF Makers
<1>5. Expired \subseteq rows
  BY DEF Expired
<1>6. (\A t \in Makers : req[t].id \in disk \ rows)'
  BY <1>1, <1>2, <1>4, <1>5 DEF IInv, FilesInv
<1>7. (\A t, u \in Makers : req[t].id = req[u].id => t = u)'
  BY <1>4 DEF IInv, FilesInv
<1>8. FilesOutlastRetention'
  <2> SUFFICES ASSUME NEW i \in rows, i \notin disk'
               PROVE  day - made[i].day > Retention
    BY <1>2 DEF FilesOutlastRetention
  <2>1. CASE i \in disk
    <3>1. i \in Expired
      BY <1>1, <2>1
    <3>2. made[i].day \in Nat /\ day \in Nat /\ Retention \in Nat
      BY MadeDays DEF IInv, TInv, TypeOK
    <3>3. QED
      BY <3>1, <3>2 DEF Expired
  <2>2. CASE i \notin disk
    BY <2>2 DEF IInv, FilesInv, FilesOutlastRetention
  <2>3. QED
    BY <2>1, <2>2
<1>9. QED
  BY <1>6, <1>7, <1>8 DEF FilesInv

\* Rows go, and that of an archive that was under way may come.
LEMMA FilesRecorded ==
  ASSUME IInv, NEW s \in Tasks, Finish(s), UNCHANGED <<made, disk, day>>,
         \/ rows' \subseteq rows
         \/ s \in Makers /\ rows' \subseteq rows \cup {req[s].id}
  PROVE  FilesInv'
<1>1. req' = [req EXCEPT ![s] = NoRequest] /\ req \in [Tasks -> Requests \cup {NoRequest}]
  BY DEF Finish, Enter, IInv, TInv, TypeOK
<1>2. \A t \in Makers' : t \in Makers \ {s} /\ req'[t] = req[t]
  BY <1>1 DEF Makers, NoRequest
<1>3. (\A t \in Makers : req[t].id \in disk \ rows)'
  BY <1>2 DEF IInv, FilesInv
<1>4. (\A t, u \in Makers : req[t].id = req[u].id => t = u)'
  BY <1>2 DEF IInv, FilesInv
<1>5. FilesOutlastRetention'
  BY DEF IInv, FilesInv, FilesOutlastRetention
<1>6. QED
  BY <1>3, <1>4, <1>5 DEF FilesInv

LEMMA NextFiles == IInv /\ [Next]_vars => FilesInv'
<1> SUFFICES ASSUME IInv, [Next]_vars
             PROVE  FilesInv'
  OBVIOUS
<1> USE DEF Tasks
<1>1. /\ phase \in [Tasks -> Phases] /\ req \in [Tasks -> Requests \cup {NoRequest}]
      /\ day \in Nat /\ TInv
  BY DEF IInv, TInv, TypeOK, Phases, Days
<1>2. ASSUME NEW s \in Admins, BeginCreate(s)
      PROVE  FilesInv'
  <2>1. /\ \A t \in Tasks \ {s} : req'[t] = req[t]
        /\ req'[s].id = Len(made) + 1
    BY <1>1, <1>2 DEF BeginCreate, Enter
  <2>2. QED
    BY <1>2, <2>1, FilesMade DEF BeginCreate
<1>3. ASSUME NEW s \in Admins, BeginPrune(s)
      PROVE  FilesInv'
  BY <1>3, FilesUnlinked DEF BeginPrune
<1>4. ASSUME NEW s \in Tasks, CommitCreate(s) \/ CommitPrune(s)
      PROVE  FilesInv'
  BY <1>4, FilesRecorded DEF CommitCreate, CommitPrune, Makers
<1>5. ASSUME NEW s \in Tasks, Delete(s)
      PROVE  FilesInv'
  BY <1>1, <1>5, FilesFrame DEF Delete, MakersStay, archives
<1>6. CASE BeginNightly
  <2>1. /\ \A t \in Tasks \ {Scheduler} : req'[t] = req[t]
        /\ req'[Scheduler].id = Len(made) + 1
    BY <1>1, <1>6 DEF BeginNightly, Enter
  <2>2. QED
    BY <1>6, <2>1, FilesMade DEF BeginNightly
<1>7. CASE PruneNightly
  <2>1. Scheduler \in Makers
    BY <1>7 DEF PruneNightly, IInv, TInv, Forms, Form, Makers
  <2>2. QED
    BY <1>7, <2>1, FilesUnlinked DEF PruneNightly
<1>8. CASE CommitNightly
  <2>1. Scheduler \in Makers
    BY <1>1, <1>8, NightlyUnderWay DEF CommitNightly, Makers
  <2>2. rows' \subseteq rows \cup {req[Scheduler].id}
    BY <1>8 DEF CommitNightly
  <2>3. QED
    BY <1>8, <2>1, <2>2, FilesRecorded DEF CommitNightly
<1>9. CASE ArchiveStep
  BY <1>2, <1>3, <1>4, <1>5, <1>6, <1>7, <1>8, <1>9 DEF ArchiveStep, Nightly
<1>10. ASSUME NEW s \in Tasks, DecisionStep(s)
       PROVE  FilesInv'
  BY <1>1, <1>10, DecisionFrame, FilesFrame
<1>11. CASE Restart
  BY <1>1, <1>11, FilesFrame DEF Restart, MakersStay, NoRequest, archives
<1>12. CASE Visit \/ NextDay \/ UNCHANGED vars
  BY <1>1, <1>12, FilesFrame DEF Visit, NextDay, MakersStay, vars, archives
<1>13. QED
  BY <1>9, <1>10, <1>11, <1>12, Kinds

-----------------------------------------------------------------------------
(* Nights *)

LEMMA NextNights == IInv /\ [Next]_vars => NightInv'
<1> SUFFICES ASSUME IInv, [Next]_vars
             PROVE  NightInv'
  OBVIOUS
<1>1. /\ TInv /\ Scheduler \in Tasks /\ nights \in Nat
      /\ phase \in [Tasks -> Phases] /\ req \in [Tasks -> Requests \cup {NoRequest}]
  BY DEF IInv, TInv, TypeOK, Phases, Tasks
<1> USE DEF IInv, NightInv, OneNightPerProcess
<1>2. ASSUME UNCHANGED <<nights, last, day>>,
             req'[Scheduler].op = "nightly" => req[Scheduler].op = "nightly"
      PROVE  NightInv'
  BY <1>2
<1>3. ASSUME NEW s \in Admins, BeginCreate(s) \/ BeginPrune(s)
      PROVE  NightInv'
  BY <1>1, <1>2, <1>3, SchedulerAssumption
     DEF BeginCreate, BeginPrune, Unlink, Enter, process, ghosts
<1>4. ASSUME NEW s \in Tasks, CommitCreate(s) \/ CommitPrune(s)
      PROVE  NightInv'
  BY <1>1, <1>2, <1>4 DEF CommitCreate, CommitPrune, Finish, Enter, NoRequest, process, ghosts
<1>5. ASSUME NEW s \in Tasks, Delete(s)
      PROVE  NightInv'
  BY <1>2, <1>5 DEF Delete, process, ghosts
<1>6. CASE BeginNightly
  BY <1>1, <1>6 DEF BeginNightly, Due, process
<1>7. CASE PruneNightly
  <2>1. req[Scheduler].op = "nightly"
    BY <1>1, <1>7 DEF PruneNightly, TInv, Forms, Form
  <2>2. QED
    BY <1>2, <1>7, <2>1 DEF PruneNightly, Unlink, process, ghosts
<1>8. CASE CommitNightly
  <2>1. req[Scheduler].op = "nightly"
    BY <1>1, <1>8, NightlyUnderWay DEF CommitNightly
  <2>2. req'[Scheduler].op = "none"
    BY <1>1, <1>8 DEF CommitNightly, Finish, Enter, NoRequest
  <2>3. QED
    BY <1>8, <2>1, <2>2 DEF CommitNightly
<1>9. ASSUME NEW s \in Tasks, DecisionStep(s)
      PROVE  NightInv'
  BY <1>1, <1>2, <1>9, DecisionFrame DEF MakersStay
<1>10. CASE Restart
  BY <1>1, <1>10 DEF Restart, NoRequest
<1>11. CASE Visit \/ NextDay \/ UNCHANGED vars
  BY <1>11 DEF Visit, NextDay, vars, process, ghosts
<1>12. QED
  BY <1>3, <1>4, <1>5, <1>6, <1>7, <1>8, <1>9, <1>10, <1>11, Kinds DEF ArchiveStep, Nightly

-----------------------------------------------------------------------------
(* Rows *)

LEMMA RestorableSame ==
  ASSUME UNCHANGED events
  PROVE  Restorable' = Restorable
BY DEF Restorable

\* No row goes, no event comes, and no transaction begins to write.
LEMMA RowsFrame ==
  ASSUME IInv, rows \subseteq rows', Restorable' = Restorable,
         \A t \in Tasks : phase'[t] = "flushed" /\ req'[t].op \in {"stage"} \cup Prunes
                          => phase[t] = "flushed" /\ req'[t] = req[t]
  PROVE  RowsInv'
<1> USE DEF IInv, RowsInv
<1>1. ASSUME NEW t \in Tasks, t \in Writing({"stage"})'
      PROVE  t \in Writing({"stage"}) /\ req'[t] = req[t]
  BY <1>1 DEF Writing
<1>2. ASSUME NEW t \in Tasks, t \in Writing(Prunes)'
      PROVE  t \in Writing(Prunes) /\ req'[t] = req[t]
  BY <1>2 DEF Writing
<1>3. Writing({"stage"})' \subseteq Tasks /\ Writing(Prunes)' \subseteq Tasks
  BY DEF Writing
<1>4. \A t \in Writing({"stage"})' : req'[t].id \in rows'
  BY <1>1, <1>3
<1>5. \A t \in Writing(Prunes)' : req'[t].old \cap Restorable' = {}
  BY <1>2, <1>3 DEF RefusesDelete
<1>6. \A t \in Writing(Prunes)' : \A s \in Writing({"stage"})' : req'[s].id \notin req'[t].old
  BY <1>1, <1>2, <1>3
<1>7. Restorable' \subseteq rows'
  BY DEF RestorableOnRecord
<1>8. QED
  BY <1>4, <1>5, <1>6, <1>7 DEF RestorableOnRecord, RefusesDelete

\* A deletion is committed.
LEMMA RowsDeleted ==
  ASSUME IInv, NEW s \in Writing(Prunes), Finish(s), UNCHANGED events,
         rows \ req[s].old \subseteq rows'
  PROVE  RowsInv'
<1> USE DEF IInv, RowsInv
<1>1. \A t \in Tasks : /\ t # s => phase'[t] = phase[t] /\ req'[t] = req[t]
                       /\ t = s => phase'[t] = "idle"
  BY DEF Finish, Enter, TInv, TypeOK
<1>2. ASSUME NEW t \in Tasks, t \in Writing({"stage"})'
      PROVE  t \in Writing({"stage"}) /\ req'[t] = req[t]
  BY <1>1, <1>2 DEF Writing
<1>3. ASSUME NEW t \in Tasks, t \in Writing(Prunes)'
      PROVE  t \in Writing(Prunes) /\ req'[t] = req[t]
  BY <1>1, <1>3 DEF Writing
<1>4. Writing({"stage"})' \subseteq Tasks /\ Writing(Prunes)' \subseteq Tasks
  BY DEF Writing
<1>5. Restorable' = Restorable
  BY RestorableSame
<1>6. \A t \in Writing({"stage"})' : req'[t].id \in rows'
  BY <1>2, <1>4
<1>7. \A t \in Writing(Prunes)' : req'[t].old \cap Restorable' = {}
  BY <1>3, <1>4, <1>5 DEF RefusesDelete
<1>8. \A t \in Writing(Prunes)' : \A u \in Writing({"stage"})' : req'[u].id \notin req'[t].old
  BY <1>2, <1>3, <1>4
<1>9. Restorable' \subseteq rows'
  BY <1>5 DEF RestorableOnRecord, RefusesDelete
<1>10. QED
  BY <1>6, <1>7, <1>8, <1>9 DEF RestorableOnRecord, RefusesDelete

LEMMA NextRows == IInv /\ [Next]_vars => RowsInv'
<1> SUFFICES ASSUME IInv, [Next]_vars
             PROVE  RowsInv'
  OBVIOUS
<1> USE DEF Tasks
<1>1. /\ phase \in [Tasks -> Phases] /\ req \in [Tasks -> Requests \cup {NoRequest}] /\ TInv
  BY DEF IInv, TInv, TypeOK, Phases
<1>2. ASSUME NEW s \in Tasks, Finish(s)
      PROVE  \A t \in Tasks : phase'[t] = "flushed" /\ req'[t].op \in {"stage"} \cup Prunes
                              => phase[t] = "flushed" /\ req'[t] = req[t]
  BY <1>1, <1>2 DEF Finish, Enter
<1>3. ASSUME NEW s \in Tasks, NEW p, NEW r,
             phase' = [phase EXCEPT ![s] = p], req' = [req EXCEPT ![s] = r],
             p # "flushed" \/ r.op \notin {"stage"} \cup Prunes
      PROVE  \A t \in Tasks : phase'[t] = "flushed" /\ req'[t].op \in {"stage"} \cup Prunes
                              => phase[t] = "flushed" /\ req'[t] = req[t]
  BY <1>1, <1>3
<1>4. ASSUME NEW s \in Admins, BeginCreate(s)
      PROVE  RowsInv'
  <2>1. \A t \in Tasks : phase'[t] = "flushed" /\ req'[t].op \in {"stage"} \cup Prunes
                         => phase[t] = "flushed" /\ req'[t] = req[t]
    BY <1>3, <1>4 DEF BeginCreate, Enter, Prunes
  <2>2. QED
    BY <1>4, <2>1, RestorableSame, RowsFrame DEF BeginCreate, WriteFile, restores
<1>5. ASSUME NEW s \in Tasks, NEW r, Unlink(s, r)
      PROVE  RowsInv'
  <2>1. \A t \in Tasks : phase'[t] = "flushed" /\ req'[t].op \in {"stage"} \cup Prunes
                         => phase[t] = "flushed" /\ req'[t] = req[t]
    BY <1>3, <1>5 DEF Unlink, Enter
  <2>2. QED
    BY <1>5, <2>1, RestorableSame, RowsFrame DEF Unlink, restores
<1>6. ASSUME NEW s \in Tasks, CommitCreate(s)
      PROVE  RowsInv'
  BY <1>2, <1>6, RestorableSame, RowsFrame DEF CommitCreate, restores
<1>7. ASSUME NEW s \in Tasks, Delete(s)
      PROVE  RowsInv'
  <2> USE DEF IInv, RowsInv
  <2>1. \A t \in Tasks : /\ req'[t] = req[t]
                         /\ t # s => phase'[t] = phase[t]
                         /\ t = s => req[t].op # "stage" /\ ~RefusesDelete(req[t])
    BY <1>1, <1>7 DEF Delete, Prunes
  <2>2. ASSUME NEW t \in Tasks, t \in Writing({"stage"})'
        PROVE  t \in Writing({"stage"})
    BY <2>1, <2>2 DEF Writing
  <2>3. ASSUME NEW t \in Tasks, t \in Writing(Prunes)'
        PROVE  t = s \/ t \in Writing(Prunes)
    BY <2>1, <2>3 DEF Writing
  <2>4. Writing({"stage"})' \subseteq Tasks /\ Writing(Prunes)' \subseteq Tasks
    BY DEF Writing
  <2>5. Restorable' = Restorable /\ rows' = rows /\ req' = req
    BY <1>7, RestorableSame DEF Delete, archives, restores
  <2>6. \A t \in Writing({"stage"}) : req[t].id \notin req[s].old
    BY <1>7 DEF Delete
  <2>7. \A t \in Writing({"stage"})' : req'[t].id \in rows'
    BY <2>2, <2>4, <2>5
  <2>8. \A t \in Writing(Prunes)' : req'[t].old \cap Restorable' = {}
    BY <2>1, <2>3, <2>4, <2>5 DEF RefusesDelete
  <2>9. \A t \in Writing(Prunes)' : \A u \in Writing({"stage"})' : req'[u].id \notin req'[t].old
    BY <2>2, <2>3, <2>4, <2>5, <2>6
  <2>10. QED
    BY <2>5, <2>7, <2>8, <2>9 DEF RestorableOnRecord, RefusesDelete
<1>8. ASSUME NEW s \in Tasks, CommitPrune(s)
      PROVE  RowsInv'
  <2>1. s \in Writing(Prunes)
    BY <1>8 DEF CommitPrune, Writing, Prunes
  <2>2. QED
    BY <1>8, <2>1, RowsDeleted DEF CommitPrune, restores
<1>9. CASE BeginNightly
  <2>1. \A t \in Tasks : phase'[t] = "flushed" /\ req'[t].op \in {"stage"} \cup Prunes
                         => phase[t] = "flushed" /\ req'[t] = req[t]
    BY <1>3, <1>9 DEF BeginNightly, Enter
  <2>2. QED
    BY <1>9, <2>1, RestorableSame, RowsFrame DEF BeginNightly, WriteFile, restores
<1>10. CASE CommitNightly
  <2>1. Scheduler \in Writing(Prunes)
    BY <1>1, <1>10, NightlyUnderWay DEF CommitNightly, Writing, Prunes
  <2>2. rows \ req[Scheduler].old \subseteq rows'
    BY <1>10 DEF CommitNightly
  <2>3. QED
    BY <1>10, <2>1, <2>2, RowsDeleted DEF CommitNightly, restores
<1>11. CASE ArchiveStep
  BY <1>4, <1>5, <1>6, <1>7, <1>8, <1>9, <1>10, <1>11
     DEF ArchiveStep, Nightly, BeginPrune, PruneNightly
<1>12. ASSUME NEW s \in Admins, NEW i \in rows, BeginStage(s, i) \/ BeginCommit(s, i) \/ BeginAbort(s, i)
       PROVE  RowsInv'
  <2>1. ASSUME NEW r, Enter(s, "read", r)
        PROVE  \A t \in Tasks : phase'[t] = "flushed" /\ req'[t].op \in {"stage"} \cup Prunes
                                => phase[t] = "flushed" /\ req'[t] = req[t]
    BY <1>3, <2>1 DEF Enter
  <2>2. UNCHANGED <<rows, events>>
    BY <1>12 DEF BeginStage, BeginCommit, BeginAbort, BeginEnd, archives, restores
  <2>3. PICK r : Enter(s, "read", r)
    BY <1>12 DEF BeginStage, BeginCommit, BeginAbort, BeginEnd
  <2>4. QED
    BY <2>1, <2>2, <2>3, RestorableSame, RowsFrame
<1>13. ASSUME NEW s \in Tasks, FlushStage(s)
       PROVE  RowsInv'
  <2> USE DEF IInv, RowsInv
  <2>1. \A t \in Tasks : t # s => phase'[t] = phase[t]
    BY <1>1, <1>13 DEF FlushStage
  <2>2. ASSUME NEW t \in Tasks, t \in Writing({"stage"})'
        PROVE  t = s \/ t \in Writing({"stage"})
    BY <1>13, <2>1, <2>2 DEF FlushStage, Writing
  <2>3. ASSUME NEW t \in Tasks, t \in Writing(Prunes)'
        PROVE  t \in Writing(Prunes)
    BY <1>13, <2>1, <2>3 DEF FlushStage, Writing, Prunes
  <2>4. Writing({"stage"})' \subseteq Tasks /\ Writing(Prunes)' \subseteq Tasks
    BY DEF Writing
  <2>5. Restorable' = Restorable /\ rows' = rows /\ req' = req
    BY <1>13, RestorableSame DEF FlushStage, archives
  <2>6. req[s].id \in rows /\ \A t \in Writing(Prunes) : req[s].id \notin req[t].old
    BY <1>13 DEF FlushStage
  <2>7. \A t \in Writing({"stage"})' : req'[t].id \in rows'
    BY <2>2, <2>4, <2>5, <2>6
  <2>8. \A t \in Writing(Prunes)' : req'[t].old \cap Restorable' = {}
    BY <2>3, <2>4, <2>5 DEF RefusesDelete
  <2>9. \A t \in Writing(Prunes)' : \A u \in Writing({"stage"})' : req'[u].id \notin req'[t].old
    BY <2>2, <2>3, <2>4, <2>5, <2>6
  <2>10. QED
    BY <2>5, <2>7, <2>8, <2>9 DEF RestorableOnRecord, RefusesDelete
<1>14. ASSUME NEW s \in Tasks, CommitStage(s)
       PROVE  RowsInv'
  <2> USE DEF IInv, RowsInv
  <2>1. \A t \in Tasks : /\ t # s => phase'[t] = phase[t] /\ req'[t] = req[t]
                         /\ t = s => phase'[t] = "idle"
    BY <1>1, <1>14 DEF CommitStage, Finish, Enter
  <2>2. ASSUME NEW t \in Tasks, t \in Writing({"stage"})'
        PROVE  t \in Writing({"stage"}) /\ req'[t] = req[t]
    BY <2>1, <2>2 DEF Writing
  <2>3. ASSUME NEW t \in Tasks, t \in Writing(Prunes)'
        PROVE  t \in Writing(Prunes) /\ req'[t] = req[t]
    BY <2>1, <2>3 DEF Writing
  <2>4. Writing({"stage"})' \subseteq Tasks /\ Writing(Prunes)' \subseteq Tasks
    BY DEF Writing
  <2>5. s \in Writing({"stage"}) /\ rows' = rows
    BY <1>14 DEF CommitStage, Writing, archives
  <2>6. Restorable' \subseteq Restorable \cup {req[s].id}
    BY <1>14 DEF CommitStage, Restorable, IInv, TInv, TypeOK
  <2>7. \A t \in Writing({"stage"})' : req'[t].id \in rows'
    BY <2>2, <2>4, <2>5
  <2>8. \A t \in Writing(Prunes)' : req'[t].old \cap Restorable' = {}
    BY <2>3, <2>4, <2>5, <2>6 DEF RefusesDelete
  <2>9. \A t \in Writing(Prunes)' : \A u \in Writing({"stage"})' : req'[u].id \notin req'[t].old
    BY <2>2, <2>3, <2>4
  <2>10. Restorable' \subseteq rows'
    BY <2>5, <2>6 DEF RestorableOnRecord
  <2>11. QED
    BY <2>7, <2>8, <2>9, <2>10 DEF RestorableOnRecord, RefusesDelete
<1>15. ASSUME NEW s \in Tasks, FlushEnd(s)
       PROVE  RowsInv'
  <2>1. \A t \in Tasks : phase'[t] = "flushed" /\ req'[t].op \in {"stage"} \cup Prunes
                         => phase[t] = "flushed" /\ req'[t] = req[t]
    BY <1>1, <1>15 DEF FlushEnd, Prunes
  <2>2. QED
    BY <1>15, <2>1, RestorableSame, RowsFrame DEF FlushEnd, archives, restores
<1>16. ASSUME NEW s \in Tasks, CommitEnd(s)
       PROVE  RowsInv'
  <2>1. \A t \in Tasks : phase'[t] = "flushed" /\ req'[t].op \in {"stage"} \cup Prunes
                         => phase[t] = "flushed" /\ req'[t] = req[t]
    BY <1>1, <1>16 DEF CommitEnd
  <2>2. req[s].no \in 1 .. MaxEvents /\ events[req[s].no] # NoEvent
    BY <1>16 DEF CommitEnd, IInv, TInv, Forms, Form, Decisions, EventsInv, Enders
  <2>3. \A n \in 1 .. MaxEvents : /\ events'[n] # NoEvent <=> events[n] # NoEvent
                                  /\ events[n] # NoEvent => events'[n].id = events[n].id
    <3>1. /\ events \in [1 .. MaxEvents -> Event \cup {NoEvent}]
          /\ events' = [events EXCEPT ![req[s].no].state = req[s].state]
          /\ req[s].state \in Ended
      BY <1>16 DEF CommitEnd, IInv, TInv, TypeOK, Forms, Form
    <3>2. /\ events'[req[s].no].id = events[req[s].no].id
          /\ events'[req[s].no].state \in Ended
      BY <2>2, <3>1 DEF Event
    <3>3. \A n \in 1 .. MaxEvents : n # req[s].no => events'[n] = events[n]
      BY <3>1
    <3>4. QED
      BY <2>2, <3>2, <3>3 DEF NoEvent, Ended
  <2>4. Restorable' = Restorable
    BY <2>3 DEF Restorable
  <2>5. QED
    BY <1>16, <2>1, <2>4, RowsFrame DEF CommitEnd, archives
<1>17. ASSUME NEW s \in Tasks, ExitMaintenance(s) \/ Refuse(s) \/ Undo(s)
       PROVE  RowsInv'
  <2>1. Finish(s) /\ UNCHANGED <<rows, events>>
    BY <1>17 DEF ExitMaintenance, Refuse, Undo, archives, restores
  <2>2. QED
    BY <1>2, <2>1, RestorableSame, RowsFrame
<1>18. CASE Restart
  BY <1>18, RestorableSame, RowsFrame DEF Restart, archives
<1>19. CASE Visit \/ NextDay \/ UNCHANGED vars
  BY <1>19, RestorableSame, RowsFrame DEF Visit, NextDay, vars, archives, restores
<1>20. QED
  BY <1>11, <1>12, <1>13, <1>14, <1>15, <1>16, <1>17, <1>18, <1>19, Kinds DEF DecisionStep

-----------------------------------------------------------------------------
(* Events *)

\* No event changes and no decision begins.
LEMMA EventsFrame ==
  ASSUME IInv, UNCHANGED <<events, ends, execute>>,
         \A t \in Tasks : req'[t].op \in Decisions
                          => req'[t] = req[t] /\ (phase[t] = "done" => phase'[t] = "done")
  PROVE  EventsInv'
<1> USE DEF IInv, EventsInv
<1>1. ASSUME NEW t \in Tasks, t \in Stagers'
      PROVE  t \in Stagers /\ req'[t] = req[t]
  BY <1>1 DEF Stagers, Decisions
<1>2. ASSUME NEW t \in Tasks, t \in Enders'
      PROVE  t \in Enders /\ req'[t] = req[t] /\ (phase[t] = "done" => phase'[t] = "done")
  BY <1>2 DEF Enders, Decisions
<1>3. Stagers' \subseteq Tasks /\ Enders' \subseteq Tasks
  BY DEF Stagers, Enders
<1>4. Staged' = Staged
  BY DEF Staged, IsStaged
<1>5. (\A s \in Stagers : events[req[s].no] = NoEvent)'
  BY <1>1, <1>3
<1>6. (\A s, t \in Stagers : req[s].no = req[t].no => s = t)'
  BY <1>1, <1>3
<1>7. (\A s \in Stagers : \A n \in Staged : events[n].by # s)'
  BY <1>1, <1>3, <1>4
<1>8. (\A s \in Enders : events[req[s].no] # NoEvent)'
  BY <1>2, <1>3
<1>9. (\A s \in Enders : phase[s] # "done" => ends[req[s].no][s] = 0)'
  BY <1>2, <1>3
<1>10. (execute => \A s \in Enders : req[s].state # "committed")'
  BY <1>2, <1>3
<1>11. OneStagedEach' /\ EndsAreRecorded' /\ NothingIsRestored'
  BY <1>4 DEF OneStagedEach, EndsAreRecorded, NothingIsRestored
<1>12. QED
  BY <1>5, <1>6, <1>7, <1>8, <1>9, <1>10, <1>11

LEMMA EventsBeginStage ==
  ASSUME IInv, NEW s \in Admins, NEW i \in rows, BeginStage(s, i)
  PROVE  EventsInv'
<1> USE DEF IInv, EventsInv
<1>1. /\ req \in [Tasks -> Requests \cup {NoRequest}] /\ phase \in [Tasks -> Phases] /\ TInv
      /\ s \in Tasks
  BY DEF TInv, TypeOK, Phases, Tasks
<1>2. /\ \A t \in Tasks \ {s} : req'[t] = req[t] /\ phase'[t] = phase[t]
      /\ req'[s].op = "stage" /\ req'[s].no = NextEvent
  BY <1>1 DEF BeginStage, Enter
<1>3. /\ events[NextEvent] = NoEvent
      /\ \A t \in Stagers : req[t].no # NextEvent
  BY NextIsFresh DEF BeginStage
<1>4. UNCHANGED <<events, ends, execute>> /\ Staged' = Staged /\ Staged = {}
  BY DEF BeginStage, MayStage, Staged, IsStaged, restores, process
<1>5. ASSUME NEW t \in Tasks, t \in Stagers', t # s
      PROVE  t \in Stagers /\ req'[t] = req[t]
  BY <1>2, <1>5 DEF Stagers
<1>6. ASSUME NEW t \in Tasks, t \in Enders'
      PROVE  t \in Enders /\ req'[t] = req[t] /\ phase'[t] = phase[t]
  BY <1>2, <1>6 DEF Enders
<1>7. Stagers' \subseteq Tasks /\ Enders' \subseteq Tasks
  BY DEF Stagers, Enders
<1>8. (\A t \in Stagers : events[req[t].no] = NoEvent)'
  BY <1>2, <1>3, <1>4, <1>5, <1>7
<1>9. (\A t, u \in Stagers : req[t].no = req[u].no => t = u)'
  BY <1>2, <1>3, <1>5, <1>7
<1>10. (\A t \in Stagers : \A n \in Staged : events[n].by # t)'
  BY <1>4
<1>11. (\A t \in Enders : events[req[t].no] # NoEvent)'
  BY <1>4, <1>6, <1>7
<1>12. (\A t \in Enders : phase[t] # "done" => ends[req[t].no][t] = 0)'
  BY <1>4, <1>6, <1>7
<1>13. (execute => \A t \in Enders : req[t].state # "committed")'
  BY <1>4, <1>6, <1>7
<1>14. OneStagedEach' /\ EndsAreRecorded' /\ NothingIsRestored'
  BY <1>4 DEF OneStagedEach, EndsAreRecorded, NothingIsRestored
<1>15. QED
  BY <1>8, <1>9, <1>10, <1>11, <1>12, <1>13, <1>14

LEMMA EventsBeginEnd ==
  ASSUME IInv, NEW s \in Admins, NEW i \in rows, NEW state, execute => state # "committed",
         BeginEnd(s, i, state)
  PROVE  EventsInv'
<1> USE DEF IInv, EventsInv
<1>1. /\ req \in [Tasks -> Requests \cup {NoRequest}] /\ phase \in [Tasks -> Phases] /\ s \in Tasks
  BY DEF TInv, TypeOK, Phases, Tasks
<1>2. /\ \A t \in Tasks \ {s} : req'[t] = req[t] /\ phase'[t] = phase[t]
      /\ req'[s].op = "end" /\ req'[s].no = Max(Staged) /\ req'[s].state = state
  BY <1>1 DEF BeginEnd, Enter
<1>3. Max(Staged) \in 1 .. MaxEvents /\ events[Max(Staged)].state = "staged"
  BY HighestStaged DEF BeginEnd, Staged, IsStaged
<1>4. UNCHANGED <<events, ends, execute>> /\ Staged' = Staged
  BY DEF BeginEnd, Staged, IsStaged, restores, process
<1>5. events[Max(Staged)] # NoEvent /\ ends[Max(Staged)][s] = 0
  <2>1. ~ (ends[Max(Staged)][s] > 0)
    BY <1>3 DEF EndsAreRecorded, Ended
  <2>2. ends[Max(Staged)][s] \in Nat
    BY <1>3 DEF TInv, TypeOK
  <2>3. QED
    BY <1>3, <2>1, <2>2 DEF NoEvent
<1>6. ASSUME NEW t \in Tasks, t \in Stagers'
      PROVE  t \in Stagers /\ req'[t] = req[t]
  BY <1>2, <1>6 DEF Stagers
<1>7. ASSUME NEW t \in Tasks, t \in Enders', t # s
      PROVE  t \in Enders /\ req'[t] = req[t] /\ phase'[t] = phase[t]
  BY <1>2, <1>7 DEF Enders
<1>8. Stagers' \subseteq Tasks /\ Enders' \subseteq Tasks
  BY DEF Stagers, Enders
<1>9. (\A t \in Stagers : events[req[t].no] = NoEvent)'
  BY <1>4, <1>6, <1>8
<1>10. (\A t, u \in Stagers : req[t].no = req[u].no => t = u)'
  BY <1>6, <1>8
<1>11. (\A t \in Stagers : \A n \in Staged : events[n].by # t)'
  BY <1>4, <1>6, <1>8
<1>12. (\A t \in Enders : events[req[t].no] # NoEvent)'
  BY <1>2, <1>4, <1>5, <1>7, <1>8
<1>13. (\A t \in Enders : phase[t] # "done" => ends[req[t].no][t] = 0)'
  BY <1>2, <1>4, <1>5, <1>7, <1>8
<1>14. (execute => \A t \in Enders : req[t].state # "committed")'
  BY <1>2, <1>4, <1>7, <1>8
<1>15. OneStagedEach' /\ EndsAreRecorded' /\ NothingIsRestored'
  BY <1>4 DEF OneStagedEach, EndsAreRecorded, NothingIsRestored
<1>16. QED
  BY <1>9, <1>10, <1>11, <1>12, <1>13, <1>14, <1>15

LEMMA EventsCommitStage ==
  ASSUME IInv, NEW s \in Tasks, CommitStage(s)
  PROVE  EventsInv'
<1> DEFINE no == req[s].no
<1> USE DEF IInv, EventsInv
<1>1. /\ req \in [Tasks -> Requests \cup {NoRequest}] /\ phase \in [Tasks -> Phases] /\ TInv
      /\ s \in Stagers /\ s \in Admins /\ no \in 1 .. MaxEvents /\ events[no] = NoEvent
  BY DEF TInv, TypeOK, Phases, CommitStage, Stagers, Forms, Form, Tasks, Decisions
<1>2. /\ \A t \in Tasks \ {s} : req'[t] = req[t] /\ phase'[t] = phase[t]
      /\ req'[s].op = "none"
  BY <1>1 DEF CommitStage, Finish, Enter, NoRequest
<1>3. /\ \A n \in 1 .. MaxEvents : n # no => events'[n] = events[n]
      /\ events'[no].state = "staged" /\ events'[no].by = s
      /\ UNCHANGED <<ends, execute>>
  BY <1>1 DEF CommitStage, TInv, TypeOK, process
<1>4. Staged' = Staged \cup {no}
  BY <1>1, <1>3 DEF Staged, IsStaged
<1>5. ASSUME NEW t \in Tasks, t \in Stagers'
      PROVE  t \in Stagers /\ t # s /\ req'[t] = req[t] /\ req[t].no \in 1 .. MaxEvents
  BY <1>1, <1>2, <1>5 DEF Stagers, TInv, Forms, Form, Decisions
<1>6. ASSUME NEW t \in Tasks, t \in Enders'
      PROVE  /\ t \in Enders /\ req'[t] = req[t] /\ phase'[t] = phase[t]
             /\ req[t].no \in 1 .. MaxEvents
  BY <1>1, <1>2, <1>6 DEF Enders, TInv, Forms, Form, Decisions
<1>7. Stagers' \subseteq Tasks /\ Enders' \subseteq Tasks
  BY DEF Stagers, Enders
<1> HIDE DEF no
<1>8. (\A t \in Stagers : events[req[t].no] = NoEvent)'
  BY <1>1, <1>3, <1>5, <1>7 DEF no
<1>9. (\A t, u \in Stagers : req[t].no = req[u].no => t = u)'
  BY <1>5, <1>7
<1>10. (\A t \in Stagers : \A n \in Staged : events[n].by # t)'
  <2>1. \A n \in Staged : n # no /\ n \in 1 .. MaxEvents
    BY <1>1 DEF Staged, IsStaged, NoEvent
  <2>2. QED
    BY <1>3, <1>4, <1>5, <1>7, <2>1
<1>11. (\A t \in Enders : events[req[t].no] # NoEvent)'
  BY <1>1, <1>3, <1>6, <1>7
<1>12. (\A t \in Enders : phase[t] # "done" => ends[req[t].no][t] = 0)'
  BY <1>3, <1>6, <1>7
<1>13. (execute => \A t \in Enders : req[t].state # "committed")'
  BY <1>3, <1>6, <1>7
<1>14. OneStagedEach'
  <2>1. \A n \in Staged : n # no /\ n \in 1 .. MaxEvents /\ events[n].by # s
    BY <1>1 DEF Staged, IsStaged, NoEvent
  <2>2. QED
    BY <1>3, <1>4, <2>1 DEF OneStagedEach
<1>15. EndsAreRecorded'
  <2> SUFFICES ASSUME NEW n \in 1 .. MaxEvents
               PROVE  /\ events'[n].state \in Ended <=> \E t \in Admins : ends[n][t] > 0
                      /\ \A t \in Admins : ends[n][t] <= 1
    BY <1>3 DEF EndsAreRecorded
  <2>1. events'[n].state \in Ended <=> events[n].state \in Ended
    BY <1>1, <1>3 DEF Ended, NoEvent
  <2>2. QED
    BY <2>1 DEF EndsAreRecorded
<1>16. NothingIsRestored'
  BY <1>3 DEF NothingIsRestored
<1>17. QED
  BY <1>8, <1>9, <1>10, <1>11, <1>12, <1>13, <1>14, <1>15, <1>16

LEMMA EventsCommitEnd ==
  ASSUME IInv, NEW s \in Tasks, CommitEnd(s)
  PROVE  EventsInv'
<1> DEFINE no == req[s].no
<1> USE DEF IInv, EventsInv
<1>1. /\ TInv /\ phase \in [Tasks -> Phases] /\ phase[s] = "flushed"
      /\ s \in Enders /\ s \in Admins /\ no \in 1 .. MaxEvents /\ req[s].state \in Ended
      /\ events[no] \in Event
  BY DEF TInv, TypeOK, Phases, CommitEnd, Enders, Forms, Form, Tasks, Decisions
<1>2. /\ \A t \in Tasks \ {s} : phase'[t] = phase[t]
      /\ phase'[s] = "done" /\ req' = req /\ execute' = execute
  BY <1>1 DEF CommitEnd, process
<1>3. /\ \A n \in 1 .. MaxEvents : n # no => events'[n] = events[n]
      /\ events'[no].state = req[s].state /\ events'[no].by = events[no].by
      /\ events'[no] # NoEvent
  BY <1>1 DEF CommitEnd, TInv, TypeOK, Event, NoEvent, Ended
<1>4. /\ \A n \in 1 .. MaxEvents : \A t \in Admins :
           ends'[n][t] = IF n = no /\ t = s THEN ends[n][t] + 1 ELSE ends[n][t]
      /\ ends[no][s] = 0
  BY <1>1 DEF CommitEnd, TInv, TypeOK
<1>5. Staged' \subseteq Staged /\ no \notin Staged'
  BY <1>1, <1>3 DEF Staged, IsStaged, Ended
<1>6. Stagers' = Stagers /\ Enders' = Enders /\ Stagers \subseteq Tasks
  BY <1>2 DEF Stagers, Enders
<1>7. \A t \in Stagers \cup Enders : t \in Tasks /\ t \in Admins /\ req[t].no \in 1 .. MaxEvents
  BY <1>1 DEF Stagers, Enders, TInv, Forms, Form, Tasks, Decisions
<1>8. events[no] # NoEvent
  BY <1>1
<1> HIDE DEF no
<1>9. (\A t \in Stagers : events[req[t].no] = NoEvent)'
  BY <1>2, <1>3, <1>6, <1>7, <1>8
<1>10. (\A t, u \in Stagers : req[t].no = req[u].no => t = u)'
  BY <1>2, <1>6
<1>11. (\A t \in Stagers : \A n \in Staged : events[n].by # t)'
  <2>1. \A n \in Staged' : events'[n].by = events[n].by
    BY <1>3, <1>5 DEF Staged
  <2>2. QED
    BY <1>5, <1>6, <2>1
<1>12. (\A t \in Enders : events[req[t].no] # NoEvent)'
  BY <1>2, <1>3, <1>6, <1>7
<1>13. (\A t \in Enders : phase[t] # "done" => ends[req[t].no][t] = 0)'
  BY <1>2, <1>4, <1>6, <1>7
<1>14. (execute => \A t \in Enders : req[t].state # "committed")'
  BY <1>2, <1>6
<1>15. OneStagedEach'
  <2>1. \A n \in Staged' : n \in Staged /\ events'[n].by = events[n].by
    BY <1>3, <1>5 DEF Staged
  <2>2. QED
    BY <2>1 DEF OneStagedEach
<1>16. EndsAreRecorded'
  <2> SUFFICES ASSUME NEW n \in 1 .. MaxEvents
               PROVE  /\ events'[n].state \in Ended <=> \E t \in Admins : ends'[n][t] > 0
                      /\ \A t \in Admins : ends'[n][t] <= 1
    BY DEF EndsAreRecorded
  <2>1. CASE n = no
    <3>1. events'[n].state \in Ended /\ ends'[n][s] > 0
      BY <1>1, <1>3, <1>4, <2>1
    <3>2. \A t \in Admins : ends'[n][t] <= 1
      BY <1>4, <2>1 DEF EndsAreRecorded
    <3>3. QED
      BY <1>1, <3>1, <3>2
  <2>2. CASE n # no
    <3>1. events'[n] = events[n] /\ \A t \in Admins : ends'[n][t] = ends[n][t]
      BY <1>3, <1>4, <2>2
    <3>2. QED
      BY <3>1 DEF EndsAreRecorded
  <2>3. QED
    BY <2>1, <2>2
<1>17. NothingIsRestored'
  BY <1>1, <1>2, <1>3 DEF NothingIsRestored
<1>18. QED
  BY <1>9, <1>10, <1>11, <1>12, <1>13, <1>14, <1>15, <1>16, <1>17

LEMMA NextEvents == IInv /\ [Next]_vars => EventsInv'
<1> SUFFICES ASSUME IInv, [Next]_vars
             PROVE  EventsInv'
  OBVIOUS
<1>1. /\ phase \in [Tasks -> Phases] /\ req \in [Tasks -> Requests \cup {NoRequest}] /\ TInv
  BY DEF IInv, TInv, TypeOK, Phases
<1>2. CASE ArchiveStep
  BY <1>1, <1>2, ArchiveFrame, EventsFrame DEF DecisionsStay
<1>3. ASSUME NEW s \in Admins, NEW i \in rows, BeginStage(s, i)
      PROVE  EventsInv'
  BY <1>3, EventsBeginStage
<1>4. ASSUME NEW s \in Admins, NEW i \in rows, BeginCommit(s, i) \/ BeginAbort(s, i)
      PROVE  EventsInv'
  BY <1>4, Outcome, EventsBeginEnd DEF BeginCommit, BeginAbort
<1>5. ASSUME NEW s \in Tasks, FlushStage(s) \/ FlushEnd(s)
      PROVE  EventsInv'
  <2>1. UNCHANGED <<events, ends, execute>> /\ req' = req
    BY <1>5 DEF FlushStage, FlushEnd, restores, process
  <2>2. \A t \in Tasks : phase[t] = "done" => phase'[t] = "done"
    BY <1>1, <1>5 DEF FlushStage, FlushEnd
  <2>3. QED
    BY <2>1, <2>2, EventsFrame
<1>6. ASSUME NEW s \in Tasks, ExitMaintenance(s) \/ Refuse(s) \/ Undo(s)
      PROVE  EventsInv'
  <2>1. UNCHANGED <<events, ends, execute>> /\ Finish(s)
    BY <1>6 DEF ExitMaintenance, Refuse, Undo, restores, process
  <2>2. \A t \in Tasks : req'[t].op \in Decisions => req'[t] = req[t] /\ phase'[t] = phase[t]
    BY <1>1, <2>1 DEF Finish, Enter, NoRequest, Decisions
  <2>3. QED
    BY <2>1, <2>2, EventsFrame
<1>7. CASE Restart
  BY <1>7, EventsFrame DEF Restart, NoRequest, Decisions
<1>8. CASE Visit \/ NextDay \/ UNCHANGED vars
  BY <1>8, EventsFrame DEF Visit, NextDay, vars, restores, process
<1>9. QED
  BY <1>2, <1>3, <1>4, <1>5, <1>6, <1>7, <1>8, Kinds, EventsCommitStage, EventsCommitEnd
     DEF DecisionStep

-----------------------------------------------------------------------------
(* The flag *)

\* No decision is taken, begun or ended.
LEMMA FlagFrame ==
  ASSUME IInv, UNCHANGED <<events, flag, stuck, calm>>, DecisionsStay, TrafficIsHeld'
  PROVE  FlagInv'
<1>1. Stagers' = Stagers /\ Enders' = Enders /\ Writing({"stage"})' = Writing({"stage"})
  BY DEF Stagers, Enders, Writing, DecisionsStay, Decisions
<1>2. \A t \in Stagers \cup Enders : t \in Tasks /\ req'[t] = req[t] /\ phase'[t] = phase[t]
  BY DEF Stagers, Enders, DecisionsStay, Decisions
<1>3. Staged' = Staged
  BY DEF Staged, IsStaged
<1>4. Orderly => Orderly'
  BY <1>1, <1>2, <1>3 DEF Orderly
<1>5. MaintenanceHasCause'
  <2>1. ASSUME NEW s \in Tasks, phase[s] = "done"
        PROVE  phase'[s] = "done"
    <3>1. req[s].op \in Decisions
      BY <2>1 DEF IInv, TInv, Forms, Form, Decisions
    <3>2. QED
      BY <2>1, <3>1 DEF DecisionsStay
  <2>2. QED
    BY <1>1, <1>3, <2>1 DEF IInv, FlagInv, MaintenanceHasCause
<1>6. QED
  BY <1>4, <1>5 DEF IInv, FlagInv

\* A decision begins.
LEMMA FlagBegin ==
  ASSUME IInv, NEW s \in Admins, NEW r, phase[s] = "idle", r.op \in Decisions,
         Enter(s, "read", r), UNCHANGED <<events, flag, stuck, intruded>>,
         calm' = (calm /\ Alone(s)),
         r.op = "stage" => Staged = {},
         r.op = "end" => r.no \in Staged
  PROVE  FlagInv'
<1>1. /\ TInv /\ s \in Tasks
      /\ phase \in [Tasks -> Phases] /\ req \in [Tasks -> Requests \cup {NoRequest}]
  BY DEF IInv, TInv, TypeOK, Phases, Tasks
<1>2. /\ \A t \in Tasks \ {s} : phase'[t] = phase[t] /\ req'[t] = req[t]
      /\ phase'[s] = "read" /\ req'[s] = r
  BY <1>1 DEF Enter
<1>3. Staged' = Staged
  BY DEF Staged, IsStaged
<1>4. Writing({"stage"})' = Writing({"stage"})
  BY <1>2 DEF Writing
<1>5. ASSUME calm'
      PROVE  Orderly'
  <2>1. calm /\ Orderly /\ Alone(s)
    BY <1>5 DEF IInv, FlagInv
  <2>2. \A t \in Tasks \ {s} : req[t].op \notin Decisions
    BY <1>1, <2>1, IdleHasNone DEF Alone
  <2>3. Stagers' \cup Enders' \subseteq {s}
    BY <1>2, <2>2 DEF Stagers, Enders, Decisions
  <2>4. s \in Stagers' => Staged = {}
    BY <1>2 DEF Stagers
  <2>5. s \in Enders' => Staged = {req'[s].no}
    BY <1>2, <2>1 DEF Enders, Orderly
  <2>6. QED
    BY <1>2, <1>3, <1>4, <2>1, <2>3, <2>4, <2>5 DEF Orderly
<1>6. TrafficIsHeld'
  BY DEF IInv, FlagInv, TrafficIsHeld
<1>7. MaintenanceHasCause'
  <2>1. \A t \in Tasks : phase[t] = "done" => phase'[t] = "done"
    BY <1>2
  <2>2. QED
    BY <1>3, <1>4, <2>1 DEF IInv, FlagInv, MaintenanceHasCause
<1>8. QED
  BY <1>5, <1>6, <1>7 DEF FlagInv

\* A task that decides ends, without having staged or written anything that lasts.
LEMMA FlagDropped ==
  ASSUME IInv, NEW s \in Tasks, Finish(s), phase[s] # "done",
         UNCHANGED <<events, flag, calm, intruded>>,
         \/ stuck' = stuck /\ s \notin Writing({"stage"})
         \/ stuck' = (stuck \/ s \in Writing({"stage"}))
  PROVE  FlagInv'
<1>1. phase \in [Tasks -> Phases] /\ req \in [Tasks -> Requests \cup {NoRequest}]
  BY DEF IInv, TInv, TypeOK, Phases
<1>2. /\ \A t \in Tasks \ {s} : phase'[t] = phase[t] /\ req'[t] = req[t]
      /\ phase'[s] = "idle" /\ req'[s].op = "none"
  BY <1>1 DEF Finish, Enter, NoRequest
<1>3. Staged' = Staged
  BY DEF Staged, IsStaged
<1>4. /\ Stagers' \subseteq Stagers \ {s} /\ Enders' \subseteq Enders \ {s}
      /\ Stagers \subseteq Tasks /\ Enders \subseteq Tasks
      /\ Writing({"stage"})' = Writing({"stage"}) \ {s}
  BY <1>2 DEF Stagers, Enders, Writing
<1>5. Orderly => Orderly'
  BY <1>2, <1>3, <1>4 DEF Orderly
<1>6. TrafficIsHeld'
  BY DEF IInv, FlagInv, TrafficIsHeld
<1>7. MaintenanceHasCause'
  <2>1. \A t \in Tasks : phase[t] = "done" => phase'[t] = "done"
    BY <1>2
  <2>2. s \in Writing({"stage"}) => stuck'
    OBVIOUS
  <2>3. stuck => stuck'
    OBVIOUS
  <2>4. QED
    BY <1>3, <1>4, <2>1, <2>2, <2>3 DEF IInv, FlagInv, MaintenanceHasCause
<1>8. QED
  BY <1>5, <1>6, <1>7 DEF IInv, FlagInv

LEMMA FlagRaised ==
  ASSUME IInv, NEW s \in Tasks, FlushStage(s)
  PROVE  FlagInv'
<1>1. /\ phase \in [Tasks -> Phases] /\ s \in Stagers /\ phase[s] = "read"
      /\ req[s].id \in Ids
  BY DEF IInv, TInv, TypeOK, Phases, FlushStage, Stagers, Forms, Form
<1>2. /\ \A t \in Tasks \ {s} : phase'[t] = phase[t]
      /\ phase'[s] = "flushed" /\ req' = req
  BY <1>1 DEF FlushStage
<1>3. flag' # Off /\ UNCHANGED <<events, stuck, calm, intruded>>
  BY <1>1, LimitsAssumption DEF FlushStage, Raised, Ids, Off, ghosts
<1>4. Staged' = Staged
  BY <1>3 DEF Staged, IsStaged
<1>5. Stagers' = Stagers /\ Enders' = Enders
  BY <1>2 DEF Stagers, Enders
<1>6. \A t \in Enders : t \in Tasks \ {s}
  BY <1>1 DEF Stagers, Enders
<1>7. Orderly => Orderly'
  BY <1>2, <1>3, <1>4, <1>5, <1>6 DEF Orderly
<1>8. TrafficIsHeld'
  BY <1>3 DEF IInv, FlagInv, TrafficIsHeld
<1>9. s \in Writing({"stage"})'
  BY <1>1, <1>2 DEF Writing, Stagers
<1>10. QED
  BY <1>3, <1>7, <1>8, <1>9 DEF IInv, FlagInv, MaintenanceHasCause

LEMMA FlagStaged ==
  ASSUME IInv, NEW s \in Tasks, CommitStage(s)
  PROVE  FlagInv'
<1>1. /\ phase \in [Tasks -> Phases] /\ req \in [Tasks -> Requests \cup {NoRequest}]
      /\ s \in Stagers /\ s \in Writing({"stage"}) /\ req[s].no \in 1 .. MaxEvents
  BY DEF IInv, TInv, TypeOK, Phases, CommitStage, Stagers, Writing, Forms, Form, Decisions
<1>2. /\ \A t \in Tasks \ {s} : phase'[t] = phase[t] /\ req'[t] = req[t]
      /\ phase'[s] = "idle" /\ req'[s].op = "none"
  BY <1>1 DEF CommitStage, Finish, Enter, NoRequest
<1>3. UNCHANGED <<flag, stuck, calm, intruded>>
  BY DEF CommitStage, ghosts
<1>4. Staged' = Staged \cup {req[s].no}
  BY <1>1 DEF CommitStage, Staged, IsStaged, IInv, TInv, TypeOK
<1>5. Stagers' \subseteq Stagers \ {s} /\ Enders' \subseteq Enders /\ Stagers \subseteq Tasks
  BY <1>1, <1>2 DEF Stagers, Enders
<1>6. Writing({"stage"})' \subseteq Writing({"stage"})
  BY <1>2 DEF Writing
<1>7. Orderly => Orderly'
  <2> SUFFICES ASSUME Orderly
               PROVE  Orderly'
    OBVIOUS
  <2>1. Stagers' = {} /\ Enders' = {}
    <3>1. \A t \in Stagers \cup Enders : t = s
      BY <1>1 DEF Orderly
    <3>2. s \notin Enders
      BY <1>1 DEF Stagers, Enders
    <3>3. QED
      BY <1>5, <3>1, <3>2
  <2>2. Staged' = {req[s].no} /\ flag' # Off
    BY <1>1, <1>3, <1>4 DEF Orderly
  <2>3. QED
    BY <2>1, <2>2 DEF Orderly
<1>8. TrafficIsHeld'
  BY <1>3 DEF IInv, FlagInv, TrafficIsHeld
<1>9. MaintenanceHasCause'
  BY <1>4 DEF MaintenanceHasCause
<1>10. QED
  BY <1>3, <1>7, <1>8, <1>9 DEF IInv, FlagInv

LEMMA FlagFlushEnd ==
  ASSUME IInv, NEW s \in Tasks, FlushEnd(s)
  PROVE  FlagInv'
<1>1. phase \in [Tasks -> Phases] /\ phase[s] = "read" /\ req[s].op = "end"
  BY DEF IInv, TInv, TypeOK, Phases, FlushEnd
<1>2. /\ \A t \in Tasks : phase'[t] = "done" <=> phase[t] = "done"
      /\ \A t \in Tasks \ {s} : phase'[t] = phase[t]
  BY <1>1 DEF FlushEnd
<1>3. UNCHANGED <<events, flag, req, stuck, calm, intruded>>
  BY DEF FlushEnd, restores, ghosts
<1>4. Staged' = Staged
  BY <1>3 DEF Staged, IsStaged
<1>5. /\ Stagers' = Stagers /\ Enders' = Enders /\ Enders \subseteq Tasks
      /\ Writing({"stage"})' = Writing({"stage"})
  BY <1>1, <1>2, <1>3 DEF Stagers, Enders, Writing
<1>6. Orderly => Orderly'
  BY <1>2, <1>3, <1>4, <1>5 DEF Orderly
<1>7. TrafficIsHeld'
  BY <1>3 DEF IInv, FlagInv, TrafficIsHeld
<1>8. MaintenanceHasCause'
  BY <1>2, <1>3, <1>4, <1>5 DEF IInv, FlagInv, MaintenanceHasCause
<1>9. QED
  BY <1>3, <1>6, <1>7, <1>8 DEF IInv, FlagInv

LEMMA FlagCommitEnd ==
  ASSUME IInv, NEW s \in Tasks, CommitEnd(s)
  PROVE  FlagInv'
<1>1. /\ phase \in [Tasks -> Phases] /\ phase[s] = "flushed"
      /\ s \in Enders /\ req[s].no \in 1 .. MaxEvents /\ req[s].state \in Ended
  BY DEF IInv, TInv, TypeOK, Phases, CommitEnd, Enders, Forms, Form, Decisions
<1>2. phase'[s] = "done" /\ UNCHANGED <<flag, req, stuck, calm, intruded>>
  BY <1>1 DEF CommitEnd, ghosts
<1>3. Staged' \subseteq Staged \ {req[s].no}
  BY <1>1 DEF CommitEnd, Staged, IsStaged, IInv, TInv, TypeOK, Ended
<1>4. Stagers' = Stagers /\ Enders' = Enders
  BY <1>2 DEF Stagers, Enders
<1>5. Orderly => Orderly'
  <2> SUFFICES ASSUME Orderly
               PROVE  Orderly'
    OBVIOUS
  <2>1. /\ \A t \in Stagers \cup Enders : t = s
        /\ Staged = {req[s].no}
    BY <1>1 DEF Orderly
  <2>2. Staged' = {} /\ s \notin Stagers
    BY <1>1, <1>3, <2>1 DEF Stagers, Enders
  <2>3. Writing({"stage"})' = {}
    BY <1>2, <2>1, <2>2 DEF Writing, Stagers
  <2>4. QED
    BY <1>2, <1>4, <2>1, <2>2, <2>3 DEF Orderly
<1>6. TrafficIsHeld'
  BY <1>2 DEF IInv, FlagInv, TrafficIsHeld
<1>7. MaintenanceHasCause'
  BY <1>2 DEF MaintenanceHasCause
<1>8. QED
  BY <1>2, <1>5, <1>6, <1>7 DEF IInv, FlagInv

LEMMA FlagLowered ==
  ASSUME IInv, NEW s \in Tasks, ExitMaintenance(s)
  PROVE  FlagInv'
<1>1. /\ phase \in [Tasks -> Phases] /\ req \in [Tasks -> Requests \cup {NoRequest}]
      /\ s \in Enders /\ phase[s] = "done"
  BY DEF IInv, TInv, TypeOK, Phases, ExitMaintenance, Enders, Forms, Form
<1>2. /\ \A t \in Tasks \ {s} : phase'[t] = phase[t] /\ req'[t] = req[t]
      /\ phase'[s] = "idle" /\ req'[s].op = "none"
  BY <1>1 DEF ExitMaintenance, Finish, Enter, NoRequest
<1>3. flag' = Off /\ UNCHANGED <<events, calm, intruded>>
  BY DEF ExitMaintenance, Lowered
<1>4. Staged' = Staged
  BY <1>3 DEF Staged, IsStaged
<1>5. Orderly => Orderly'
  <2> SUFFICES ASSUME Orderly
               PROVE  Orderly'
    OBVIOUS
  <2>1. (\A t \in Stagers \cup Enders : t = s) /\ s \notin Stagers /\ Staged = {}
    BY <1>1 DEF Orderly, Stagers, Enders
  <2>2. \A t \in Tasks : req'[t].op \notin Decisions
    BY <1>2, <2>1 DEF Stagers, Enders, Decisions
  <2>3. Stagers' = {} /\ Enders' = {} /\ Writing({"stage"})' = {}
    BY <2>2 DEF Stagers, Enders, Writing, Decisions
  <2>4. QED
    BY <1>4, <2>1, <2>3 DEF Orderly
<1>6. TrafficIsHeld'
  BY <1>3 DEF IInv, FlagInv, TrafficIsHeld
<1>7. QED
  BY <1>3, <1>5, <1>6 DEF IInv, FlagInv, MaintenanceHasCause

LEMMA NextFlag == IInv /\ [Next]_vars => FlagInv'
<1> SUFFICES ASSUME IInv, [Next]_vars
             PROVE  FlagInv'
  OBVIOUS
<1>1. TInv /\ calm \in BOOLEAN
  BY DEF IInv, TInv, TypeOK
<1>2. CASE ArchiveStep
  <2>1. UNCHANGED <<events, flag, stuck, calm, intruded>> /\ DecisionsStay
    BY <1>1, <1>2, ArchiveFrame
  <2>2. TrafficIsHeld'
    BY <2>1 DEF IInv, FlagInv, TrafficIsHeld
  <2>3. QED
    BY <2>1, <2>2, FlagFrame
<1>3. ASSUME NEW s \in Admins, NEW i \in rows, BeginStage(s, i)
      PROVE  FlagInv'
  <2> DEFINE r == [op |-> "stage", id |-> i, no |-> NextEvent]
  <2>1. r.op = "stage" /\ r.op \in Decisions
    BY DEF Decisions
  <2>2. /\ phase[s] = "idle" /\ Enter(s, "read", r) /\ Staged = {}
        /\ UNCHANGED <<events, flag, stuck, intruded>> /\ calm' = (calm /\ Alone(s))
    BY <1>3 DEF BeginStage, MayStage, restores
  <2> HIDE DEF r
  <2>3. QED
    BY <2>1, <2>2, FlagBegin
<1>4. ASSUME NEW s \in Admins, NEW i \in rows, NEW state, BeginEnd(s, i, state)
      PROVE  FlagInv'
  <2> DEFINE r == [op |-> "end", no |-> Max(Staged), state |-> state]
  <2>1. r.op = "end" /\ r.op \in Decisions /\ r.no = Max(Staged)
    BY DEF Decisions
  <2>2. /\ phase[s] = "idle" /\ Enter(s, "read", r) /\ Staged # {}
        /\ UNCHANGED <<events, flag, stuck, intruded>> /\ calm' = (calm /\ Alone(s))
    BY <1>4 DEF BeginEnd, restores
  <2> HIDE DEF r
  <2>3. QED
    BY <2>1, <2>2, FlagBegin, HighestStaged
<1>5. ASSUME NEW s \in Tasks, Refuse(s) \/ Undo(s)
      PROVE  FlagInv'
  <2>1. /\ Finish(s) /\ phase[s] # "done" /\ UNCHANGED <<events, flag, calm, intruded>>
    BY <1>5 DEF Refuse, Undo, restores, ghosts
  <2>2. CASE Refuse(s)
    <3>1. stuck' = stuck /\ s \notin Writing({"stage"})
      BY <2>2 DEF Refuse, Writing, ghosts
    <3>2. QED
      BY <2>1, <3>1, FlagDropped
  <2>3. CASE Undo(s)
    <3>1. stuck' = (stuck \/ s \in Writing({"stage"}))
      BY <2>3 DEF Undo
    <3>2. QED
      BY <2>1, <3>1, FlagDropped
  <2>4. QED
    BY <1>5, <2>2, <2>3
<1>6. CASE Restart
  <2>1. Stagers' = {} /\ Enders' = {} /\ Writing({"stage"})' = {}
    BY <1>6 DEF Restart, Stagers, Enders, Writing, NoRequest
  <2>2. Staged' = Staged /\ flag' = Off /\ intruded' = intruded /\ (calm' => calm /\ Staged = {})
    BY <1>6 DEF Restart, Staged, IsStaged
  <2>3. calm' => Orderly'
    BY <2>1, <2>2 DEF Orderly
  <2>4. TrafficIsHeld'
    BY <2>2 DEF IInv, FlagInv, TrafficIsHeld
  <2>5. QED
    BY <2>2, <2>3, <2>4 DEF FlagInv, MaintenanceHasCause
<1>7. CASE Visit
  <2>1. UNCHANGED <<events, flag, stuck, calm, phase, req>>
    BY <1>7 DEF Visit, restores
  <2>2. intruded' = (intruded \/ Staged # {}) /\ flag = Off
    BY <1>7 DEF Visit
  <2>3. calm => Staged = {}
    BY <2>2 DEF IInv, FlagInv, Orderly
  <2>4. TrafficIsHeld'
    BY <2>1, <2>2, <2>3 DEF IInv, FlagInv, TrafficIsHeld
  <2>5. QED
    BY <2>1, <2>4, FlagFrame DEF DecisionsStay
<1>8. CASE NextDay \/ UNCHANGED vars
  <2>1. UNCHANGED <<events, flag, stuck, calm, intruded, phase, req>>
    BY <1>8 DEF NextDay, restores, vars, ghosts
  <2>2. TrafficIsHeld'
    BY <2>1 DEF IInv, FlagInv, TrafficIsHeld
  <2>3. QED
    BY <2>1, <2>2, FlagFrame DEF DecisionsStay
<1>9. ASSUME NEW s \in Tasks, DecisionStep(s)
      PROVE  FlagInv'
  BY <1>3, <1>4, <1>5, <1>9, FlagRaised, FlagStaged, FlagFlushEnd, FlagCommitEnd, FlagLowered
     DEF DecisionStep, BeginCommit, BeginAbort
<1>10. QED
  BY <1>2, <1>6, <1>7, <1>8, <1>9, Kinds

-----------------------------------------------------------------------------
(* The theorems *)

LEMMA InitIInv == Init => IInv
<1> SUFFICES ASSUME Init
             PROVE  IInv
  OBVIOUS
<1>1. /\ MaxEvents \in Nat /\ MaxArchives \in Nat /\ 1 \in Days
      /\ \A s \in Tasks : phase[s] = "idle" /\ req[s] = NoRequest
      /\ \A n \in 1 .. MaxEvents : events[n] = NoEvent
  BY LimitsAssumption DEF Init, Days
<1>2. TypeOK
  <2>1. made \in Seq(Archive) /\ Len(made) = 0
    BY DEF Init
  <2>2. events \in [1 .. MaxEvents -> Event \cup {NoEvent}] /\ ends \in [1 .. MaxEvents -> [Admins -> Nat]]
    BY DEF Init
  <2>3. /\ phase \in [Tasks -> {"idle", "made", "read", "flushed", "done"}]
        /\ req \in [Tasks -> Requests \cup {NoRequest}]
    BY DEF Init
  <2>4. disk \subseteq 1 .. Len(made) /\ rows \subseteq 1 .. Len(made) /\ Len(made) <= MaxArchives
    BY <1>1, <2>1 DEF Init
  <2>5. /\ flag \in Ids \cup {Off} /\ last \in Days \cup {Never} /\ key \in Keys
        /\ execute \in Modes /\ day \in Days
    BY <1>1 DEF Init
  <2>6. nights \in Nat /\ written \in Nat /\ faults \in Nat
    BY DEF Init
  <2>7. stuck \in BOOLEAN /\ calm \in BOOLEAN /\ intruded \in BOOLEAN
    BY DEF Init
  <2>8. QED
    BY <2>1, <2>2, <2>3, <2>4, <2>5, <2>6, <2>7 DEF TypeOK
<1>3. TInv
  BY <1>1, <1>2, IdleForm DEF TInv, Forms
<1>4. Makers = {} /\ Stagers = {} /\ Enders = {} /\ \A ops : Writing(ops) = {}
  BY <1>1 DEF Makers, Stagers, Enders, Writing, NoRequest
<1>5. Staged = {} /\ Restorable = {}
  BY <1>1 DEF Staged, IsStaged, Restorable, NoEvent
<1>6. FilesInv
  BY <1>4 DEF FilesInv, FilesOutlastRetention, Init
<1>7. RowsInv
  BY <1>4, <1>5 DEF RowsInv, RestorableOnRecord
<1>8. EventsInv
  <2>1. EndsAreRecorded /\ NothingIsRestored
    BY <1>1 DEF Init, EndsAreRecorded, NothingIsRestored, NoEvent, Ended
  <2>2. QED
    BY <1>4, <1>5, <2>1 DEF EventsInv, OneStagedEach
<1>9. FlagInv
  BY <1>4, <1>5 DEF FlagInv, Orderly, TrafficIsHeld, MaintenanceHasCause, Init
<1>10. NightInv
  BY <1>1 DEF NightInv, OneNightPerProcess, Init, NoRequest, Tasks
<1>11. QED
  BY <1>3, <1>6, <1>7, <1>8, <1>9, <1>10 DEF IInv

LEMMA Inductive == Spec => []IInv
<1>1. IInv /\ [Next]_vars => IInv'
  BY NextTypes, NextFiles, NextRows, NextEvents, NextFlag, NextNights DEF IInv
<1>2. QED
  BY InitIInv, <1>1, PTL DEF Spec

\* Every variable keeps its type.
THEOREM TypesHold == Spec => []TypeOK
<1>1. IInv => TypeOK
  BY DEF IInv, TInv
<1>2. QED
  BY <1>1, Inductive, PTL

\* Every restore on record refers to an archive on record: the foreign key and the
\* row locks settle every order of stage_restore, prune_old and the nightly prune.
THEOREM RestorableStays == Spec => []RestorableOnRecord
<1>1. IInv => RestorableOnRecord
  BY DEF IInv, RowsInv
<1>2. QED
  BY <1>1, Inductive, PTL

\* prune_old unlinks no file of a recorded archive before its retention is over.
THEOREM FilesStay == Spec => []FilesOutlastRetention
<1>1. IInv => FilesOutlastRetention
  BY DEF IInv, FilesInv
<1>2. QED
  BY <1>1, Inductive, PTL

\* stage_restore leaves no session with two staged restores.
THEOREM StagedAlone == Spec => []OneStagedEach
<1>1. IInv => OneStagedEach
  BY DEF IInv, EventsInv
<1>2. QED
  BY <1>1, Inductive, PTL

\* commit_restore and abort_restore record an end exactly for the restores that have
\* ended, and no session does so twice.
THEOREM EndsRecorded == Spec => []EndsAreRecorded
<1>1. IInv => EndsAreRecorded
  BY DEF IInv, EventsInv
<1>2. QED
  BY <1>1, Inductive, PTL

\* With backup_restore_execute no restore is committed.
THEOREM NeverRestored == Spec => []NothingIsRestored
<1>1. IInv => NothingIsRestored
  BY DEF IInv, EventsInv
<1>2. QED
  BY <1>1, Inductive, PTL

\* The flag holds traffic back as long as decisions do not overlap and the process
\* does not stop with a restore staged.
THEOREM TrafficHeld == Spec => []TrafficIsHeld
<1>1. IInv => TrafficIsHeld
  BY DEF IInv, FlagInv
<1>2. QED
  BY <1>1, Inductive, PTL

\* The flag is never on without a cause.
THEOREM MaintenanceCaused == Spec => []MaintenanceHasCause
<1>1. IInv => MaintenanceHasCause
  BY DEF IInv, FlagInv
<1>2. QED
  BY <1>1, Inductive, PTL

\* A process records at most one nightly archive a day.
THEOREM NightsOnce == Spec => []OneNightPerProcess
<1>1. IInv => OneNightPerProcess
  BY DEF IInv, NightInv
<1>2. QED
  BY <1>1, Inductive, PTL
=============================================================================
