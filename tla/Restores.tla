------------------------------ MODULE Restores ------------------------------
(***************************************************************************)
(* Backup archives, two-phase restores and the maintenance flag            *)
(* (routes/admin_backups.py, services/backup_archive.py,                   *)
(* services/maintenance.py) with the nightly scheduler.                    *)
(*                                                                         *)
(* Rows are committed under the locks PostgreSQL takes; files change at    *)
(* once and are not rolled back; flag, guard and key live in the process   *)
(* and end with it.  The bytes of a file never change, so the manifest     *)
(* hash always agrees.  A restore never takes effect (see Restored), so    *)
(* what it would put into the tables is left out.                          *)
(***************************************************************************)
EXTENDS Integers, Sequences, FiniteSetsExt

CONSTANTS Admins,       \* sessions holding backup:manage
          Scheduler,    \* the task of BackupScheduler
          Keys,         \* the KEKs an operator may mount
          Modes,        \* the values of backup_restore_execute
          Retention,    \* RETENTION_DAYS
          MaxDay,       \* bound on the days
          MaxRequested, \* bound on the archives made before a request makes one
          MaxArchives,  \* bound on the archives
          MaxEvents,    \* bound on the restore events
          MaxFaults     \* bound on undone transactions and restarts

ASSUME SchedulerAssumption == Scheduler \notin Admins
ASSUME ModesAssumption == Modes \subseteq BOOLEAN
ASSUME LimitsAssumption ==
  /\ {Retention, MaxDay, MaxRequested, MaxArchives, MaxEvents, MaxFaults} \subseteq Nat
  /\ MaxDay > 0

VARIABLES made,    \* the archives written so far: created_at and kek_fingerprint
          disk,    \* those whose file exists
          rows,    \* those that have a backup_archives row
          events,  \* restore_events, in the order of started_at
          ends,    \* ends[n][s]: BACKUP_RESTORE audit rows of event n by session s
          flag,    \* the archive of the maintenance flag
          last,    \* _last_run_date
          key,     \* the cached KEK
          execute, \* backup_restore_execute
          day,     \* the local date
          phase,   \* phase[s]: how far the request of session s has come
          req,     \* req[s]: that request
          nights,  \* archives this process has recorded for this night
          written, \* files the scheduler has written this day
          stuck,   \* was a stage undone after it had raised the flag?
          calm,    \* no two overlapped, and no restart hit a staged restore
          intruded,\* did ordinary traffic get in while a restore was staged?
          faults   \* undone transactions and restarts so far

archives == <<made, disk, rows>>
restores == <<events, ends, flag>>
process == <<last, key, execute>>
ghosts == <<nights, written, stuck, calm, intruded>>
vars == <<archives, restores, process, day, phase, req, ghosts, faults>>

Tasks == Admins \cup {Scheduler}
Ids == 1 .. MaxArchives
Days == 1 .. MaxDay
Off == 0
Never == 0

Ended == {"committed", "aborted"}

Archive == [day : Days, key : Keys]
Event == [id : Ids, by : Admins, state : {"staged"} \cup Ended]
NoEvent == [state |-> "none"]
NoRequest == [op |-> "none"]

Init == /\ made = <<>>
        /\ disk = {}
        /\ rows = {}
        /\ events = [n \in 1 .. MaxEvents |-> NoEvent]
        /\ ends = [n \in 1 .. MaxEvents |-> [s \in Admins |-> 0]]
        /\ flag = Off
        /\ last = Never
        /\ key \in Keys
        /\ execute \in Modes
        /\ day = 1
        /\ phase = [s \in Tasks |-> "idle"]
        /\ req = [s \in Tasks |-> NoRequest]
        /\ nights = 0
        /\ written = 0
        /\ stuck = FALSE
        /\ calm = TRUE
        /\ intruded = FALSE
        /\ faults = 0

-----------------------------------------------------------------------------
Enter(s, first, r) == /\ phase' = [phase EXCEPT ![s] = first]
                      /\ req' = [req EXCEPT ![s] = r]

Finish(s) == Enter(s, "idle", NoRequest)

\* The transactions that have written for one of the operations ops.
Writing(ops) == {t \in Tasks : phase[t] = "flushed" /\ req[t].op \in ops}

Prunes == {"prune", "nightly"}
Decisions == {"stage", "end"}

-----------------------------------------------------------------------------
\* create_archive: the dump is encrypted and written to a new file, and a row for
\* it inserted.
WriteFile == /\ Len(made) < MaxArchives
             /\ made' = Append(made, [day |-> day, key |-> key])
             /\ disk' = disk \cup {Len(made) + 1}
             /\ UNCHANGED rows

BeginCreate(s) ==
  /\ phase[s] = "idle"
  /\ Len(made) < MaxRequested
  /\ WriteFile
  /\ Enter(s, "flushed", [op |-> "create", id |-> Len(made) + 1])
  /\ UNCHANGED <<restores, process, day, ghosts, faults>>

CommitCreate(s) ==
  /\ phase[s] = "flushed"
  /\ req[s].op = "create"
  /\ rows' = rows \cup {req[s].id}
  /\ Finish(s)
  /\ UNCHANGED <<made, disk, restores, process, day, ghosts, faults>>

-----------------------------------------------------------------------------
\* Slip: the archives of the oldest day to keep go, too.
ExpiredEarly == {i \in rows : made[i].day + Retention <= day}

\* created_at < cutoff
Expired == {i \in rows : made[i].day + Retention < day}

\* prune_old finds the expired rows and unlinks their files, as far as it can.
Unlink(s, r) ==
  /\ \E kept \in SUBSET Expired : disk' = disk \ (Expired \ kept)
  /\ Enter(s, "read", r)
  /\ UNCHANGED <<made, rows, restores, process, day, ghosts, faults>>

BeginPrune(s) == /\ phase[s] = "idle"
                 /\ Expired # {}
                 /\ Unlink(s, [op |-> "prune", old |-> Expired])

Restorable == {events[n].id : n \in {m \in 1 .. MaxEvents : events[m] # NoEvent}}

\* Slip: there is no foreign key.
RefusesNothing(r) == FALSE

\* ondelete="RESTRICT"
RefusesDelete(r) == r.old \cap Restorable # {}

\* The DELETE waits for the deletions of its rows and for the insertions of events
\* that refer to them.
Delete(s) ==
  /\ phase[s] = "read"
  /\ req[s].op \in Prunes
  /\ \A t \in Writing({"stage"}) : req[t].id \notin req[s].old
  /\ \A t \in Writing(Prunes) : req[t].old \cap req[s].old = {}
  /\ ~RefusesDelete(req[s])
  /\ phase' = [phase EXCEPT ![s] = "flushed"]
  /\ UNCHANGED <<archives, restores, process, day, req, ghosts, faults>>

CommitPrune(s) ==
  /\ phase[s] = "flushed"
  /\ req[s].op = "prune"
  /\ rows' = rows \ req[s].old
  /\ Finish(s)
  /\ UNCHANGED <<made, disk, restores, process, day, ghosts, faults>>

-----------------------------------------------------------------------------
\* Slip: the guard has no date.
DueOnce == last = Never

\* A tick from the trigger hour on, unless this process has made today's archive.
Due == last # day

\* _tick: an archive is written ...
BeginNightly ==
  /\ phase[Scheduler] = "idle"
  /\ Due
  /\ WriteFile
  /\ written' = written + 1
  /\ Enter(Scheduler, "made", [op |-> "nightly", id |-> Len(made) + 1, day |-> day])
  /\ UNCHANGED <<restores, process, day, nights, stuck, calm, intruded, faults>>

\* ... then the old ones are pruned in the same transaction.
PruneNightly ==
  /\ phase[Scheduler] = "made"
  /\ Unlink(Scheduler, [op |-> "nightly", id |-> req[Scheduler].id,
                        day |-> req[Scheduler].day, old |-> Expired])

CommitNightly ==
  LET r == req[Scheduler] IN
  /\ phase[Scheduler] = "flushed"
  /\ rows' = (rows \ r.old) \cup {r.id}
  /\ last' = r.day
  /\ nights' = IF r.day = day THEN nights + 1 ELSE nights
  /\ Finish(Scheduler)
  /\ UNCHANGED <<made, disk, restores, key, execute, day, written, stuck, calm, intruded, faults>>

-----------------------------------------------------------------------------
\* Slip: an aborted restore counts.
NotCommitted(n) == events[n].state \in {"staged", "aborted"}

IsStaged(n) == events[n].state = "staged"

Staged == {n \in 1 .. MaxEvents : IsStaged(n)}

\* No other decision on restores is under way.
Alone(s) == \A t \in Tasks \ {s} : phase[t] = "idle" \/ req[t].op \notin Decisions

\* Slip: the flag is asked instead of the table.
MayStageUnflagged == flag = Off

MayStage == Staged = {}

\* The number of the event a request beginning now would insert.
NextEvent == Max({0} \cup {n \in 1 .. MaxEvents : events[n] # NoEvent}
                     \cup {req[t].no : t \in {u \in Tasks : req[u].op = "stage"}}) + 1

BeginStage(s, i) ==
  /\ phase[s] = "idle"
  /\ MayStage
  /\ made[i].key = key
  /\ NextEvent <= MaxEvents
  /\ Enter(s, "read", [op |-> "stage", id |-> i, no |-> NextEvent])
  /\ calm' = (calm /\ Alone(s))
  /\ UNCHANGED <<archives, restores, process, day, nights, written, stuck, intruded, faults>>

\* Slip: the flag waits for the commit that never raises it.
RaisedLate(i) == flag

Raised(i) == i

\* The insert needs the archive's row; maintenance.enter follows before the commit.
FlushStage(s) ==
  LET r == req[s] IN
  /\ phase[s] = "read"
  /\ r.op = "stage"
  /\ \A t \in Writing(Prunes) : r.id \notin req[t].old
  /\ r.id \in rows
  /\ phase' = [phase EXCEPT ![s] = "flushed"]
  /\ flag' = Raised(r.id)
  /\ UNCHANGED <<archives, events, ends, process, day, req, ghosts, faults>>

CommitStage(s) ==
  LET r == req[s] IN
  /\ phase[s] = "flushed"
  /\ r.op = "stage"
  /\ events' = [events EXCEPT ![r.no] = [id |-> r.id, by |-> s, state |-> "staged"]]
  /\ Finish(s)
  /\ UNCHANGED <<archives, ends, flag, process, day, ghosts, faults>>

-----------------------------------------------------------------------------
\* The open transactions, which hold locks on tables pg_restore drops: also the
\* request's own, which has read restore_events and waits for pg_restore.
Holders(s) == {t \in Tasks : phase[t] \notin {"idle", "done"}} \cup {s}

\* restore_archive
Restored(s, i) == i \in disk /\ made[i].key = key /\ Holders(s) = {}

\* Slip: the outcome is not one of ck_restore_state.
CommittingOrFailed(s, i) == IF ~execute \/ Restored(s, i) THEN "committed" ELSE "failed"

Committing(s, i) == IF ~execute \/ Restored(s, i) THEN "committed" ELSE "aborted"

\* _active_staged: the latest staged restore has to be one of archive i.
BeginEnd(s, i, state) ==
  /\ phase[s] = "idle"
  /\ Staged # {}
  /\ events[Max(Staged)].id = i
  /\ Enter(s, "read", [op |-> "end", no |-> Max(Staged), state |-> state])
  /\ calm' = (calm /\ Alone(s))
  /\ UNCHANGED <<archives, restores, process, day, nights, written, stuck, intruded, faults>>

BeginCommit(s, i) == BeginEnd(s, i, Committing(s, i))

BeginAbort(s, i) == BeginEnd(s, i, "aborted")

FlushEnd(s) ==
  /\ phase[s] = "read"
  /\ req[s].op = "end"
  /\ \A t \in Writing({"end"}) : req[t].no # req[s].no
  /\ phase' = [phase EXCEPT ![s] = "flushed"]
  /\ UNCHANGED <<archives, restores, process, day, req, ghosts, faults>>

CommitEnd(s) ==
  LET r == req[s] IN
  /\ phase[s] = "flushed"
  /\ r.op = "end"
  /\ events' = [events EXCEPT ![r.no].state = r.state]
  /\ ends' = [ends EXCEPT ![r.no][s] = @ + 1]
  /\ phase' = [phase EXCEPT ![s] = "done"]
  /\ UNCHANGED <<archives, flag, process, day, req, ghosts, faults>>

\* Slip: the flag is left on.
LeftOn == flag

Lowered == Off

\* maintenance.exit_ once the commit has returned
ExitMaintenance(s) ==
  /\ phase[s] = "done"
  /\ flag' = Lowered
  /\ stuck' = FALSE
  /\ Finish(s)
  /\ UNCHANGED <<archives, events, ends, process, day, nights, written, calm, intruded, faults>>

-----------------------------------------------------------------------------
\* The foreign key between events and archives refuses what the request writes.
Refuse(s) ==
  /\ phase[s] = "read"
  /\ \/ req[s].op \in Prunes /\ RefusesDelete(req[s])
     \/ req[s].op = "stage" /\ req[s].id \notin rows
  /\ Finish(s)
  /\ UNCHANGED <<archives, restores, process, day, ghosts, faults>>

\* A transaction is lost before or at its commit.
Undo(s) ==
  /\ phase[s] \in {"made", "read", "flushed"}
  /\ faults < MaxFaults
  /\ faults' = faults + 1
  /\ stuck' = (stuck \/ s \in Writing({"stage"}))
  /\ Finish(s)
  /\ UNCHANGED <<archives, restores, process, day, nights, written, calm, intruded>>

\* The process stops and starts again, with what an operator then has mounted.
Restart ==
  /\ faults < MaxFaults
  /\ faults' = faults + 1
  /\ phase' = [s \in Tasks |-> "idle"]
  /\ req' = [s \in Tasks |-> NoRequest]
  /\ flag' = Off
  /\ last' = Never
  /\ key' \in Keys
  /\ nights' = 0
  /\ stuck' = FALSE
  /\ calm' = (calm /\ Staged = {})
  /\ UNCHANGED <<archives, events, ends, execute, day, written, intruded>>

\* MaintenanceModeMiddleware lets a request for one of the other routes pass.
Visit ==
  /\ flag = Off
  /\ intruded' = (intruded \/ Staged # {})
  /\ UNCHANGED <<archives, restores, process, day, phase, req, nights, written, stuck, calm, faults>>

NextDay ==
  /\ day < MaxDay
  /\ day' = day + 1
  /\ nights' = 0
  /\ written' = 0
  /\ UNCHANGED <<archives, restores, process, phase, req, stuck, calm, intruded, faults>>

\* What a task does once it has begun.
Proceed(s) ==
  \/ CommitCreate(s)
  \/ Delete(s)
  \/ CommitPrune(s)
  \/ FlushStage(s)
  \/ CommitStage(s)
  \/ FlushEnd(s)
  \/ CommitEnd(s)
  \/ ExitMaintenance(s)
  \/ Refuse(s)

Nightly == BeginNightly \/ PruneNightly \/ CommitNightly

Next ==
  \/ \E s \in Admins :
       \/ BeginCreate(s)
       \/ BeginPrune(s)
       \/ \E i \in rows : BeginStage(s, i) \/ BeginCommit(s, i) \/ BeginAbort(s, i)
  \/ \E s \in Tasks : Proceed(s) \/ Undo(s)
  \/ Nightly
  \/ Restart
  \/ Visit
  \/ NextDay

Spec == Init /\ [][Next]_vars

\* The event loop runs the scheduler and every request that has begun.
FairSpec == Spec /\ WF_vars(Nightly) /\ \A s \in Tasks : WF_vars(Proceed(s))
-----------------------------------------------------------------------------
Requests ==
  [op : {"create"}, id : Ids]
  \cup [op : {"prune"}, old : SUBSET Ids]
  \cup [op : {"nightly"}, id : Ids, day : Days]
  \cup [op : {"nightly"}, id : Ids, day : Days, old : SUBSET Ids]
  \cup [op : {"stage"}, id : Ids, no : 1 .. MaxEvents]
  \cup [op : {"end"}, no : 1 .. MaxEvents, state : Ended]

\* Every variable has its type.
TypeOK ==
  /\ made \in Seq(Archive) /\ Len(made) <= MaxArchives
  /\ disk \subseteq 1 .. Len(made) /\ rows \subseteq 1 .. Len(made)
  /\ events \in [1 .. MaxEvents -> Event \cup {NoEvent}]
  /\ ends \in [1 .. MaxEvents -> [Admins -> Nat]]
  /\ flag \in Ids \cup {Off}
  /\ last \in Days \cup {Never}
  /\ key \in Keys
  /\ execute \in Modes
  /\ day \in Days
  /\ phase \in [Tasks -> {"idle", "made", "read", "flushed", "done"}]
  /\ req \in [Tasks -> Requests \cup {NoRequest}]
  /\ nights \in Nat /\ written \in Nat /\ faults \in Nat
  /\ stuck \in BOOLEAN /\ calm \in BOOLEAN /\ intruded \in BOOLEAN

\* However requests overlap, fail and are cut off, no session has two staged
\* restores: stage_restore refuses while there is one, on what it read before.
OneStagedEach == \A m, n \in Staged : events[m].by = events[n].by => m = n

\* A restore has ended exactly if BACKUP_RESTORE is on record for it, and every
\* session has at most one record of it, though commit_restore and abort_restore
\* overwrite each other's outcome.
EndsAreRecorded ==
  \A n \in 1 .. MaxEvents :
    /\ events[n].state \in Ended <=> \E s \in Admins : ends[n][s] > 0
    /\ \A s \in Admins : ends[n][s] <= 1

\* Every restore on record refers to an archive on record, whichever of stage_restore
\* and prune_old comes first.
RestorableOnRecord == Restorable \subseteq rows

\* The file of an archive on record outlasts the retention period: what prune_old
\* unlinks before its transaction is refused or lost had expired.
FilesOutlastRetention == \A i \in rows \ disk : day - made[i].day > Retention

\* A process records one nightly archive for a day, whatever failed before.
OneNightPerProcess == nights <= 1

\* Ordinary traffic gets in while a restore is staged only after two decisions
\* have overlapped or a restart has forgotten the flag.
TrafficIsHeld == intruded => ~calm

\* Maintenance mode has a cause: a staged restore, a stage or an end under way, or
\* a stage that was undone when it had raised the flag.
MaintenanceHasCause ==
  flag # Off => \/ Staged # {}
                \/ Writing({"stage"}) # {}
                \/ \E s \in Tasks : phase[s] = "done"
                \/ stuck

\* With backup_restore_execute no restore is ever committed: pg_restore has to wait
\* for locks of the request that runs it, until it times out.
NothingIsRestored == execute => \A n \in 1 .. MaxEvents : events[n].state # "committed"

\* Every day gets its nightly archive, unless the day ends or an expired archive
\* was ever staged: its restore event refuses the prune, and with it the archive.
NightlyIsRecorded ==
  \A d \in Days : day = d ~> \/ nights > 0
                           \/ day # d
                           \/ Restorable \cap Expired # {}

\* backup_scheduler.py: "a single per-day guard so an error or a restart near the
\* trigger hour cannot produce duplicate nightly archives".
OneNightlyArchive == written <= 1
=============================================================================
