# TLA+ models of the evaluation and experimentation API

TLA+ specifications of the API under `src/repo/api/app`, checked with TLC and
proved with TLAPS. The API is a FastAPI process with one worker in front of
PostgreSQL; a Vue client talks to it. The models are about what its handlers do
when their steps interleave, fail or are repeated.

## 1. The system

### 1.1 How requests run

Everything in the models rests on these facts of the code.

- **One transaction per request, READ COMMITTED** (`core/db.py:35-38`). A handler
  reads with plain SELECTs, decides in Python, changes ORM objects and commits.
  It never reads `FOR UPDATE`: between a read and the flush any other transaction
  may commit.
- **Changed columns only.** The ORM's UPDATE names the columns whose value differs
  from the one it loaded. Two requests that overlap leave a row made of the columns
  of both. An UPDATE that matches no row raises `StaleDataError` (answer 500); a
  DELETE that matches none only warns.
- **Locks.** UPDATE, DELETE and ON CONFLICT inserts keep their row, and an INSERT its
  unique key, until the transaction ends; whoever wants it waits.
- **Sessions are serial.** `build_auth_context` (`services/auth_context.py:57-58`)
  flushes `last_seen_at` of the caller's session row before the handler runs. Two
  requests of the same login session therefore run one after the other; requests
  of different sessions (two users, or one user logged in twice) interleave. The row
  itself was read before that lock was had. What the authentication loaded is no
  longer referenced when the handler runs, so a handler that needs the user reads the
  row again.
- **Restart.** A stopped process loses its open transactions, which PostgreSQL rolls
  back, and the state it keeps in memory (maintenance flag, scheduler guard,
  metrics, artifact cache).

The models share the resulting shape of a request: *begin* (read and decide),
*flush* (write under locks; waits or fails), *commit* (becomes visible), with *undo*
at any point. An actor is a login session.

### 1.2 Components

| component | state | operations | what makes it hard | what makes it correct |
|---|---|---|---|---|
| assignment workflow (`routes/assignments.py`, `routes/cycles.py`, `services/state_machine.py`, `services/submissions.py`) | `assignments`, `submissions`, audit rows | save, submit, return, approve; add and drop a participant | unlocked reads, overlapping decisions, cascade delete, deadline boundaries | the state machine, one submission behind every hand-in, truthful late flag, one row per evaluator, an audited roster |
| experiments (`routes/experiments.py`) | `experiments`, `inference_routing` | create, toggle, route, roll back | two rows read by two SELECTs, written column by column | weights add up to 100 |
| feedback (`services/feedback.py`, `routes/feedback.py`) | `feedback_events`, `feedback_signals`, `subject_blocks` | submit feedback | toggles that change meanwhile, counters incremented concurrently, rate limit on committed rows | counters and blocks agree with the events, bounded rate, feedback stops after a rollback |
| model registry (`routes/models.py`) | `models`, `model_versions`, `model_runs` | register, start and complete a run, promote | max+1 numbering, check-then-act on the live schema and on runs | gapless numbers, a live schema that is served, no approval without evaluation |
| backup and restore (`routes/admin_backups.py`, `services/backup_archive.py`, `services/maintenance.py`, `services/backup_scheduler.py`) | `backup_archives`, `restore_events`, files, flag in memory | create, stage, commit, abort, prune, nightly tick | memory against database, restarts, two stages | maintenance exactly while a restore is staged, one archive per night, rows with files |
| login (`routes/auth.py`, `services/lockout.py`, `services/auth_context.py`, `routes/admin_users.py`) | `users` (password hash, `locked_until`), `failed_logins`, `sessions` | log in, log out, change password, unlock, any request of a session | failures counted concurrently, stale user and session rows | bounded guessing, a lock and a logout that let one late request of each connection through, sessions unused after expiry, a password that stays changed |
| plans, templates, rule sets (`routes/plans.py`, `routes/templates.py`, `routes/rule_sets.py`) | `plans`, `plan_versions` and their like | create, publish, write, copy, roll back | max+1 numbering from several routes, sources younger than the number read | a gapless, immutable, truthful history |
| sharing (`routes/share.py`, `services/share_tokens.py`) | `plan_share_links` | issue, open, revoke | revocation and expiry racing use | closed links stay closed, one late opening at most |
| cycles, scoring, corrections, digest (`routes/cycles.py`, `routes/submissions.py`, `services/business_days.py`, `scoring.py`, `submissions.py`, `digest.py`) | `evaluation_cycles`, `calculation_traces`, `grade_values`, `users.timezone` and `digest_last_shown_date` | create a cycle, score a submission, correct a grade, choose a time zone, ask for the digest | weekends, holidays and zones; overlapping corrections; requests under way at midnight, nine or a change of zone | the deadline is the n-th business day, a trace explains its grades, a day's digest comes again only where requests overlap or zones change |
| the rest | | | | section 7 |

Interactions: feedback reads what experiments write; an experiment's arms are
versions promoted by the registry; submissions use the calendar and scoring; the
digest and the corrections are about what assignments produce; every request passes
through login sessions and maintenance mode.

## 2. Modules

| module | models |
|---|---|
| `StateMachine` | the transition table of `services/state_machine.py` |
| `AssignmentLifecycle` | what an assignment promises, every request a single step (abstract specification) |
| `Assignments` | the handlers of one evaluator's assignment in one cycle, step by step |
| `AssignmentsProofs` | theorems about `Assignments` |
| `AssignmentsSoloProofs` | theorems about `Assignments` with one session of each actor, the refinement among them |
| `Experiments` | toggles, split and rollback of one experiment (no `Next` of its own: `Feedback` composes it) |
| `Feedback` | the feedback of one subject on one target, composed with `Experiments` |
| `FeedbackProofs` | theorems about `Feedback` |
| `ModelRegistry` | versions, runs and promotion of one registered model |
| `ModelRegistryProofs` | theorems about `ModelRegistry` |
| `Restores` | archives, two-phase restores, the maintenance flag and the nightly scheduler |
| `RestoresProofs` | theorems about `Restores` |
| `Login` | passwords tried, counted and cleared, the lock, the sessions of one account |
| `LoginProofs` | theorems about `Login` |
| `DocumentHistory` | what a versioned document promises (abstract specification) |
| `Documents` | the versions of plans, templates and rule sets, and share links |
| `DocumentsProofs` | theorems about `Documents`, the refinement among them |
| `Calendar` | business days and the effective deadline (`services/business_days.py`) |
| `Scoring` | the score and the flags of a submission (`services/scoring.py`) |
| `Cycles` | cycles, scored submissions, corrections, time zone and digest, composed of the two |
| `CyclesProofs` | theorems about `Calendar`, `Scoring` and `Cycles` |
| `MC...` | constants and symmetry for TLC |

Operators commented *Slip* are not part of a model: each is a plausible mistake in
the definition after it, used to see that the properties notice it.

### 2.1 Assignments

`rows`, `live` and `used` are the `assignments` table of one (cycle, evaluator) pair:
`live` the identifiers with a committed row, `used` those ever given out, so that a
row deleted and added again is a different row. `subs` are the inputs of the
committed `submissions` by assignment, `audit` counts the committed audit rows for
the roster and for returns, `phase` and `req` are the requests under way. `req[s].was`
is the row the request read, `req[s].new` what its handler made of it; `Merge` is the
UPDATE of the columns in which they differ.

`BeginSave`, `BeginSubmit`, `BeginReturn`, `BeginApprove`, `BeginAdd`, `BeginDrop` are the
handlers up to their flush; `FlushUpdate`, `FlushAdd`, `FlushDrop` the locked writes;
`Fail` the 0-row UPDATE and the unique violation; `Commit...` the commits with the
submission, the cascade and the audit row. `Rollback` is any other exception. A
request its guards refuse changes nothing and is no step. Times are ticks: all the
code does with them is compare with `deadline_at` and with the effective deadline, which
are constants here; `Calendar` has how the latter is computed.

Left out: the reason and the reviewer of a row (no guard of a modelled step depends on
them but the permission checks, which decide who is in `Evaluators`, `Reviewers`
and `Managers`), scores and traces (`Cycles`).

### 2.2 Experiments and Feedback

`experiment` and `routing` are the two rows. `LoadExperiment` is the first SELECT;
`Toggle`, `UpdateRouting` and `RollBack` take the second SELECT together with the handler's
assignments; `Flush` locks the rows that have changed columns; `Commit` writes those
columns. A deadlock between two writers of both rows is broken by PostgreSQL, which
is one of the reasons for `Undo`.

`logged` counts the events by arm, kind and the recorded toggle, `stamps` the same
events by `created_at`, `signals` and `blocked` are the summaries. `BeginFeedback` is
`record_feedback` up to its first write. `created_at` is the start of the transaction,
which may precede the check because the request first waits for its session row;
the constant `Lag` bounds that wait. `late` is a history variable: the signals a
session added after ingest was turned off.

### 2.3 ModelRegistry

`live` is `models.live_schema_hash`; `versions` and `runs` list the rows in the order of
their commits, so the number a version carries and its position are different
things. `LoadModel` and `PassGate` are the two reads of `promote_version`. A schema is
its hash.

### 2.4 Restores

`made` are the archives in the order they were written, `disk` those whose file
exists, `rows` those with a committed `backup_archives` row: a file appears, and goes,
at once, a row with the commit. `events` are the committed `restore_events`, `ends` their
audit rows. `flag` (maintenance), `last` (the scheduler's guard) and `key` live in the
process; `Restart` empties the first two and may come back with another key.

An admin request is *begin* (`BeginCreate`, `BeginStage`, `BeginPrune`, `BeginCommit`,
`BeginAbort`: the reads and the answer to them), *flush* (`FlushStage`, `Delete`, `FlushEnd`:
the write under locks) and *commit*; after the commit of an end comes `ExitMaintenance`.
The scheduler's tick is `BeginNightly`, `PruneNightly`, `Delete`, `CommitNightly`. `Refuse` is
the foreign key of `restore_events.archive_id` (RESTRICT), `Undo` any other loss of a
transaction, `Visit` a request for any route the middleware guards.

`Restored` is `restore_archive`. Where `backup_restore_execute` is set, as in
`docker-compose.yml`, it runs `pg_restore --clean` with a blocking `subprocess.run` while the
request's own transaction still holds its locks on `restore_events`; `pg_restore` waits
for them until its timeout of 600 s, and nothing else runs in the process meanwhile.
`Holders` is what it waits for.

`nights`, `written`, `stuck`, `calm` and `intruded` are history variables. Left out: the
contents of the tables (no restore replaces them), the bytes of the files (they never
change, so the manifest always agrees) and download.

### 2.5 Login

`user` is the users row: the password, whether its hash has outdated parameters, and
`locked_until`. A password is the number of the change that chose it. `attempts` are the
`failed_logins` rows in the order of their inserts, `failures` those that are committed
and not yet deleted; `sessions` are the committed rows. `BeginWrong` and `BeginLogin` read the
users row, by which a password is wrong or right; `RecordFailed` and `PassLock` ask what was
read for a lock, at the time it is then; `CountFailures` and `ClearFailures` follow, `FlushWrong` and
`FlushLogin` are the locked write of the users row, then the commits. A request
of a session reads its row (`BeginAuth`), takes the time once the row is there (`TakeTime`),
takes the row's lock by writing that time as `last_seen_at` (`FlushSeen`), and goes on: `CommitVisit`
stands for any handler, `CommitLogout` and the `...Change` actions for the two that touch these
tables. Others may commit, and the clock may go on, between any two of these steps. `late`,
`raced` and `changes` are history variables, and so are two fields of a session: `ended`, the first
logout's commit, and `after`, the requests of the session each connection has committed since.

### 2.6 Documents

`versions[d]` lists the committed versions of document `d` in the order of their commits;
`no` is the `version_no` each carries. A request that reads the plan with its versions
keeps their identifiers (`LoadPlan`), and takes its number and its head from them when it
inserts (`WriteVersion`, `CopyVersion`, `RollBack`); templates and rule sets read and insert in
one go (`Publish`). `FreeNumber` is the unique constraint, which also makes the second
of two inserts wait. `DocumentHistory` has the same histories with every operation a
single step, so the refinement mapping is the identity on them: it says that numbers
are positions, that nothing is rewritten, and that `parent`, source and contents of a version
are those its operation promises at the time it becomes visible.

`links` are the committed share links; `BeginOpen` checks, `FlushLink` takes the row's lock,
`CommitOpen` writes `opened_at`. `late` counts a session's openings of a closed link.

### 2.7 Calendar, Scoring and Cycles

`Calendar` and `Scoring` are operators: dates are numbers of days, the loops of
`add_business_days` are recursive functions, a score is a pair of sums. `Cycles` uses them in
the handlers of one evaluator: a cycle is stored with the effective deadline its creation
answered with, a submission is scored against the traces committed by then, a
correction (`BeginEdit`, `FlushEdit`, `CommitEdit`) rewrites one grade, and the digest goes
`BeginDigest` (the user's zone), `FallbackZone` (some cycle's, if that is UTC), `ReadClock` (the local
date and hour), `ShowDigest` (read the user, decide), `FlushUser`, `CommitDigest`; the clock may go on
between any two of them. Grades are plain values and their hash is what is hashed. `shows`, the
digests the user was shown in the order of their commits, is a history variable.

## 3. Checks

| run | instance | shows |
|---|---|---|
| `assign_races` | two sessions that may each do everything, a make-up day, a clock of three ticks | the safety properties of the workflow under every race of two requests, and that every request ends |
| `assign_solo` | one evaluator session, one reviewer session, two answers, three submissions | the handlers implement `AssignmentLifecycle`, and three properties that hold only without races |
| `assign_archived` | two reviewer sessions | *violated*: "ARCHIVED is terminal." |
| `feedback` | two sessions that manage and send feedback, weights 50 and 100, one arm, three events | split, counters, blocks, rate and late signals |
| `models` | two sessions that may each do everything, three versions, two runs, two schemas | numbering, live schema, evaluation gate |
| `models_pin` | two promoters | *violated*: "First promotion pins the live schema hash; subsequent must match it." |
| `restores` | two administrators, one archive, three restore events, one fault or restart, with and without `backup_restore_execute` | staged restores, their ends, maintenance mode |
| `nights` | the scheduler and one administrator, three days, five archives, one fault | archives, rows and files agree; every night is recorded |
| `night_twice` | no faults, one administrator, two days | *violated*: "an error or a restart near the trigger hour cannot produce duplicate nightly archives" |
| `login` | two connections, four requests, a threshold of two failures in a window of one tick, sessions of two ticks, a clock of four, hashes old or not | guesses are bounded, a lock lets one late attempt per connection through and a logout one late request, no session is seen after its expiry, the chosen password holds |
| `documents` | two sessions, one document of each kind, three versions, one link of one day | the requests implement `DocumentHistory`; one late opening per session |
| `cycles` | two sessions, one cycle out of those with 0, 1 or 3 make-up days before weekends and holidays in two zones, four requests, ticks of eight hours | make-up deadlines, traces and grades, when a day's digest may come again |

Properties of `Assignments`: `HandedInHasSubmission`, `NoOrphanSubmission`,
`LateIsFlagged`, `OneRowPerEvaluator`, `RosterIsAudited`, `RequestsEnd` hold for any races.
`DraftIsSubmitted`, `FlagMeansLate`, `SubmissionsAnswerReturns` and the
refinement `ImplementsLifecycle` hold if the evaluator and the reviewer each work from
one session; two sessions break each of them (a save racing a submit, two submits,
two reviews), which is why they are checked on that instance only and the theorems about
them (section 5) assume it.

Of `Feedback`: `WeightsAddUp`, `SignalsMatchEvents`, `BlocksMatchEvents`, `RateBounded` (the limit
may be exceeded by one event per further session, no more) and `OneLateSignal`. The CHECK constraints
of `inference_routing` (`migrations/versions/0006_phase5_models.py:93-95`) are left out, so that
`WeightsAddUp` says that the handlers keep the sum without them and no request fails by them.
An event, its counter and its block are one transaction, hence one step of the model: what
`SignalsMatchEvents` and `BlocksMatchEvents` add is that counting agrees with what each event records.

Of `ModelRegistry`: `VersionsNumbered`, `LiveIsOfApproved`, `EvaluatedBeforeApproval`.

Of `Restores`: `OneStagedEach`, `EndsAreRecorded`, `TrafficIsHeld` and
`MaintenanceHasCause` in `restores`; `RestorableOnRecord`, `FilesOutlastRetention` and
the liveness property `NightlyIsRecorded` in `nights`. `TrafficIsHeld` and
`MaintenanceHasCause` name the exceptions they allow, because the code has them: two
decisions that overlap, a restart while a restore is staged, a stage that is undone
after it has raised the flag. `NightlyIsRecorded` names one as well: an expired archive that
was ever staged.

Of `Login`: `GuessesBounded` (each connection beyond the first allows one guess above the
threshold, no more), `OneLateAttempt` (counted anew with each lock), `SessionsEnd` and `PasswordIsChosen`,
which excepts a login that was about to rehash when the change was committed. `SessionsEnd` bounds
what a session does after its logout by one request of each connection, and does not say that
`last_seen_at` is before the logout: the time is taken after the row was read, and may be later.

Of `Documents`: `ImplementsHistory` and `OneLateOpening`. Of `Cycles`: `DeadlineIsNthBusinessDay`
compares the computed deadline with a definition that only counts days;
`TracesExplainGrades`; `OneDigestADay`. The last is about the user, whatever the sessions and zones:
a digest of a date that was shown already is shown again only to a request that had read the user
before (`read`), or if a digest shown since went by another zone or was belated, its
request having lasted from before midnight past nine of the next day. Each exception is one the
code has (section 4), and the property fails in this instance if any of them is dropped.

**Bounds.** `MaxTime`, `MaxSubmissions`, `Ids`, `MaxEvents`, `MaxVersions` and `MaxRuns` bound
the counters; each is a guard named as a bound. Two sessions suffice for every hazard
listed, all of which are overlaps of two requests. Two identifiers let a row be
dropped and added again. Three ticks with the deadline at 1 and the effective
deadline at 2 reach the instants on, between and after both. With the limit at 1,
three events exceed the bound of `RateBounded` if the check is off by one. Two runs and
three versions allow two evaluated versions of different schemas and a number that is
taken after an undone one. `restores` needs one archive only, because a process has one
flag and the table one latest staged event whatever archives they are about; three
events allow two staged ones and a third after an end. In `nights` archives expire on the
third day, so that a nightly prune meets an archive that was staged and one that was
not. In `login` four requests are what it takes to reach the threshold and get one
attempt in late, or to log in and out and use the session twice more; four ticks with a
window of one let failures leave the window and a lock run out, also on its last instant, and a logout fall between
the row a request has read and the time it takes. In `documents`
three versions let a request copy a version younger than those it numbered after.
In `cycles` a day has three ticks, the first before nine; the clock runs from one evening over
midnight and past nine, with requests under way at each tick, so that a request may span
midnight, nine, or both; two prior traces (three in the code,
`MinPriors`) make an outlier possible. The theorems need none of these bounds to be small.

**Symmetry** is used in `feedback`, `models`, `login`, `documents` and `cycles`, where sessions,
schemas or contents are interchangeable and no liveness is checked.

**Deadlock** checking is off: the clocks and counters are bounded, so the models stop.
That no request waits for ever is `RequestsEnd`.

**Fairness** (`FairSpec` of `Assignments`): weak fairness of a commit, because the event loop
runs every coroutine that is ready; strong fairness of the locked write, because a
row lock may be taken again and again by others but PostgreSQL queues its waiters
in order. `FairSpec` of `Restores`: weak fairness of the scheduler's steps (`_run` loops for ever and
catches what a tick raises) and of a request that has begun. Nothing is assumed of
users, of rollbacks, of restarts or of the clock.

## 4. Findings

- **An archived assignment comes back** (`assign_archived`). Both reviews read
  SUBMITTED; the approval commits; the return then writes `state` and
  `returned_reason`. The row says RETURNED_FOR_REVISION with `archived_at` set.
- **Two live schemas** (`models_pin`). Both promotions read `live_schema_hash` NULL; the
  second overwrites the pin of the first; two approved versions have different
  schemas. `OnePromoterPins` proves that this overlap is the only way.

- **More than one nightly archive** (`night_twice`). The guard is set after the commit. A
  restore event refuses the deletion of its archive, and the nightly archive shares the
  transaction of the deletion: once an archive that was ever staged has expired, each
  tick writes a file, fails, and is repeated a minute later. No night is recorded any
  more, and the files stay.

Seen while modelling, without a run of its own: `routes/admin_backups.py:179-180` says
"On failure we leave maintenance mode on", and line 204 leaves it; and since
`pg_restore` waits for the request that runs it, an executed restore always ends as
aborted (theorem `NeverRestored`). Further, in code the properties had to be stated around:

- Wrong passwords that overlap do not see each other's uncommitted failures, so more
  of them than the threshold may be tried before the lock (`GuessesBounded`).
- A login that verified an outdated hash writes the hash of the password it verified,
  also over a password that was changed meanwhile (`PasswordIsChosen`).
- `create_cycle` announces the effective deadline in the zone of the `deadline_at` it was sent;
  every later request computes it from the stored UTC value, and the two may be
  the ends of different days (`DeadlineIsNthBusinessDay` holds of each in its own zone).
- `services/digest.py:4-8` and `docs/design.md:159` promise a user one digest a day. Two
  overlapping requests are both answered with one; a change of time zone, or the
  fallback of `routes/cycles.py:174-184` to the zone of some cycle, takes the date shown back and
  forth; and a request that took the time before midnight and commits past nine of the next day
  stamps the day before over it, so that the day's own digest comes twice (`OneDigestADay`).
- `last_seen_at` may be later than `revoked_at`: a request that had read the session before the
  logout takes its time, and is executed, after it (`SessionsEnd`).
- The content hash of a corrected grade is of the value alone, that of a submitted one of
  item and value (`Hash`, `HashOfCorrection`).
- `services/model_schema.py` calls its hash independent of the order of the features; two
  features of the same name keep the order they were sent in.
- Arm B of an experiment need not be an approved version (`routes/experiments.py:124-133`).

## 5. Proofs

Each theorem is of the form `Spec => []P` (`Spec => P` for a refinement and for action
properties), for all values of the constants that satisfy the assumptions, and is
proved from an inductive invariant, called `IInv` where a module has one for all of its
theorems. The theorems of `AssignmentsSoloProofs` state two hypotheses more. TLC agrees with
every conjunct that is a property of a run.

**`AssignmentsProofs`** (assumes `IdsAssumption`, `DraftAssumption`, `TimeAssumption`): `TypeCorrect`,
`UniqueAssignment`, `SubmissionsHaveRows`, `HandedInIsRecorded`, `LateWorkIsFlagged`,
`RosterChangesAreAudited`. None of
the properties is inductive: what a commit does depends on what its request read
long before. `IInv` adds what a request relies on: that its new state comes from one of
the handlers' decisions, that a flushed update still has its row and is the only
flushed one of it, that an insert under way is the only one and finds no row
(`LockInv`), that a state which is handed in came from a row with a submission or comes with
one, and that stamp and flag of a submit agree with each other. The audit counts are
cardinalities: an insert takes an identifier that was never used, so it adds one to both
sides; a delete finds its row there, or is audited once more for a row that is gone.

**`AssignmentsSoloProofs`**: `ReviewedDraftIsSubmitted` and `OnlyLateIsFlagged` (hypothesis
`OneSessionEach`: the evaluator works from one session, and the reviewer from one),
`ReturnsAreAnsweredOnce` and `RequestsLookAtomic` (and `ManagersAlone`: nobody changes the
roster, or one session does everything, as an administrator's in a small installation). Without them the
properties are false (section 3). The argument is `FreshReads`: although the handlers read
without a lock, what a request has read of its row is still so, because the only other
session that may have an update under way is the other actor's, and the state machine
lets no two actors write in one state. `RequestsKeep` carries it over every step. For the
refinement, a commit is the step of `AssignmentLifecycle` that its request decided on, an add
and a drop are its `Add` and `Drop`, and a begin, a flush, a refusal, an undo, a restart and a
tick are stutters; `Untouched` and `DropsUntouched` say that the row a drop deletes is
still blank.

**`FeedbackProofs`** (assumes `WeightsAssumption`, `FeedbackAssumption`, `UsersAssumption`: a
subject has finitely many sessions and at least one): `FeedbackTypes`, `SplitAddsUp`,
`SignalsAgree`, `BlocksAgree`, `AtMostOneLateSignal`, `RateStaysBounded`. The step for the
split is that an update changes both weights, to values adding up to 100, or neither
(`Paired`): from a row whose weights add up, one differs from the new value exactly
if the other does. The step for late signals is that a session with a counting
request under way has no late signal yet. `RateInv` counts, for every window
shortened by the lag, the committed events together with the sessions whose events are
under way: a request that passes the check has seen fewer than the limit in a window that
includes this one (`SpanIsCounted`), and beside it every other session may have
one; a commit turns one of the latter into one of the former.

**`ModelRegistryProofs`** (assumes `SchemasAssumption`, `BoundsAssumption`): `RegistryTypes`,
`NumbersHaveNoGaps`, `LiveSchemaIsServed`, `ApprovalNeedsEvaluation`, `OnePromoterPins`. A
registration under way has a number of at most one more than there are versions, and
exactly that once its insert holds the unique key, which only one can
(`OneRegistration`); a promotion past the gate keeps its evaluation, since runs are
completed but never deleted.

**`RestoresProofs`** (assumes `SchedulerAssumption`, `ModesAssumption`, `LimitsAssumption`): `TypesHold`,
`RestorableStays`, `FilesStay`, `StagedAlone`, `EndsRecorded`, `NeverRestored`, `TrafficHeld`,
`MaintenanceCaused`, `NightsOnce`. `Form` says what a request looks like at each phase; the
other parts are one per concern. `FilesInv`: an archive under way has a number of its
own and no row, so no prune reaches its file. `RowsInv`: a flushed deletion meets neither
a restore event nor a flushed stage, whichever of the two was first. `EventsInv`: a stage
under way has an event number of its own and a session without a staged restore.
`FlagInv`: as long as no decisions overlap, at most one is under way, and `Staged` is what
that one left (`Orderly`). `NightInv`: a scheduler at work has recorded nothing this night. The
number of the next event is a maximum, whose existence is proved from the well-founded
order of the naturals (`Highest`). `NeverRestored` is no more than a consequence of `Holders`.

**`DocumentsProofs`** (assumes `DocumentsAssumption`): `DocumentTypes`, `HistoryImplemented`,
`OpenedOnceLate`. Numbers are positions (`Numbered`), so what a request has read is a prefix
1..k of the versions, its number is k + 1 and its head is k (`ReadOfPrefix`). `Faithful` is what
an insert under way says of its version; it stays true while others commit, and once the
insert holds the number, that number is the next one, and no other insert into the document
holds one (`OneInsert`). With that a commit is a step of `DocumentHistory` by its operation
(`CommitImplements`) and any other step a stutter. `LateInv`: only a closed link has been opened
late, a closed link stays closed, and a request that has checked a link has not opened it late.

**`LoginProofs`** (assumes `LoginAssumption`, `TasksAssumption`: finitely many connections and at
least one): `LoginTypes`, `GuessesAreBounded`, `AtMostOneLateAttempt`, `SessionsEndInTime`,
`ChosenPasswordStays`. `TypeOK` says for each phase which requests may be in it. `GuessesInv`
counts the guesses of the window together with those already counted by their own request
but not committed: a request that does not lock has seen fewer than the threshold of the
committed ones, itself included, and the others' are at most one for each connection. `IdsInv` is
what makes this a count: no two requests share a row. `LateInv`: while the account is locked, an
attempt under way is the first late one of its connection since the lock was committed, or has
read the lock that will stop it. `SessionsInv`: a request of a session under way is the first that its
connection executes after the logout, since it read the session before, and the time it took is
before the expiry. `PasswordInv`: until a change overtakes a rehash, the users row has the latest password,
and whoever is about to rehash has verified that one.

**`CyclesProofs`** (assumes `DayAssumption`, `ScoringAssumption`, `CyclesAssumption`, which say in
particular that a cycle has finitely many holidays, a template finitely many items, and
that no deadline is before the first date of the calendar): `LoopCountsDays`,
`DeadlinesAreBusinessDays`, `GradesAreExplained`, `DigestsComeOnceADay`. The recursive functions
and folds are not unfolded a number of times: `LeastNatural` gets the least element of a set of
naturals from the well-founded order, `Counting` makes it induction over a set (instead of
the library's induction theorems, whose operator parameter no installed prover can instantiate),
and with it a recursion is shown to have a solution and the solution to be the one function
with the properties wanted. `LoopFindsNextDay`: the loop that advances to a business day ends
on the first one, since finitely many holidays leave one (`NextDayExists`). `LoopCountsDays`: with
each round there is one business day more between the start and the date.
`MakeupDeadline` puts both together with the division into days. `SumIsUnique` identifies
the folds of `Score` with sums, and `SumBetween` bounds those (`ScoreIsWithin`); the rest of
`GradesAreExplained` is one invariant (`ScoresInv`), in which a correction replaces value, presence
and hash of one row. `DigestsInv`: `user.shown` is the date of the last digest
shown; whoever is about to show a digest has found another date there when it read the user
(`Unseen`), and has taken the time when its date had reached nine (`Reached`). Of two digests of one
date, were all those between of one zone and none belated, their dates could not go back
(`DatesInOrder`), so the one seen when the user was read would have had that date. Nothing is assumed
of how long a request lasts.

**Only model-checked:** `NightlyIsRecorded` and `RequestsEnd`, which are liveness under fairness:
they need `ENABLED`, which this prover does not reason about. The properties of the three runs
that expect a violation are false.

## 6. Plan

Modelled: every component that keeps state of its own and decides on it. Proved: every
safety property and refinement that a run which passes checks. What is left: what
`NightlyIsRecorded` rests on (as long as a night is neither over nor recorded nor excepted, the
scheduler tries again, whatever failed before), a lemma about `IsOutlier` (the value all priors
have is none), and `OnePromoterPins` for promoters whose requests do not overlap.

## 7. Not modelled

- **Inference** (`routes/inference.py`, `services/inference.py`, `services/routing.py`) changes nothing
  but metrics and a cache of immutable parameters; the arm is a hash of the subject.
- **Feature schemas and guardrails** (`services/model_schema.py`, `services/guardrail.py`): a
  schema is its hash in `ModelRegistry`; nothing in `src/` calls the guardrail's evaluation.
- **Users, roles, audit**: creation of users is an initial state of `Login`; the rest are
  listings. Audit rows are in the models where a property is about them.
- **Cryptography, tokens, canonical JSON, masking**: functions over libraries, which only
  refuse requests or change how values are written.
- **Request plumbing and metrics**, the **web client** (it sends the requests the models take
  in any order), **migrations and scripts**.
- Of modelled components: comparison and export of plan versions, listings, the lines of
  the digest, the rounding of scores to twelve digits, outcomes of requests as HTTP answers.
