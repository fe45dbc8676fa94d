----------------------------- MODULE Feedback -----------------------------
(***************************************************************************)
(* The feedback of one subject on one target (services/feedback.py), with  *)
(* the experiment it counts for being managed at the same time.            *)
(***************************************************************************)
EXTENDS Experiments, FiniteSets

CONSTANTS Arms,      \* the arms that have a model: "A", and "B" if configured
          Limit,     \* RATE_LIMIT_PER_MINUTE
          Window,    \* the 60 seconds, in ticks of the clock
          Lag,       \* bound on the wait of a request behind its session's last
          MaxTime,   \* bound on the clock
          MaxEvents  \* bound on the events sent

ASSUME FeedbackAssumption == /\ {Limit, Window, Lag, MaxTime, MaxEvents} \subseteq Nat
                             /\ MaxTime > 0
ASSUME UsersAssumption == IsFiniteSet(Users) /\ Users # {}

VARIABLES clock,
          logged,    \* feedback_events by arm, kind and ingest_enabled_at_time
          stamps,    \* feedback_events by created_at
          signals,   \* the counters of feedback_signals by arm and kind
          blocked,   \* is there a subject_blocks row?
          late       \* late[s]: signals session s added since ingest was turned off

tables == <<logged, stamps, signals, blocked>>
vars == <<control, phase, req, clock, tables, late>>

Times == 1 .. MaxTime
Counting == {"LIKE", "NOT_INTERESTED"}
Kinds == Counting \cup {"BLOCK"}

Init == /\ ControlInit
        /\ clock = 1
        /\ logged = [e \in Arms \X Kinds \X BOOLEAN |-> 0]
        /\ stamps = [t \in Times |-> 0]
        /\ signals = [c \in Arms \X Counting |-> 0]
        /\ blocked = FALSE
        /\ late = [s \in Users |-> 0]

-----------------------------------------------------------------------------
\* The events stamped at one of the instants in T, each a pair of instant and number
Events(T) == UNION {{t} \X (1 .. stamps[t]) : t \in T}

EventsAt(T) == Cardinality(Events(T))

\* Slip: the oldest instant of the window is missed.
CountedLater(now) == {t \in Times : now - Window < t}

\* created_at >= window_start
Counted(now) == {t \in Times : now - Window <= t}

\* Bound: the events stored and under way.
Room == EventsAt(Times) + Cardinality({s \in Sessions : req[s].op = "feedback"}) < MaxEvents

\* record_feedback up to its first write: it counts the committed events of the
\* subject and reads the toggle.  Its event will be stamped with the beginning of
\* the transaction, which precedes the wait for the session's last request.
BeginFeedback(s, arm, kind, begun) ==
  /\ s \in Users
  /\ phase[s] = "idle"
  /\ Room
  /\ EventsAt(Counted(clock)) < Limit
  /\ clock - Lag <= begun /\ begun <= clock
  /\ phase' = [phase EXCEPT ![s] = "read"]
  /\ req' = [req EXCEPT ![s] = [op |-> "feedback", arm |-> arm, kind |-> kind,
                                ingest |-> experiment.ingest_enabled, at |-> begun]]
  /\ UNCHANGED <<control, clock, tables, late>>

\* Slip: the toggle is ignored.
CountsAlways(r) == r.kind \in Counting

Counts(r) == r.kind \in Counting /\ r.ingest

\* Slip: a block obeys the toggle, too.
BlocksWhenIngesting(r) == r.kind = "BLOCK" /\ r.ingest

Blocks(r) == r.kind = "BLOCK"

\* The row an ON CONFLICT insert locks until the commit: the counters of the
\* arm, or the block when it is the first one.
Upserted(r) == {x \in {<<"signal", r.arm>>} : Counts(r)} \cup {x \in {<<"block">>} : Blocks(r) /\ ~blocked}

FlushFeedback(s) ==
  /\ phase[s] = "read"
  /\ req[s].op = "feedback"
  /\ \A t \in Sessions : phase[t] = "flushed" /\ req[t].op = "feedback" =>
       Upserted(req[t]) \cap Upserted(req[s]) = {}
  /\ phase' = [phase EXCEPT ![s] = "flushed"]
  /\ UNCHANGED <<control, req, clock, tables, late>>

CommitFeedback(s) ==
  LET r == req[s] IN
  /\ phase[s] = "flushed"
  /\ r.op = "feedback"
  /\ logged' = [logged EXCEPT ![<<r.arm, r.kind, r.ingest>>] = @ + 1]
  /\ stamps' = [stamps EXCEPT ![r.at] = @ + 1]
  /\ signals' = IF Counts(r) THEN [signals EXCEPT ![<<r.arm, r.kind>>] = @ + 1] ELSE signals
  /\ blocked' = (blocked \/ Blocks(r))
  /\ late' = IF Counts(r) /\ ~experiment.ingest_enabled THEN [late EXCEPT ![s] = @ + 1] ELSE late
  /\ Finish(s)
  /\ UNCHANGED <<control, clock>>

-----------------------------------------------------------------------------
CommitControl(s) ==
  /\ Commit(s)
  /\ late' = IF experiment'.ingest_enabled THEN [t \in Users |-> 0] ELSE late
  /\ UNCHANGED <<clock, tables>>

\* The API process stops, and with it every open transaction.
Restart == /\ \E s \in Sessions : phase[s] # "idle"
           /\ phase' = [s \in Sessions |-> "idle"]
           /\ req' = [s \in Sessions |-> NoRequest]
           /\ UNCHANGED <<control, clock, tables, late>>

Tick == /\ clock < MaxTime
        /\ clock' = clock + 1
        /\ UNCHANGED <<control, phase, req, tables, late>>

Next ==
  \/ \E s \in Sessions :
       \/ \E arm \in Arms, kind \in Kinds, t \in Times : BeginFeedback(s, arm, kind, t)
       \/ FlushFeedback(s)
       \/ CommitFeedback(s)
       \/ Control(s) /\ UNCHANGED <<clock, tables, late>>
       \/ CommitControl(s)
       \/ Undo(s) /\ UNCHANGED <<clock, tables, late>>
  \/ Restart
  \/ Tick

Spec == Init /\ [][Next]_vars
-----------------------------------------------------------------------------
PartOf(columns, S) == UNION {[D -> S] : D \in SUBSET columns}

LoadRequests == [op : {"load"}, experiment : Toggles]

UpdateRequests ==
  [op : {"update"}, toggles : PartOf({"ingest_enabled", "apply_enabled"}, BOOLEAN),
                    weights : PartOf({"weight_a", "weight_b"}, 0 .. 100)]

FeedbackRequests ==
  [op : {"feedback"}, arm : Arms, kind : Kinds, ingest : BOOLEAN, at : Times]

\* Every variable has its type.
TypeOK ==
  /\ experiment \in Toggles
  /\ routing \in Routings
  /\ phase \in [Sessions -> {"idle", "loading", "read", "flushed"}]
  /\ req \in [Sessions -> LoadRequests \cup UpdateRequests \cup FeedbackRequests \cup {NoRequest}]
  /\ clock \in Times
  /\ logged \in [Arms \X Kinds \X BOOLEAN -> Nat]
  /\ stamps \in [Times -> Nat]
  /\ signals \in [Arms \X Counting -> Nat]
  /\ blocked \in BOOLEAN
  /\ late \in [Users -> Nat]

\* feedback_signals can be recomputed from feedback_events: a counter is the
\* number of the events of its arm and kind that say ingest was enabled, with
\* toggles, rollbacks and other feedback committed in between.
SignalsMatchEvents ==
  \A arm \in Arms, kind \in Counting : signals[<<arm, kind>>] = logged[<<arm, kind, TRUE>>]

\* The subject is blocked exactly if a BLOCK event says so, whatever the toggle
\* was: two sessions that block the same target at once do not fail either.
BlocksMatchEvents ==
  blocked <=> \E arm \in Arms, i \in BOOLEAN : logged[<<arm, "BLOCK", i>>] > 0

\* The limit per minute counts committed events only and stamps an event with the
\* beginning of its transaction: sessions that send at the same time exceed it, but
\* by at most one event for each further session, in any minute less the time
\* requests wait for their session.
RateBounded ==
  \A t \in Times :
    EventsAt({u \in Times : t - Window + Lag <= u /\ u <= t}) < Limit + Cardinality(Users)

\* Turning ingest off, by toggle or rollback, cannot stop the feedback under way
\* that read it as on, but each session gets at most one more signal in.
OneLateSignal == \A s \in Users : late[s] <= 1
=============================================================================
