------------------------------- MODULE Cycles -------------------------------
(***************************************************************************)
(* Evaluation cycles with their deadlines, the scoring of what is handed   *)
(* in, corrections of grades, and the daily digest of one evaluator        *)
(* (routes/cycles.py, services/submissions.py, routes/submissions.py,      *)
(* services/digest.py).  When an assignment may be handed in is the        *)
(* business of Assignments.                                                *)
(***************************************************************************)
EXTENDS Calendar, Scoring

CONSTANTS Sessions,    \* login sessions of the evaluator, each of whom may be given roles
          Offers,      \* the settings of cycles that may be created
          Answers,     \* what may be handed in
          Corrections, \* values a reviewer may set
          Zones,       \* offsets of the time zones of cycles and of the evaluator
          Nine,        \* ticks of a day before 09:00
          Start,       \* the clock's first tick
          MaxTime,     \* bound on the clock
          MaxCycles,   \* bound on the cycles
          MaxRequests  \* bound on the requests

UTC == 0

\* Holidays are a list, and no deadline is on a date before the calendar's first one.
ASSUME CyclesAssumption ==
  /\ Offers \subseteq Settings(Nat, Int, Nat, Nat)
  /\ Answers \subseteq [Items -> Int \cup {Absent}]
  /\ Corrections \subseteq Int \cup {Absent}
  /\ Zones \subseteq Int
  /\ \A c \in Offers : IsFiniteSet(c.holidays) /\ c.deadline + c.zone >= 0
  /\ {Nine, Start, MaxTime, MaxCycles, MaxRequests} \subseteq Nat

VARIABLES cycles, \* the committed cycles, the evaluator assigned to each
          traces, \* the committed calculation_traces, one for each submission
          grades, \* grades[k][i]: the grade_values row of item i of submission k
          edited, \* edited[k]: items of submission k with a GRADE_EDIT audit row
          user,   \* users.timezone (its offset) and digest_last_shown_date
          now,    \* the clock
          phase,  \* phase[s]: how far the request of session s has come
          req,    \* req[s]: that request
          shows,  \* the digests the evaluator was shown, in the order of their commits
          begun   \* requests so far

scores == <<traces, grades, edited>>
digests == <<user, shows>>
vars == <<cycles, scores, digests, now, phase, req, begun>>

NoRequest == [op |-> "none"]

Init == /\ cycles = <<>>
        /\ traces = <<>>
        /\ grades = <<>>
        /\ edited = <<>>
        /\ user = [zone |-> UTC, shown |-> Absent]
        /\ now = Start
        /\ phase = [s \in Sessions |-> "idle"]
        /\ req = [s \in Sessions |-> NoRequest]
        /\ shows = <<>>
        /\ begun = 0

-----------------------------------------------------------------------------
Enter(s, p, r) == phase' = [phase EXCEPT ![s] = p] /\ req' = [req EXCEPT ![s] = r]

Finish(s) == Enter(s, "idle", NoRequest)

Begin(s, p, r) == /\ phase[s] = "idle"
                  /\ begun < MaxRequests
                  /\ begun' = begun + 1
                  /\ Enter(s, p, r)

Flushed(ops) == {s \in Sessions : phase[s] = "flushed" /\ req[s].op \in ops}

-----------------------------------------------------------------------------
(* Cycles *)

\* create_cycle answers with the effective deadline in the zone of the deadline it was
\* sent; the row comes back from the database in UTC.  The timezone is another field.
CreateCycle(s, c, zone) ==
  /\ Len(cycles) + Cardinality({t \in Sessions : req[t].op = "cycle"}) < MaxCycles
  /\ Begin(s, "flushed", [op |-> "cycle", cycle |-> c, timezone |-> zone,
                          answer |-> EffectiveDeadline(c, c.zone)])
  /\ UNCHANGED <<cycles, scores, digests, now>>

CommitCycle(s) ==
  /\ phase[s] = "flushed"
  /\ req[s].op = "cycle"
  /\ cycles' = Append(cycles, [settings |-> req[s].cycle, timezone |-> req[s].timezone,
                               answer |-> req[s].answer])
  /\ Finish(s)
  /\ UNCHANGED <<scores, digests, now, begun>>

-----------------------------------------------------------------------------
(* Scoring and corrections *)

\* content_hash: of the item and the value, after a correction of the value only
Hash(i, x) == <<i, x>>
HashOfCorrection(x) == <<x>>

Grade(i, x) == [present |-> x # Absent, value |-> x, hash |-> Hash(i, x)]

\* _prior_values_by_item: the raw values of the traces committed so far
Priors == [k \in DOMAIN traces |-> traces[k].raw]

\* persist_submission scores against what is committed when it reads.
BeginSubmit(s, inputs) ==
  /\ cycles # <<>>
  /\ Begin(s, "flushed", [op |-> "submit", trace |-> Score(inputs, Priors)])
  /\ UNCHANGED <<cycles, scores, digests, now>>

CommitSubmit(s) ==
  /\ phase[s] = "flushed"
  /\ req[s].op = "submit"
  /\ LET trace == req[s].trace IN
       /\ traces' = Append(traces, trace)
       /\ grades' = Append(grades, [i \in Items |-> Grade(i, trace.raw[i])])
       /\ edited' = Append(edited, {})
  /\ Finish(s)
  /\ UNCHANGED <<cycles, digests, now, begun>>

\* edit_grade, at any time; nothing is scored again.
BeginEdit(s, k, i, x) ==
  /\ Begin(s, "read", [op |-> "edit", sub |-> k, item |-> i, value |-> x])
  /\ UNCHANGED <<cycles, scores, digests, now>>

\* The UPDATE by id waits for another one of the row.
FlushEdit(s) ==
  /\ phase[s] = "read"
  /\ req[s].op = "edit"
  /\ \A t \in Flushed({"edit"}) : <<req[t].sub, req[t].item>> # <<req[s].sub, req[s].item>>
  /\ Enter(s, "flushed", req[s])
  /\ UNCHANGED <<cycles, scores, digests, now, begun>>

\* Slip: removing a value leaves raw_present and the hash as they are.
PartCorrected(g, x) == IF x = Absent THEN [g EXCEPT !.value = Absent]
                       ELSE [present |-> TRUE, value |-> x, hash |-> HashOfCorrection(x)]

\* One UPDATE of value, presence and hash
Corrected(g, x) == [present |-> x # Absent, value |-> x, hash |-> HashOfCorrection(x)]

CommitEdit(s) ==
  /\ phase[s] = "flushed"
  /\ req[s].op = "edit"
  /\ LET r == req[s] IN
       /\ grades' = [grades EXCEPT ![r.sub][r.item] = Corrected(@, r.value)]
       /\ edited' = [edited EXCEPT ![r.sub] = @ \cup {r.item}]
  /\ Finish(s)
  /\ UNCHANGED <<cycles, traces, digests, now, begun>>

-----------------------------------------------------------------------------
(* The digest *)

\* get_digest reads the user's zone.
BeginDigest(s) ==
  /\ Begin(s, IF user.zone = UTC THEN "asked" ELSE "zoned", [op |-> "digest", zone |-> user.zone])
  /\ UNCHANGED <<cycles, scores, digests, now>>

\* For UTC it takes the timezone of any cycle of theirs, in no order.
FallbackZone(s) ==
  /\ phase[s] = "asked"
  /\ req[s].op = "digest"
  /\ \E zone \in IF cycles = <<>> THEN {UTC} ELSE {cycles[k].timezone : k \in DOMAIN cycles} :
       Enter(s, "zoned", [op |-> "digest", zone |-> zone])
  /\ UNCHANGED <<cycles, scores, digests, now, begun>>

BeforeNine(zone) == (now + zone) % DayLength < Nine

\* build_digest takes the local time, which stays that of the request; nothing is shown
\* before nine.
ReadClock(s) ==
  /\ phase[s] = "zoned"
  /\ req[s].op = "digest"
  /\ ~ BeforeNine(req[s].zone)
  /\ Enter(s, "read", [op |-> "digest", zone |-> req[s].zone,
                       today |-> LocalDate(now, req[s].zone)])
  /\ UNCHANGED <<cycles, scores, digests, now, begun>>

\* Then it reads the user, and shows nothing if the last date shown is today's.
ShowDigest(s) ==
  /\ phase[s] = "read"
  /\ req[s].op = "digest"
  /\ user.shown # req[s].today
  /\ Enter(s, "decided", [op |-> "digest", zone |-> req[s].zone, today |-> req[s].today,
                          read |-> Len(shows), writes |-> TRUE])
  /\ UNCHANGED <<cycles, scores, digests, now, begun>>

\* update_timezone; a column that keeps the value it had is not written.
BeginZone(s, zone) ==
  /\ Begin(s, "decided", [op |-> "zone", zone |-> zone, writes |-> zone # user.zone])
  /\ UNCHANGED <<cycles, scores, digests, now>>

\* Both update the users row under its lock.
FlushUser(s) ==
  /\ phase[s] = "decided"
  /\ req[s].writes => \A t \in Flushed({"digest", "zone"}) : ~ req[t].writes
  /\ Enter(s, "flushed", req[s])
  /\ UNCHANGED <<cycles, scores, digests, now, begun>>

\* Slip: the date of the server is stamped.
ServerDate(r) == LocalDate(now, UTC)

Stamp(r) == r.today

\* The digest is shown once it is committed; read: how many were when the user was read.
CommitDigest(s) ==
  /\ phase[s] = "flushed"
  /\ req[s].op = "digest"
  /\ user' = [user EXCEPT !.shown = Stamp(req[s])]
  /\ shows' = Append(shows, [date |-> req[s].today, zone |-> req[s].zone, read |-> req[s].read,
                             at |-> now])
  /\ Finish(s)
  /\ UNCHANGED <<cycles, scores, now, begun>>

CommitZone(s) ==
  /\ phase[s] = "flushed"
  /\ req[s].op = "zone"
  /\ user' = IF req[s].writes THEN [user EXCEPT !.zone = req[s].zone] ELSE user
  /\ Finish(s)
  /\ UNCHANGED <<cycles, scores, shows, now, begun>>

-----------------------------------------------------------------------------
\* A refusal, an answer without a digest, an error or a restart
Undo(s) == /\ phase[s] # "idle"
           /\ Finish(s)
           /\ UNCHANGED <<cycles, scores, digests, now, begun>>

\* Time passes whatever is under way.
Tick == /\ now < MaxTime
        /\ now' = now + 1
        /\ UNCHANGED <<cycles, scores, digests, phase, req, begun>>

Next ==
  \/ Tick
  \/ \E s \in Sessions :
       \/ \E c \in Offers, zone \in Zones : CreateCycle(s, c, zone)
       \/ \E inputs \in Answers : BeginSubmit(s, inputs)
       \/ \E k \in DOMAIN traces, i \in Items, x \in Corrections : BeginEdit(s, k, i, x)
       \/ \E zone \in Zones : BeginZone(s, zone)
       \/ CommitCycle(s) \/ CommitSubmit(s) \/ FlushEdit(s) \/ CommitEdit(s)
       \/ BeginDigest(s) \/ FallbackZone(s) \/ ReadClock(s) \/ ShowDigest(s)
       \/ FlushUser(s) \/ CommitDigest(s) \/ CommitZone(s) \/ Undo(s)

Spec == Init /\ [][Next]_vars

-----------------------------------------------------------------------------
(* Properties *)

\* A make-up deadline is the end of a business day with as many business days after the
\* deadline's own date as were granted, in the zone it is computed in, and is never
\* before the deadline (services/business_days.py, effective_deadline).
IsMakeupDeadline(c, zone, t) ==
  LET d == LocalDate(t, zone) IN
    /\ t >= c.deadline
    /\ t = EndOfDay(d, zone)
    /\ IsBusinessDay(d, c.holidays)
    /\ BusinessDaysBetween(LocalDate(c.deadline, zone), d, c.holidays) = c.days

\* Both the deadline create_cycle answers with and the one enforced later are such
\* deadlines, each in its own zone; without make-up days both are the deadline.
DeadlineIsNthBusinessDay ==
  \A k \in DOMAIN cycles :
    LET c == cycles[k].settings
        enforced == EffectiveDeadline(c, UTC)
    IN IF c.makeup /\ c.days > 0
       THEN /\ IsMakeupDeadline(c, c.zone, cycles[k].answer)
            /\ IsMakeupDeadline(c, UTC, enforced)
       ELSE cycles[k].answer = c.deadline /\ enforced = c.deadline

\* The score of a trace lies between the values that count in it, a missing item
\* counting as zero if it is filled and not at all if it is excluded.
Counted(trace) ==
  {EffectiveValue(trace.raw[i]) : i \in {j \in Items :
     trace.raw[j] # Absent \/ Template[j].strategy = "ZERO_FILL"}}

ScoreWithin(trace) ==
  \A low, high \in Counted(trace) :
    (\A x \in Counted(trace) : low <= x /\ x <= high)
      => low * trace.weight <= trace.sum /\ trace.sum <= high * trace.weight

\* A stored grade that no audit row mentions is the one its trace was computed from;
\* any grade is as present and hashed as its value, whatever corrections overlapped.
GradeTraced(k, i) ==
  LET g == grades[k][i] IN
    /\ g.present <=> g.value # Absent
    /\ IF i \in edited[k] THEN g.hash = HashOfCorrection(g.value)
       ELSE g.value = traces[k].raw[i] /\ g.hash = Hash(i, g.value)

TracesExplainGrades == /\ \A k \in DOMAIN traces : ScoreWithin(traces[k])
                       /\ \A k \in DOMAIN traces, i \in Items : GradeTraced(k, i)

\* A digest committed when it is past nine of the day after its own
Belated(d) == d.at + d.zone >= (d.date + 1) * DayLength + Nine

\* Once a day (services/digest.py): of two digests of one date the later is shown only to a
\* request that had read the user before the earlier was committed, unless since then the
\* evaluator's zone has been another one, or a digest has been belated, its request having
\* lasted from before midnight past nine.
OneDigestADay ==
  \A m, n \in DOMAIN shows :
    m <= shows[n].read /\ shows[m].date = shows[n].date
      => \E k \in m + 1 .. n : shows[k].zone # shows[m].zone \/ Belated(shows[k])
=============================================================================
