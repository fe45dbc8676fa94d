--------------------------- MODULE FeedbackProofs ---------------------------
(***************************************************************************)
(* Proofs about Feedback for any number of sessions, arms and events.      *)
(***************************************************************************)
EXTENDS Feedback, FiniteSetTheorems, TLAPS

\* What a request carries depends on how far it has come.
WellFormed ==
  \A s \in Sessions : /\ phase[s] = "idle" => req[s] = NoRequest
                      /\ phase[s] = "loading" => req[s] \in LoadRequests
                      /\ phase[s] \in {"read", "flushed"} =>
                           req[s] \in UpdateRequests \cup FeedbackRequests

TInv == TypeOK /\ WellFormed

\* An update names both weights, adding up to 100, or neither.
Paired(w) == DOMAIN w # {} => /\ DOMAIN w = {"weight_a", "weight_b"}
                              /\ w["weight_a"] + w["weight_b"] = 100

SplitInv == /\ WeightsAddUp
            /\ \A s \in Sessions : req[s] \in UpdateRequests => Paired(req[s].weights)

\* While ingest is on nobody is late; once it is off, a session whose request
\* still counts has not been late before.
LateInv == /\ OneLateSignal
           /\ experiment.ingest_enabled => \A s \in Users : late[s] = 0
           /\ \A s \in Users :
                /\ req[s] \in FeedbackRequests
                /\ req[s].ingest
                => late[s] = 0

\* The instants less than a window, or the wait for one's session, before t
Span(t) == {u \in Times : t - Window + Lag <= u /\ u <= t}

\* The sessions whose event under way is stamped in that span
Sending(t) == {s \in Users : req[s] \in FeedbackRequests /\ req[s].at \in Span(t)}

\* RateBounded, the events under way included
RateInv == /\ \A s \in Sessions : req[s] \in FeedbackRequests => s \in Users
           /\ IsFiniteSet(Events(Times))
           /\ \A t \in Times : EventsAt(Span(t)) + Cardinality(Sending(t))
                                 < Limit + Cardinality(Users)

IInv == TInv /\ SplitInv /\ LateInv /\ RateInv /\ SignalsMatchEvents /\ BlocksMatchEvents

-----------------------------------------------------------------------------
(* The parts of an update *)

LEMMA ChangesType ==
  ASSUME NEW C, NEW S, NEW old, NEW new \in [C -> S]
  PROVE  Changes(old, new) \in PartOf(C, S)
<1> DEFINE D == {d \in C : new[d] # old[d]}
<1>1. Changes(old, new) = [c \in D |-> new[c]]
  BY DEF Changes
<1>2. [c \in D |-> new[c]] \in [D -> S]
  OBVIOUS
<1>3. D \in SUBSET C
  OBVIOUS
<1>4. QED
  BY <1>1, <1>2, <1>3 DEF PartOf

LEMMA UpdatedType ==
  ASSUME NEW C, NEW S, NEW row \in [C -> S], NEW set \in PartOf(C, S)
  PROVE  Updated(row, set) \in [C -> S]
<1>1. PICK D \in SUBSET C : set \in [D -> S]
  BY DEF PartOf
<1>2. QED
  BY <1>1 DEF Updated

\* The rows are records, which are functions on their columns.
LEMMA RowsAreFunctions ==
  /\ Toggles = [{"ingest_enabled", "apply_enabled"} -> BOOLEAN]
  /\ Routings = [{"weight_a", "weight_b"} -> 0 .. 100]
<1>1. Toggles \subseteq [{"ingest_enabled", "apply_enabled"} -> BOOLEAN]
  BY DEF Toggles
<1>2. ASSUME NEW f \in [{"ingest_enabled", "apply_enabled"} -> BOOLEAN]
      PROVE  f \in Toggles
  <2>1. f = [ingest_enabled |-> f["ingest_enabled"], apply_enabled |-> f["apply_enabled"]]
    OBVIOUS
  <2>2. QED
    BY <2>1 DEF Toggles
<1>3. Routings \subseteq [{"weight_a", "weight_b"} -> 0 .. 100]
  BY DEF Routings
<1>4. ASSUME NEW f \in [{"weight_a", "weight_b"} -> 0 .. 100]
      PROVE  f \in Routings
  <2>1. f = [weight_a |-> f["weight_a"], weight_b |-> f["weight_b"]]
    OBVIOUS
  <2>2. QED
    BY <2>1 DEF Routings
<1>5. QED
  BY <1>1, <1>2, <1>3, <1>4

LEMMA SplitType == \A w \in 0 .. 100 : /\ Split(w) \in Routings
                                       /\ Split(w).weight_a + Split(w).weight_b = 100
  BY DEF Split, Routings

\* Of two splits that add up to 100 either both columns differ or none does.
LEMMA SplitsPaired ==
  ASSUME NEW old \in Routings, NEW new \in Routings,
         old.weight_a + old.weight_b = 100, new.weight_a + new.weight_b = 100
  PROVE  Paired(Changes(old, new))
<1>1. DOMAIN new = {"weight_a", "weight_b"}
  BY DEF Routings
<1>2. /\ old["weight_a"] = old.weight_a /\ old["weight_b"] = old.weight_b
      /\ new["weight_a"] = new.weight_a /\ new["weight_b"] = new.weight_b
  OBVIOUS
<1>3. /\ old.weight_a \in Int /\ old.weight_b \in Int
      /\ new.weight_a \in Int /\ new.weight_b \in Int
  BY DEF Routings
<1>4. (new["weight_a"] # old["weight_a"]) <=> (new["weight_b"] # old["weight_b"])
  BY <1>2, <1>3
<1>5. CASE new["weight_a"] # old["weight_a"]
  <2>1. {d \in DOMAIN new : new[d] # old[d]} = {"weight_a", "weight_b"}
    BY <1>1, <1>4, <1>5
  <2>2. QED
    BY <2>1, <1>2 DEF Changes, Paired
<1>6. CASE new["weight_a"] = old["weight_a"]
  <2>1. {d \in DOMAIN new : new[d] # old[d]} = {}
    BY <1>1, <1>4, <1>6
  <2>2. QED
    BY <2>1 DEF Changes, Paired
<1>7. QED
  BY <1>5, <1>6

-----------------------------------------------------------------------------
(* Types *)

LEMMA InitTypes == Init => TInv
<1> SUFFICES ASSUME Init
             PROVE  TInv
  OBVIOUS
<1>1. experiment \in Toggles /\ routing \in Routings
  <2>1. PICK w \in Weights : routing = Split(w)
    BY DEF Init, ControlInit
  <2>2. QED
    BY <2>1, WeightsAssumption, SplitType DEF Init, ControlInit, Toggles
<1>2. clock \in Times /\ MaxTime \in Nat
  BY FeedbackAssumption DEF Init, Times
<1>3. QED
  BY <1>1, <1>2 DEF Init, ControlInit, TInv, TypeOK, WellFormed

\* How a request's record moves along, phase by phase.
LEMMA MoveTypes ==
  ASSUME TInv, NEW s \in Sessions, NEW p \in {"idle", "loading", "read", "flushed"}, NEW r,
         r \in LoadRequests \cup UpdateRequests \cup FeedbackRequests \cup {NoRequest},
         p = "idle" => r = NoRequest,
         p = "loading" => r \in LoadRequests,
         p \in {"read", "flushed"} => r \in UpdateRequests \cup FeedbackRequests,
         phase' = [phase EXCEPT ![s] = p], req' = [req EXCEPT ![s] = r]
  PROVE  /\ phase' \in [Sessions -> {"idle", "loading", "read", "flushed"}]
         /\ req' \in [Sessions -> LoadRequests \cup UpdateRequests \cup FeedbackRequests
                                    \cup {NoRequest}]
         /\ WellFormed'
<1>1. \A t \in Sessions : /\ phase'[t] = IF t = s THEN p ELSE phase[t]
                          /\ req'[t] = IF t = s THEN r ELSE req[t]
  BY DEF TInv, TypeOK
<1>2. QED
  BY <1>1 DEF TInv, TypeOK, WellFormed

\* What a manager's request assigns, given what it loaded.
LEMMA AssignShape ==
  ASSUME TInv, NEW s \in Sessions, Toggle(s) \/ UpdateRouting(s) \/ RollBack(s)
  PROVE  \E t \in Toggles, w \in Routings :
           /\ Assign(s, t, w)
           /\ w = routing \/ w.weight_a + w.weight_b = 100
<1>1. CASE Toggle(s)
  BY <1>1 DEF Toggle, TInv, TypeOK
<1>2. CASE UpdateRouting(s)
  <2>1. req[s].experiment \in Toggles
    BY <1>2 DEF UpdateRouting, Assign, TInv, WellFormed, LoadRequests
  <2>2. QED
    BY <1>2, <2>1, SplitType, WeightsAssumption DEF UpdateRouting
<1>3. CASE RollBack(s)
  <2>1. [ingest_enabled |-> FALSE, apply_enabled |-> FALSE] \in Toggles
    BY DEF Toggles
  <2>2. 100 \in 0 .. 100
    OBVIOUS
  <2>3. QED
    BY <1>3, <2>1, <2>2, SplitType DEF RollBack
<1>4. QED
  BY <1>1, <1>2, <1>3

LEMMA AssignedType ==
  ASSUME TInv, NEW s \in Sessions, NEW t \in Toggles, NEW w \in Routings, Assign(s, t, w)
  PROVE  [op |-> "update", toggles |-> Changes(req[s].experiment, t),
          weights |-> Changes(routing, w)] \in UpdateRequests
<1>1. Changes(req[s].experiment, t) \in PartOf({"ingest_enabled", "apply_enabled"}, BOOLEAN)
  BY RowsAreFunctions, ChangesType
<1>2. Changes(routing, w) \in PartOf({"weight_a", "weight_b"}, 0 .. 100)
  BY RowsAreFunctions, ChangesType
<1>3. QED
  BY <1>1, <1>2 DEF UpdateRequests

LEMMA RequestKinds ==
  /\ \A r \in LoadRequests : r.op = "load"
  /\ \A r \in UpdateRequests : r.op = "update"
  /\ \A r \in FeedbackRequests : r.op = "feedback"
  /\ NoRequest.op = "none"
  BY DEF LoadRequests, UpdateRequests, FeedbackRequests, NoRequest

LEMMA TypesStep ==
  ASSUME TInv, [Next]_vars
  PROVE  TInv'
<1> USE DEF TInv
<1>1. ASSUME NEW s \in Sessions, NEW arm \in Arms, NEW kind \in Kinds, NEW begun \in Times,
             BeginFeedback(s, arm, kind, begun)
      PROVE  TInv'
  <2> DEFINE r == [op |-> "feedback", arm |-> arm, kind |-> kind,
                   ingest |-> experiment.ingest_enabled, at |-> begun]
  <2>1. r \in FeedbackRequests
    BY DEF FeedbackRequests, TypeOK, Toggles
  <2>2. WellFormed' /\ TypeOK'
    BY <1>1, <2>1, MoveTypes DEF BeginFeedback, control, tables, TypeOK
  <2>3. QED
    BY <2>2
<1>2. ASSUME NEW s \in Sessions, phase[s] = "read",
             phase' = [phase EXCEPT ![s] = "flushed"],
             UNCHANGED <<control, req, clock, tables, late>>
      PROVE  TInv'
  <2>1. req[s] \in UpdateRequests \cup FeedbackRequests /\ req' = [req EXCEPT ![s] = req[s]]
    BY <1>2 DEF WellFormed, TypeOK
  <2>2. WellFormed' /\ TypeOK'
    BY <1>2, <2>1, MoveTypes DEF control, tables, TypeOK
  <2>3. QED
    BY <2>2
<1>3. ASSUME NEW s \in Sessions, CommitFeedback(s)
      PROVE  TInv'
  <2>1. req[s] \in FeedbackRequests
    BY <1>3, RequestKinds DEF CommitFeedback, WellFormed
  <2>2. req[s].arm \in Arms /\ req[s].kind \in Kinds /\ req[s].ingest \in BOOLEAN /\ req[s].at \in Times
    BY <2>1 DEF FeedbackRequests
  <2>3. logged' \in [Arms \X Kinds \X BOOLEAN -> Nat]
    BY <1>3, <2>2 DEF CommitFeedback, TypeOK
  <2>4. stamps' \in [Times -> Nat]
    <3>1. stamps \in [Times -> Nat] /\ stamps' = [stamps EXCEPT ![req[s].at] = stamps[req[s].at] + 1]
      BY <1>3 DEF CommitFeedback, TypeOK
    <3>2. QED
      BY <2>2, <3>1
  <2>5. signals' \in [Arms \X Counting -> Nat]
    <3>1. CASE Counts(req[s])
      <4>1. /\ <<req[s].arm, req[s].kind>> \in Arms \X Counting
            /\ signals \in [Arms \X Counting -> Nat]
        BY <2>2, <3>1 DEF Counts, TypeOK
      <4>2. signals' = [signals EXCEPT ![<<req[s].arm, req[s].kind>>] = @ + 1]
        BY <1>3, <3>1 DEF CommitFeedback
      <4>3. QED
        BY <4>1, <4>2
    <3>2. CASE ~Counts(req[s])
      BY <1>3, <3>2 DEF CommitFeedback, TypeOK
    <3>3. QED
      BY <3>1, <3>2
  <2>6. blocked' \in BOOLEAN /\ late' \in [Users -> Nat]
    <3>1. /\ late \in [Users -> Nat]
          /\ late' = [late EXCEPT ![s] = @ + 1] \/ late' = late
      BY <1>3 DEF CommitFeedback, TypeOK
    <3>2. late' \in [Users -> Nat]
      BY <3>1
    <3>3. blocked' = (blocked \/ Blocks(req[s]))
      BY <1>3 DEF CommitFeedback
    <3>4. QED
      BY <3>2, <3>3
  <2>7. WellFormed' /\ TypeOK'
    BY <1>3, <2>3, <2>4, <2>5, <2>6, MoveTypes DEF CommitFeedback, Finish, control, TypeOK
  <2>8. QED
    BY <2>7
<1>4. ASSUME NEW s \in Sessions, LoadExperiment(s), UNCHANGED <<clock, tables, late>>
      PROVE  TInv'
  <2>1. [op |-> "load", experiment |-> experiment] \in LoadRequests
    BY DEF LoadRequests, TypeOK
  <2>2. WellFormed' /\ TypeOK'
    BY <1>4, <2>1, MoveTypes DEF LoadExperiment, control, tables, TypeOK
  <2>3. QED
    BY <2>2
<1>5. ASSUME NEW s \in Sessions, NEW t \in Toggles, NEW w \in Routings, Assign(s, t, w),
             UNCHANGED <<clock, tables, late>>
      PROVE  TInv'
  <2>1. WellFormed' /\ TypeOK'
    BY <1>5, AssignedType, MoveTypes DEF Assign, control, tables, TypeOK
  <2>2. QED
    BY <2>1
<1>6. ASSUME NEW s \in Sessions, CommitControl(s)
      PROVE  TInv'
  <2>1. req[s] \in UpdateRequests
    BY <1>6, RequestKinds DEF CommitControl, Commit, WellFormed
  <2>2. experiment' \in Toggles
    BY <1>6, <2>1, UpdatedType, RowsAreFunctions
       DEF CommitControl, Commit, UpdateRequests, TypeOK
  <2>3. routing' \in Routings
    BY <1>6, <2>1, UpdatedType, RowsAreFunctions
       DEF CommitControl, Commit, UpdateRequests, TypeOK
  <2>4. late' \in [Users -> Nat]
    BY <1>6 DEF CommitControl, TypeOK
  <2>5. WellFormed' /\ TypeOK'
    BY <1>6, <2>2, <2>3, <2>4, MoveTypes DEF CommitControl, Commit, Finish, tables, TypeOK
  <2>6. QED
    BY <2>5
<1>7. ASSUME NEW s \in Sessions, Undo(s), UNCHANGED <<clock, tables, late>>
      PROVE  TInv'
  <2>1. WellFormed' /\ TypeOK'
    BY <1>7, MoveTypes DEF Undo, Finish, control, tables, TypeOK
  <2>2. QED
    BY <2>1
<1>8. CASE Restart
  BY <1>8 DEF Restart, control, tables, TypeOK, WellFormed
<1>9. CASE Tick
  <2>1. clock' \in Times
    BY <1>9, FeedbackAssumption DEF Tick, TypeOK, Times
  <2>2. QED
    BY <1>9, <2>1 DEF Tick, control, tables, TypeOK, WellFormed
<1>10. CASE UNCHANGED vars
  BY <1>10 DEF vars, control, tables, TypeOK, WellFormed
<1>11. QED
  BY <1>1, <1>2, <1>3, <1>4, <1>5, <1>6, <1>7, <1>8, <1>9, <1>10, AssignShape
     DEF Next, Control, Flush, FlushFeedback

-----------------------------------------------------------------------------
(* The traffic split *)

LEMMA SplitStep ==
  ASSUME TInv, SplitInv, [Next]_vars
  PROVE  SplitInv'
<1> USE DEF SplitInv
\* Steps that leave the split alone and put no new update under way.
<1>1. ASSUME routing' = routing,
             \A t \in Sessions : req'[t] \in UpdateRequests => req'[t] = req[t]
      PROVE  SplitInv'
  BY <1>1 DEF WeightsAddUp
<1>2. ASSUME NEW s \in Sessions, NEW r, r \notin UpdateRequests, req' = [req EXCEPT ![s] = r]
      PROVE  \A t \in Sessions : req'[t] \in UpdateRequests => req'[t] = req[t]
  BY <1>2 DEF TInv, TypeOK
<1>3. NoRequest \notin UpdateRequests
  BY RequestKinds
<1>4. ASSUME NEW s \in Sessions, NEW arm \in Arms, NEW kind \in Kinds, NEW begun \in Times,
             BeginFeedback(s, arm, kind, begun)
      PROVE  SplitInv'
  <2>1. [op |-> "feedback", arm |-> arm, kind |-> kind,
         ingest |-> experiment.ingest_enabled, at |-> begun] \notin UpdateRequests
    BY RequestKinds
  <2>2. QED
    BY <1>1, <1>2, <1>4, <2>1 DEF BeginFeedback, control
<1>5. ASSUME NEW s \in Sessions, LoadExperiment(s)
      PROVE  SplitInv'
  <2>1. [op |-> "load", experiment |-> experiment] \notin UpdateRequests
    BY RequestKinds
  <2>2. QED
    BY <1>1, <1>2, <1>5, <2>1 DEF LoadExperiment, control
<1>6. ASSUME NEW s \in Sessions, NEW t \in Toggles, NEW w \in Routings, Assign(s, t, w),
             w = routing \/ w.weight_a + w.weight_b = 100
      PROVE  SplitInv'
  <2> DEFINE r == [op |-> "update", toggles |-> Changes(req[s].experiment, t),
                   weights |-> Changes(routing, w)]
  <2>1. Paired(Changes(routing, w))
    BY <1>6, SplitsPaired DEF WeightsAddUp, TInv, TypeOK
  <2>2. Paired(r.weights)
    BY <2>1
  <2>3. \A u \in Sessions : req'[u] = IF u = s THEN r ELSE req[u]
    BY <1>6 DEF Assign, TInv, TypeOK
  <2>4. routing' = routing
    BY <1>6 DEF Assign, control
  <2>5. \A u \in Sessions : req'[u] \in UpdateRequests => Paired(req'[u].weights)
    <3> HIDE DEF r
    <3>1. QED
      BY <2>2, <2>3
  <2>6. QED
    BY <2>4, <2>5 DEF WeightsAddUp
<1>7. ASSUME NEW s \in Sessions, Commit(s)
      PROVE  SplitInv'
  <2>1. req[s] \in UpdateRequests
    BY <1>7, RequestKinds DEF Commit, TInv, WellFormed
  <2>2. Paired(req[s].weights) /\ routing' = Updated(routing, req[s].weights)
    BY <1>7, <2>1 DEF Commit
  <2>3. DOMAIN routing = {"weight_a", "weight_b"}
    BY DEF TInv, TypeOK, Routings
  <2>4. WeightsAddUp'
    <3>1. CASE DOMAIN req[s].weights = {}
      BY <2>2, <2>3, <3>1 DEF Updated, WeightsAddUp
    <3>2. CASE DOMAIN req[s].weights # {}
      BY <2>2, <2>3, <3>2 DEF Updated, WeightsAddUp, Paired
    <3>3. QED
      BY <3>1, <3>2
  <2>5. \A t \in Sessions : req'[t] \in UpdateRequests => req'[t] = req[t]
    BY <1>2, <1>3, <1>7 DEF Commit, Finish
  <2>6. QED
    BY <2>4, <2>5
<1>8. ASSUME NEW s \in Sessions, CommitFeedback(s) \/ Undo(s)
      PROVE  SplitInv'
  BY <1>1, <1>2, <1>3, <1>8 DEF CommitFeedback, Undo, Finish, control
<1>9. CASE Restart
  BY <1>1, <1>3, <1>9 DEF Restart, control
<1>10. ASSUME UNCHANGED <<control, req>>
       PROVE  SplitInv'
  BY <1>1, <1>10 DEF control
<1>11. QED
  BY <1>4, <1>5, <1>6, <1>7, <1>8, <1>9, <1>10, AssignShape
     DEF Next, Control, CommitControl, Flush, FlushFeedback, Tick, vars

-----------------------------------------------------------------------------
(* Counters and blocks *)

LEMMA CountsStep ==
  ASSUME TInv, SignalsMatchEvents, BlocksMatchEvents, [Next]_vars
  PROVE  SignalsMatchEvents' /\ BlocksMatchEvents'
<1>1. ASSUME UNCHANGED tables
      PROVE  SignalsMatchEvents' /\ BlocksMatchEvents'
  BY <1>1 DEF tables, SignalsMatchEvents, BlocksMatchEvents
<1>2. ASSUME NEW s \in Sessions, CommitFeedback(s)
      PROVE  SignalsMatchEvents' /\ BlocksMatchEvents'
  <2> DEFINE r == req[s]
             e == <<r.arm, r.kind, r.ingest>>
  <2>1. r \in FeedbackRequests
    BY <1>2, RequestKinds DEF CommitFeedback, TInv, WellFormed
  <2>2. r.arm \in Arms /\ r.kind \in Kinds /\ r.ingest \in BOOLEAN
    BY <2>1 DEF FeedbackRequests
  <2>3. /\ logged \in [Arms \X Kinds \X BOOLEAN -> Nat]
        /\ signals \in [Arms \X Counting -> Nat]
        /\ "BLOCK" \in Kinds /\ "BLOCK" \notin Counting /\ Counting \subseteq Kinds
    BY DEF TInv, TypeOK, Kinds, Counting
  <2>4. \A arm \in Arms, kind \in Kinds, i \in BOOLEAN :
          logged'[<<arm, kind, i>>] =
            IF arm = r.arm /\ kind = r.kind /\ i = r.ingest
            THEN logged[<<arm, kind, i>>] + 1 ELSE logged[<<arm, kind, i>>]
    BY <1>2, <2>3 DEF CommitFeedback
  <2>5. \A arm \in Arms, kind \in Counting :
          signals'[<<arm, kind>>] =
            IF arm = r.arm /\ kind = r.kind /\ r.ingest
            THEN signals[<<arm, kind>>] + 1 ELSE signals[<<arm, kind>>]
    BY <1>2, <2>3 DEF CommitFeedback, Counts
  <2>6. ASSUME NEW arm \in Arms, NEW kind \in Counting
        PROVE  signals'[<<arm, kind>>] = logged'[<<arm, kind, TRUE>>]
    <3>1. signals[<<arm, kind>>] = logged[<<arm, kind, TRUE>>]
      BY DEF SignalsMatchEvents
    <3>2. TRUE \in BOOLEAN /\ kind \in Kinds
      BY <2>3
    <3>3. logged'[<<arm, kind, TRUE>>] =
            IF arm = r.arm /\ kind = r.kind /\ TRUE = r.ingest
            THEN logged[<<arm, kind, TRUE>>] + 1 ELSE logged[<<arm, kind, TRUE>>]
      BY <2>4, <3>2
    <3>4. r.ingest <=> TRUE = r.ingest
      BY <2>2, Zenon
    <3>5. QED
      BY <2>5, <3>1, <3>3, <3>4
  <2>7. blocked' <=> (blocked \/ r.kind = "BLOCK")
    BY <1>2 DEF CommitFeedback, Blocks
  <2>8. ASSUME NEW arm \in Arms, NEW i \in BOOLEAN
        PROVE  logged'[<<arm, "BLOCK", i>>] > 0 <=>
                 logged[<<arm, "BLOCK", i>>] > 0
                   \/ (arm = r.arm /\ r.kind = "BLOCK" /\ i = r.ingest)
    <3>1. logged[<<arm, "BLOCK", i>>] \in Nat
      BY <2>3
    <3>2. QED
      BY <2>3, <2>4, <3>1
  <2>9. BlocksMatchEvents'
    BY <2>2, <2>7, <2>8 DEF BlocksMatchEvents
  <2>10. QED
    BY <2>6, <2>9 DEF SignalsMatchEvents
<1>3. QED
  BY <1>1, <1>2 DEF Next, Control, BeginFeedback, FlushFeedback, CommitControl, Restart, Tick, vars

-----------------------------------------------------------------------------
(* Late signals *)

LEMMA LateStep ==
  ASSUME TInv, LateInv, [Next]_vars
  PROVE  LateInv'
<1> USE DEF LateInv, OneLateSignal
<1> USE DEF TInv
<1>1. /\ late \in [Users -> Nat]
      /\ req \in [Sessions -> LoadRequests \cup UpdateRequests \cup FeedbackRequests
                                \cup {NoRequest}]
      /\ Users \subseteq Sessions
  BY DEF TypeOK, Sessions
\* Steps that put no new feedback under way and count none.
<1>2. ASSUME UNCHANGED <<experiment, late>>,
             \A t \in Sessions : req'[t] \in FeedbackRequests => req'[t] = req[t]
      PROVE  LateInv'
  BY <1>1, <1>2
<1>3. ASSUME NEW s \in Sessions, NEW r, r \notin FeedbackRequests, req' = [req EXCEPT ![s] = r]
      PROVE  \A t \in Sessions : req'[t] \in FeedbackRequests => req'[t] = req[t]
  BY <1>1, <1>3
<1>4. NoRequest \notin FeedbackRequests
  BY RequestKinds
<1>5. ASSUME NEW s \in Sessions, NEW arm \in Arms, NEW kind \in Kinds, NEW begun \in Times,
             BeginFeedback(s, arm, kind, begun)
      PROVE  LateInv'
  <2> DEFINE r == [op |-> "feedback", arm |-> arm, kind |-> kind,
                   ingest |-> experiment.ingest_enabled, at |-> begun]
  <2>1. UNCHANGED <<experiment, late>> /\ req' = [req EXCEPT ![s] = r]
    BY <1>5 DEF BeginFeedback, control
  <2>2. r.ingest = experiment.ingest_enabled
    OBVIOUS
  <2>3. \A t \in Sessions : req'[t] = IF t = s THEN r ELSE req[t]
    BY <1>1, <2>1
  <2> HIDE DEF r
  <2>4. QED
    BY <1>1, <2>1, <2>2, <2>3
<1>6. ASSUME NEW s \in Sessions, NEW r, r \in LoadRequests \cup UpdateRequests,
             UNCHANGED <<experiment, late>>, req' = [req EXCEPT ![s] = r]
      PROVE  LateInv'
  <2>1. r \notin FeedbackRequests
    BY <1>6, RequestKinds
  <2>2. QED
    BY <1>2, <1>3, <1>6, <2>1
<1>7. ASSUME NEW s \in Sessions, LoadExperiment(s), UNCHANGED late
      PROVE  LateInv'
  <2>1. [op |-> "load", experiment |-> experiment] \in LoadRequests
    BY DEF LoadRequests, TypeOK
  <2>2. QED
    BY <1>6, <1>7, <2>1 DEF LoadExperiment, control
<1>8. ASSUME NEW s \in Sessions, NEW t \in Toggles, NEW w \in Routings, Assign(s, t, w),
             UNCHANGED late
      PROVE  LateInv'
  BY <1>6, <1>8, AssignedType DEF Assign, control
<1>9. ASSUME NEW s \in Sessions, CommitControl(s)
      PROVE  LateInv'
  <2>1. \A t \in Sessions : req'[t] \in FeedbackRequests => req'[t] = req[t]
    BY <1>3, <1>4, <1>9 DEF CommitControl, Commit, Finish
  <2>2. CASE experiment'.ingest_enabled
    BY <1>1, <1>9, <2>2 DEF CommitControl
  <2>3. CASE ~experiment'.ingest_enabled
    <3>1. late' = late
      BY <1>9, <2>3 DEF CommitControl
    <3>2. QED
      BY <1>1, <2>1, <2>3, <3>1
  <2>4. QED
    BY <2>2, <2>3
<1>10. ASSUME NEW s \in Sessions, CommitFeedback(s)
       PROVE  LateInv'
  <2>1. req[s] \in FeedbackRequests
    BY <1>10, RequestKinds DEF CommitFeedback, WellFormed
  <2>2. /\ experiment' = experiment
        /\ \A t \in Sessions : req'[t] = IF t = s THEN NoRequest ELSE req[t]
    BY <1>1, <1>10 DEF CommitFeedback, Finish, control
  <2>3. CASE Counts(req[s]) /\ ~experiment.ingest_enabled
    <3>1. req[s].ingest
      BY <2>3 DEF Counts
    <3>2. \A t \in Users : late'[t] = IF t = s THEN late[t] + 1 ELSE late[t]
      BY <1>1, <1>10, <2>3 DEF CommitFeedback
    <3>3. s \in Users => late[s] = 0
      BY <2>1, <3>1
    <3>4. QED
      BY <1>1, <1>4, <2>2, <2>3, <3>2, <3>3
  <2>4. CASE ~(Counts(req[s]) /\ ~experiment.ingest_enabled)
    <3>1. late' = late
      BY <1>10, <2>4 DEF CommitFeedback
    <3>2. QED
      BY <1>2, <1>4, <2>2, <3>1
  <2>5. QED
    BY <2>3, <2>4
<1>11. ASSUME NEW s \in Sessions, Undo(s), UNCHANGED late
       PROVE  LateInv'
  BY <1>2, <1>3, <1>4, <1>11 DEF Undo, Finish, control
<1>12. CASE Restart
  BY <1>2, <1>4, <1>12 DEF Restart, control
<1>13. ASSUME UNCHANGED <<experiment, req, late>>
       PROVE  LateInv'
  BY <1>2, <1>13
<1>14. QED
  BY <1>5, <1>7, <1>8, <1>9, <1>10, <1>11, <1>12, <1>13, AssignShape
     DEF Next, Control, Flush, FlushFeedback, Tick, vars, control

-----------------------------------------------------------------------------
(* The rate limit *)

\* The sets that are counted are finite.
LEMMA FiniteCounts ==
  ASSUME RateInv, NEW T \in SUBSET Times, NEW U \in SUBSET Users
  PROVE  /\ IsFiniteSet(Events(T)) /\ EventsAt(T) \in Nat
         /\ IsFiniteSet(U) /\ Cardinality(U) \in Nat /\ Cardinality(U) <= Cardinality(Users)
         /\ Cardinality(Users) \in Nat
<1>1. Events(T) \subseteq Events(Times)
  BY DEF Events
<1>2. IsFiniteSet(Events(T))
  BY <1>1, FS_Subset DEF RateInv
<1>3. IsFiniteSet(U) /\ Cardinality(U) <= Cardinality(Users)
  BY UsersAssumption, FS_Subset
<1>4. QED
  BY <1>2, <1>3, UsersAssumption, FS_CardinalityType DEF EventsAt

\* An instant of a span that ends no earlier than the request began to wait is counted by it.
LEMMA SpanIsCounted ==
  ASSUME NEW c \in Times, NEW begun \in Times, c - Lag <= begun, NEW t \in Times, begun \in Span(t)
  PROVE  Span(t) \subseteq Counted(c)
<1>1. Lag \in Nat /\ Window \in Nat
  BY FeedbackAssumption
<1>2. t >= begun
  BY DEF Span
<1>3. ASSUME NEW u \in Span(t)
      PROVE  c - Window <= u
  BY <1>1, <1>2, <1>3 DEF Span, Times
<1>4. QED
  BY <1>3 DEF Span, Counted

LEMMA FewerEvents ==
  ASSUME RateInv, NEW T \in SUBSET Times, NEW S \in SUBSET T
  PROVE  EventsAt(S) <= EventsAt(T)
<1>1. Events(S) \subseteq Events(T)
  BY DEF Events
<1>2. IsFiniteSet(Events(T))
  BY FiniteCounts
<1>3. QED
  BY <1>1, <1>2, FS_Subset DEF EventsAt

\* The rate stays bounded where no event is stored and none comes under way.
LEMMA RateStays ==
  ASSUME RateInv, UNCHANGED stamps,
         \A s \in Sessions : req'[s] \in FeedbackRequests => req'[s] = req[s]
  PROVE  RateInv'
<1>1. Users \subseteq Sessions
  BY DEF Sessions
<1>2. \A T : Events(T)' = Events(T) /\ EventsAt(T)' = EventsAt(T)
  BY DEF Events, EventsAt
<1>3. ASSUME NEW t \in Times
      PROVE  EventsAt(Span(t)) + Cardinality(Sending(t)') < Limit + Cardinality(Users)
  <2>1. Sending(t)' \in SUBSET Sending(t) /\ Sending(t) \in SUBSET Users /\ Span(t) \in SUBSET Times
    BY <1>1 DEF Sending, Span
  <2>2. IsFiniteSet(Sending(t)) /\ Cardinality(Sending(t)) \in Nat /\ EventsAt(Span(t)) \in Nat
    BY <2>1, FiniteCounts
  <2>3. Cardinality(Sending(t)') <= Cardinality(Sending(t)) /\ Cardinality(Sending(t)') \in Nat
    BY <2>1, <2>2, FS_Subset, FS_CardinalityType
  <2>4. EventsAt(Span(t)) + Cardinality(Sending(t)) < Limit + Cardinality(Users)
    BY DEF RateInv
  <2>5. Cardinality(Users) \in Nat /\ Limit \in Nat
    BY UsersAssumption, FS_CardinalityType, FeedbackAssumption
  <2>6. QED
    BY <2>2, <2>3, <2>4, <2>5
<1>4. IsFiniteSet(Events(Times))'
  <2>1. Events(Times)' = Events(Times)
    BY <1>2
  <2>2. QED
    BY <2>1 DEF RateInv
<1>5. \A t \in Times : EventsAt(Span(t))' = EventsAt(Span(t))
  BY <1>2 DEF Span
<1>6. QED
  BY <1>3, <1>4, <1>5 DEF RateInv

\* A request that was let through has found fewer events than the limit in its window.
LEMMA BeginRate ==
  ASSUME TInv, RateInv, NEW s \in Sessions, NEW arm \in Arms, NEW kind \in Kinds,
         NEW begun \in Times, BeginFeedback(s, arm, kind, begun)
  PROVE  RateInv'
<1> DEFINE r == [op |-> "feedback", arm |-> arm, kind |-> kind,
                 ingest |-> experiment.ingest_enabled, at |-> begun]
<1>1. /\ s \in Users /\ EventsAt(Counted(clock)) < Limit /\ clock - Lag <= begun
      /\ phase[s] = "idle" /\ req' = [req EXCEPT ![s] = r] /\ UNCHANGED stamps
  BY DEF BeginFeedback, tables
<1>2. \A u \in Sessions : req'[u] = IF u = s THEN r ELSE req[u]
  BY <1>1 DEF TInv, TypeOK
<1>3. r.at = begun
  OBVIOUS
<1> HIDE DEF r
<1>4. req[s] \notin FeedbackRequests /\ Users \subseteq Sessions
  BY <1>1, RequestKinds DEF TInv, WellFormed, Sessions
<1>5. \A T : Events(T)' = Events(T) /\ EventsAt(T)' = EventsAt(T)
  BY <1>1 DEF Events, EventsAt
<1>6. ASSUME NEW t \in Times
      PROVE  EventsAt(Span(t)) + Cardinality(Sending(t)') < Limit + Cardinality(Users)
  <2>1. Sending(t)' \in SUBSET Users /\ Sending(t) \in SUBSET Users /\ Span(t) \in SUBSET Times
    BY DEF Sending, Span
  <2>2. /\ EventsAt(Span(t)) \in Nat /\ Cardinality(Users) \in Nat /\ Limit \in Nat
        /\ Cardinality(Sending(t)') \in Nat /\ Cardinality(Sending(t)') <= Cardinality(Users)
    BY <2>1, FiniteCounts, FeedbackAssumption
  <2>3. CASE begun \in Span(t)
    <3>1. clock \in Times
      BY DEF TInv, TypeOK
    <3>2. Span(t) \in SUBSET Counted(clock) /\ Counted(clock) \in SUBSET Times
      BY <1>1, <2>3, <3>1, SpanIsCounted DEF Counted
    <3>3. EventsAt(Span(t)) <= EventsAt(Counted(clock)) /\ EventsAt(Counted(clock)) \in Nat
      BY <3>2, FewerEvents, FiniteCounts
    <3>4. QED
      BY <1>1, <2>2, <3>3
  <2>4. CASE begun \notin Span(t)
    <3>1. Sending(t)' = Sending(t)
      BY <1>1, <1>2, <1>3, <1>4, <2>4 DEF Sending, Span
    <3>2. QED
      BY <3>1 DEF RateInv
  <2>5. QED
    BY <2>3, <2>4
<1>7. IsFiniteSet(Events(Times))'
  <2>1. Events(Times)' = Events(Times)
    BY <1>5
  <2>2. QED
    BY <2>1 DEF RateInv
<1>8. \A t \in Times : EventsAt(Span(t))' = EventsAt(Span(t))
  BY <1>5 DEF Span
<1>9. QED
  BY <1>1, <1>2, <1>6, <1>7, <1>8 DEF RateInv

\* What a commit adds to the events was counted as under way.
LEMMA CommitRate ==
  ASSUME TInv, RateInv, NEW s \in Sessions, CommitFeedback(s)
  PROVE  RateInv'
<1> DEFINE at == req[s].at
           e == <<at, stamps[at] + 1>>
<1>1. req[s] \in FeedbackRequests /\ s \in Users /\ at \in Times
  BY RequestKinds DEF CommitFeedback, TInv, WellFormed, RateInv, FeedbackRequests
<1>2. stamps \in [Times -> Nat] /\ stamps' = [stamps EXCEPT ![at] = stamps[at] + 1]
  BY DEF CommitFeedback, TInv, TypeOK
<1>3. \A t \in Sessions : req'[t] = IF t = s THEN NoRequest ELSE req[t]
  BY DEF CommitFeedback, Finish, TInv, TypeOK
<1>4. NoRequest \notin FeedbackRequests /\ Users \subseteq Sessions
  BY RequestKinds DEF Sessions
<1>5. ASSUME NEW T \in SUBSET Times
      PROVE  /\ at \notin T => Events(T)' = Events(T)
             /\ Events(T)' \subseteq Events(T) \cup {e}
  <2>1. \A u \in T : stamps'[u] = IF u = at THEN stamps[u] + 1 ELSE stamps[u]
    BY <1>1, <1>2
  <2>2. \A u \in T : stamps[u] \in Nat
    BY <1>2
  <2>3. \A u \in T : {u} \X (1 .. stamps'[u]) \subseteq ({u} \X (1 .. stamps[u])) \cup {e}
    BY <2>1, <2>2
  <2>4. Events(T)' = UNION {{u} \X (1 .. stamps'[u]) : u \in T}
    BY DEF Events
  <2>5. at \notin T => \A u \in T : stamps'[u] = stamps[u]
    BY <2>1
  <2>6. QED
    BY <2>3, <2>4, <2>5 DEF Events
<1>6. ASSUME NEW T \in SUBSET Times
      PROVE  /\ IsFiniteSet(Events(T)')
             /\ Cardinality(Events(T)') \in Nat
             /\ Cardinality(Events(T)') <= EventsAt(T) + IF at \in T THEN 1 ELSE 0
  <2>1. IsFiniteSet(Events(T)) /\ EventsAt(T) \in Nat
    BY FiniteCounts
  <2>2. IsFiniteSet(Events(T) \cup {e}) /\ Cardinality(Events(T) \cup {e}) <= EventsAt(T) + 1
    <3>1. /\ IsFiniteSet(Events(T) \cup {e})
          /\ Cardinality(Events(T) \cup {e}) =
               IF e \in Events(T) THEN Cardinality(Events(T)) ELSE Cardinality(Events(T)) + 1
      BY <2>1, FS_AddElement
    <3> HIDE DEF e
    <3>2. QED
      BY <2>1, <3>1 DEF EventsAt
  <2>3. Events(T)' \in SUBSET (Events(T) \cup {e})
    BY <1>5
  <2>4. /\ IsFiniteSet(Events(T)')
        /\ Cardinality(Events(T)') <= Cardinality(Events(T) \cup {e})
        /\ Cardinality(Events(T)') \in Nat /\ Cardinality(Events(T) \cup {e}) \in Nat
    BY <2>2, <2>3, FS_Subset, FS_CardinalityType
  <2>5. CASE at \in T
    BY <2>1, <2>2, <2>4, <2>5
  <2>6. CASE at \notin T
    BY <1>5, <2>1, <2>4, <2>6 DEF EventsAt
  <2>7. QED
    BY <2>5, <2>6
<1>7. ASSUME NEW t \in Times
      PROVE  EventsAt(Span(t))' + Cardinality(Sending(t)') < Limit + Cardinality(Users)
  <2>1. Sending(t) \in SUBSET Users /\ Span(t) \in SUBSET Times /\ Span(t)' = Span(t)
    BY DEF Sending, Span
  <2>2. /\ EventsAt(Span(t)) \in Nat /\ Cardinality(Users) \in Nat /\ Limit \in Nat
        /\ IsFiniteSet(Sending(t)) /\ Cardinality(Sending(t)) \in Nat
    BY <2>1, FiniteCounts, FeedbackAssumption
  <2>3. Sending(t)' = Sending(t) \ {s}
    BY <1>3, <1>4 DEF Sending, Span
  <2>4. s \in Sending(t) <=> at \in Span(t)
    BY <1>1 DEF Sending
  <2>5. Cardinality(Sending(t)') = Cardinality(Sending(t)) - IF at \in Span(t) THEN 1 ELSE 0
    <3>1. Cardinality(Sending(t) \ {s}) =
            IF s \in Sending(t) THEN Cardinality(Sending(t)) - 1 ELSE Cardinality(Sending(t))
      BY <2>2, FS_RemoveElement
    <3> HIDE DEF at
    <3>2. QED
      BY <2>2, <2>3, <2>4, <3>1
  <2>6. EventsAt(Span(t))' = Cardinality(Events(Span(t))')
    BY DEF EventsAt
  <2>7. /\ EventsAt(Span(t))' \in Nat
        /\ EventsAt(Span(t))' <= EventsAt(Span(t)) + IF at \in Span(t) THEN 1 ELSE 0
    BY <1>6, <2>1, <2>6 DEF Events
  <2>8. EventsAt(Span(t)) + Cardinality(Sending(t)) < Limit + Cardinality(Users)
    BY DEF RateInv
  <2> HIDE DEF at
  <2>9. QED
    BY <2>2, <2>5, <2>7, <2>8
<1>8. IsFiniteSet(Events(Times))'
  BY <1>6 DEF Events
<1>9. QED
  BY <1>3, <1>4, <1>7, <1>8 DEF RateInv

LEMMA RateStep ==
  ASSUME TInv, RateInv, [Next]_vars
  PROVE  RateInv'
<1>1. ASSUME NEW s \in Sessions, NEW r, r \notin FeedbackRequests, req' = [req EXCEPT ![s] = r]
      PROVE  \A t \in Sessions : req'[t] \in FeedbackRequests => req'[t] = req[t]
  BY <1>1 DEF TInv, TypeOK
<1>2. NoRequest \notin FeedbackRequests
  BY RequestKinds
<1>3. ASSUME NEW s \in Sessions, NEW r \in LoadRequests \cup UpdateRequests,
             req' = [req EXCEPT ![s] = r], UNCHANGED stamps
      PROVE  RateInv'
  BY <1>1, <1>3, RequestKinds, RateStays
<1>4. ASSUME NEW s \in Sessions, LoadExperiment(s), UNCHANGED tables
      PROVE  RateInv'
  <2>1. [op |-> "load", experiment |-> experiment] \in LoadRequests
    BY DEF LoadRequests, TInv, TypeOK
  <2>2. QED
    BY <1>3, <1>4, <2>1 DEF LoadExperiment, tables
<1>5. ASSUME NEW s \in Sessions, NEW t \in Toggles, NEW w \in Routings, Assign(s, t, w),
             UNCHANGED tables
      PROVE  RateInv'
  BY <1>3, <1>5, AssignedType DEF Assign, tables
<1>6. ASSUME NEW s \in Sessions, Finish(s), UNCHANGED stamps
      PROVE  RateInv'
  BY <1>1, <1>2, <1>6, RateStays DEF Finish
<1>7. CASE Restart
  BY <1>2, <1>7, RateStays DEF Restart, tables
<1>8. ASSUME UNCHANGED <<req, tables>>
      PROVE  RateInv'
  BY <1>8, RateStays DEF tables
<1>9. QED
  BY <1>4, <1>5, <1>6, <1>7, <1>8, BeginRate, CommitRate, AssignShape
     DEF Next, Control, CommitControl, Commit, Undo, Flush, FlushFeedback, Tick, vars, tables

-----------------------------------------------------------------------------
(* The invariant *)

LEMMA InitIInv == Init => IInv
<1> SUFFICES ASSUME Init
             PROVE  IInv
  OBVIOUS
<1>1. TInv
  BY InitTypes
<1>2. WeightsAddUp
  <2>1. PICK w \in Weights : routing = Split(w)
    BY DEF Init, ControlInit
  <2>2. QED
    BY <2>1, WeightsAssumption, SplitType DEF WeightsAddUp
<1>3. \A s \in Sessions : req[s] = NoRequest
  BY DEF Init, ControlInit
<1>4. NoRequest \notin UpdateRequests /\ NoRequest \notin FeedbackRequests
  BY RequestKinds
<1>5. Users \subseteq Sessions /\ \A s \in Users : late[s] = 0
  BY DEF Sessions, Init
<1>6. SignalsMatchEvents
  BY DEF SignalsMatchEvents, Init, Kinds
<1>7. BlocksMatchEvents
  <2>1. blocked = FALSE /\ logged = [e \in Arms \X Kinds \X BOOLEAN |-> 0]
    BY DEF Init
  <2>2. \A arm \in Arms, i \in BOOLEAN : logged[<<arm, "BLOCK", i>>] = 0
    BY <2>1 DEF Kinds
  <2>3. ~ (0 > 0)
    OBVIOUS
  <2>4. QED
    BY <2>1, <2>2, <2>3 DEF BlocksMatchEvents
<1>8. RateInv
  <2>1. \A T \in SUBSET Times : Events(T) = {}
    BY DEF Init, Events
  <2>2. \A t \in Times : Span(t) \in SUBSET Times /\ Sending(t) = {}
    BY <1>3, <1>4, <1>5 DEF Sending, Span
  <2>3. Cardinality(Users) \in Nat /\ Cardinality(Users) # 0 /\ Limit \in Nat
    BY UsersAssumption, FeedbackAssumption, FS_CardinalityType, FS_EmptySet
  <2>4. \A t \in Times : EventsAt(Span(t)) = 0 /\ Cardinality(Sending(t)) = 0
    BY <2>1, <2>2, FS_EmptySet DEF EventsAt
  <2>5. QED
    BY <1>3, <1>4, <2>1, <2>3, <2>4, FS_EmptySet DEF RateInv
<1>9. QED
  BY <1>1, <1>2, <1>3, <1>4, <1>5, <1>6, <1>7, <1>8 DEF IInv, SplitInv, LateInv, OneLateSignal

LEMMA IInvStep == IInv /\ [Next]_vars => IInv'
  BY TypesStep, SplitStep, CountsStep, LateStep, RateStep DEF IInv

LEMMA Invariance == Spec => []IInv
<1>1. QED
  BY InitIInv, IInvStep, PTL DEF Spec

\* TypeOK is an invariant: every column and every request in flight keeps its
\* type, the partial updates a manager's request carries included.
THEOREM FeedbackTypes == Spec => []TypeOK
  BY Invariance, PTL DEF IInv, TInv

\* Any number of managers may change the split and roll back at the same time:
\* what each of them writes of the two weights keeps their sum.
THEOREM SplitAddsUp == Spec => []WeightsAddUp
  BY Invariance, PTL DEF IInv, SplitInv

\* The counters that feedback_signals shows agree with the event log, for any
\* number of sessions sending feedback while ingest is toggled or rolled back.
THEOREM SignalsAgree == Spec => []SignalsMatchEvents
  BY Invariance, PTL DEF IInv

\* A block is there exactly if a BLOCK event is, with or without ingest.
THEOREM BlocksAgree == Spec => []BlocksMatchEvents
  BY Invariance, PTL DEF IInv

\* After ingest is turned off each session gets at most one signal in.
THEOREM AtMostOneLateSignal == Spec => []OneLateSignal
  BY Invariance, PTL DEF IInv, LateInv

\* However many sessions of a subject send at once, however long each waits for its last
\* request and whatever is undone, the limit is exceeded by at most one event for each further
\* session.
THEOREM RateStaysBounded == Spec => []RateBounded
<1>1. IInv => RateBounded
  <2> SUFFICES ASSUME IInv, NEW t \in Times
               PROVE  EventsAt(Span(t)) < Limit + Cardinality(Users)
    BY DEF RateBounded, Span
  <2>1. Sending(t) \in SUBSET Users /\ Span(t) \in SUBSET Times
    BY DEF Sending, Span
  <2>2. Cardinality(Sending(t)) \in Nat /\ EventsAt(Span(t)) \in Nat /\ Cardinality(Users) \in Nat
    BY <2>1, FiniteCounts DEF IInv
  <2>3. EventsAt(Span(t)) + Cardinality(Sending(t)) < Limit + Cardinality(Users)
    BY DEF IInv, RateInv
  <2>4. QED
    BY <2>2, <2>3, FeedbackAssumption
<1>2. QED
  BY <1>1, Invariance, PTL
=============================================================================
