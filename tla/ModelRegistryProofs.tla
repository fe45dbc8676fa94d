------------------------ MODULE ModelRegistryProofs ------------------------
(***************************************************************************)
(* Proofs about ModelRegistry for any number of sessions, schemas, versions *)
(* and runs.                                                               *)
(***************************************************************************)
EXTENDS ModelRegistry, SequenceTheorems, TLAPS

Requests == RegisterRequests \cup CompleteRequests \cup PromoteRequests \cup {NoRequest}

HasEvaluation(k) == \E n \in DOMAIN runs : /\ runs[n].version = k
                                           /\ runs[n].kind = "EVALUATION"
                                           /\ runs[n].status \in Outcomes

\* What request r of session s relies on once it has come as far as p.
Valid(s, p, r) ==
  /\ p = "loading" => r.op = "promote"
  /\ r.op = "register" => /\ r.no \in 1 .. Len(versions) + 1
                          /\ r.no <= MaxVersions
                          /\ p = "flushed" => r.no = Len(versions) + 1
  /\ r.op = "complete" => r.run \in 1 .. Len(runs)
  /\ r.op = "promote" => /\ s \in Promoters
                         /\ r.version \in 1 .. Len(versions)
                         /\ r.live # NoSchema => live # NoSchema
                         /\ p \in {"read", "flushed"} =>
                              /\ r.live \in {NoSchema, versions[r.version].schema}
                              /\ HasEvaluation(r.version)

RequestsInv == \A s \in Sessions : Valid(s, phase[s], req[s])

\* The unique key admits one insert of the next number at a time.
OneRegistration ==
  \A s, t \in Sessions : /\ phase[s] = "flushed" /\ req[s].op = "register"
                         /\ phase[t] = "flushed" /\ req[t].op = "register"
                         => s = t

Bounded == Len(versions) <= MaxVersions /\ Len(runs) <= MaxRuns

TablesInv == VersionsNumbered /\ LiveIsOfApproved /\ EvaluatedBeforeApproval

IInv == TypeOK /\ Bounded /\ TablesInv /\ RequestsInv /\ OneRegistration

-----------------------------------------------------------------------------
(* The parts of the model *)

LEMMA RequestOps ==
  /\ \A r \in Requests : /\ r.op = "register" => r \in RegisterRequests
                         /\ r.op = "complete" => r \in CompleteRequests
                         /\ r.op = "promote" => r \in PromoteRequests
  /\ NoRequest.op = "none"
BY DEF Requests, RegisterRequests, CompleteRequests, PromoteRequests, NoRequest

LEMMA MaxOfPrefix ==
  ASSUME NEW n \in Nat
  PROVE  Max((1 .. n) \cup {0}) = n
<1>1. (1 .. n) \cup {0} = 0 .. n
  OBVIOUS
<1>2. n \in 0 .. n /\ \A y \in 0 .. n : n >= y
  OBVIOUS
<1>3. \A x \in 0 .. n : (\A y \in 0 .. n : x >= y) => x = n
  OBVIOUS
<1>4. QED
  BY <1>1, <1>2, <1>3 DEF Max

\* The number after the highest is the number of versions plus one.
LEMMA NextNumber ==
  ASSUME TypeOK, VersionsNumbered
  PROVE  NextNo = Len(versions) + 1
<1>1. versions \in Seq(Versions) /\ Len(versions) \in Nat /\ DOMAIN versions = 1 .. Len(versions)
  BY DEF TypeOK
<1>2. Numbers = 1 .. Len(versions)
  BY <1>1 DEF Numbers, VersionsNumbered
<1>3. QED
  BY <1>1, <1>2, MaxOfPrefix DEF NextNo

LEMMA InitHolds == Init => IInv
<1> SUFFICES ASSUME Init PROVE IInv
  OBVIOUS
<1>1. /\ versions = <<>> /\ runs = <<>> /\ Len(versions) = 0 /\ Len(runs) = 0
      /\ DOMAIN versions = {} /\ DOMAIN runs = {}
      /\ versions \in Seq(Versions) /\ runs \in Seq(Runs)
  BY DEF Init
<1>2. TypeOK
  BY <1>1 DEF Init, TypeOK
<1>3. Bounded
  BY <1>1, BoundsAssumption DEF Bounded
<1>4. TablesInv
  BY <1>1 DEF Init, TablesInv, VersionsNumbered, LiveIsOfApproved, EvaluatedBeforeApproval, Approved
<1>5. RequestsInv /\ OneRegistration
  BY DEF Init, RequestsInv, OneRegistration, Valid, NoRequest
<1>6. QED
  BY <1>2, <1>3, <1>4, <1>5 DEF IInv

-----------------------------------------------------------------------------
(* Steps that write no row *)

LEMMA MoveKeeps ==
  ASSUME IInv, NEW s \in Sessions, NEW r \in Requests,
         NEW p \in {"idle", "loading", "read", "flushed"},
         phase' = [phase EXCEPT ![s] = p], req' = [req EXCEPT ![s] = r],
         UNCHANGED tables, Valid(s, p, r),
         p = "flushed" /\ r.op = "register" =>
           \A t \in Sessions \ {s} : ~(phase[t] = "flushed" /\ req[t].op = "register")
  PROVE  IInv'
<1>1. UNCHANGED <<live, versions, runs>>
  BY DEF tables
<1>2. TypeOK'
  BY <1>1 DEF IInv, TypeOK, Requests
<1>3. Bounded' /\ TablesInv'
  BY <1>1 DEF IInv, Bounded, TablesInv, VersionsNumbered, LiveIsOfApproved,
              EvaluatedBeforeApproval, Approved
<1>4. \A t \in Sessions : /\ phase'[t] = IF t = s THEN p ELSE phase[t]
                          /\ req'[t] = IF t = s THEN r ELSE req[t]
  BY DEF IInv, TypeOK
<1>5. RequestsInv'
  <2> SUFFICES ASSUME NEW t \in Sessions
               PROVE  Valid(t, phase[t], req[t])'
    BY DEF RequestsInv
  <2>1. Valid(t, phase'[t], req'[t])
    BY <1>4 DEF IInv, RequestsInv
  <2>2. QED
    BY <1>1, <2>1 DEF Valid, HasEvaluation
<1>6. OneRegistration'
  BY <1>4 DEF IInv, OneRegistration
<1>7. QED
  BY <1>2, <1>3, <1>5, <1>6 DEF IInv

LEMMA FinishKeeps ==
  ASSUME IInv, NEW s \in Sessions, Undo(s)
  PROVE  IInv'
BY MoveKeeps, RequestOps DEF Undo, Finish, Valid, Requests

LEMMA BeginKeeps ==
  ASSUME IInv, NEW s \in Sessions,
         \/ \E schema \in Schemas : BeginRegister(s, schema)
         \/ \E n \in DOMAIN runs, outcome \in Outcomes : BeginComplete(s, n, outcome)
         \/ \E k \in DOMAIN versions : LoadModel(s, k)
  PROVE  IInv'
<1>0. /\ Len(versions) \in Nat /\ DOMAIN versions = 1 .. Len(versions)
      /\ Len(runs) \in Nat /\ DOMAIN runs = 1 .. Len(runs)
      /\ Len(versions) <= MaxVersions /\ Len(runs) <= MaxRuns
      /\ MaxVersions \in Nat /\ MaxRuns \in Nat
      /\ live \in Schemas \cup {NoSchema}
  BY BoundsAssumption DEF IInv, TypeOK, Bounded
<1>1. ASSUME NEW schema \in Schemas, BeginRegister(s, schema)
      PROVE  IInv'
  <2> DEFINE r == [op |-> "register", no |-> NextNo, schema |-> schema]
  <2>1. NextNo = Len(versions) + 1 /\ Len(versions) < MaxVersions
    BY <1>1, NextNumber DEF IInv, TablesInv, BeginRegister
  <2>2. r \in RegisterRequests /\ r.op = "register" /\ r.no = NextNo
    BY <1>0, <2>1 DEF RegisterRequests
  <2>3. Valid(s, "read", r)
    BY <1>0, <2>1, <2>2 DEF Valid
  <2>4. QED
    BY <1>1, <2>2, <2>3, MoveKeeps DEF BeginRegister, Begin, Requests
<1>2. ASSUME NEW n \in DOMAIN runs, NEW outcome \in Outcomes, BeginComplete(s, n, outcome)
      PROVE  IInv'
  <2> DEFINE r == [op |-> "complete", run |-> n, outcome |-> outcome]
  <2>1. r \in CompleteRequests /\ r.op = "complete" /\ r.run = n
    BY <1>0 DEF CompleteRequests
  <2>2. Valid(s, "read", r)
    BY <1>0, <2>1 DEF Valid
  <2>3. QED
    BY <1>2, <2>1, <2>2, MoveKeeps DEF BeginComplete, Begin, Requests
<1>3. ASSUME NEW k \in DOMAIN versions, LoadModel(s, k)
      PROVE  IInv'
  <2> DEFINE r == [op |-> "promote", version |-> k, live |-> live]
  <2>1. r \in PromoteRequests /\ r.op = "promote" /\ r.version = k /\ r.live = live
    BY <1>0 DEF PromoteRequests
  <2>2. Valid(s, "loading", r)
    BY <1>0, <1>3, <2>1 DEF Valid, LoadModel
  <2>3. QED
    BY <1>3, <2>1, <2>2, MoveKeeps DEF LoadModel, Begin, Requests
<1>4. QED
  BY <1>1, <1>2, <1>3

LEMMA FlushKeeps ==
  ASSUME IInv, NEW s \in Sessions,
         FlushRegister(s) \/ FlushComplete(s) \/ FlushPromote(s)
  PROVE  IInv'
<1>1. /\ phase[s] = "read" /\ phase' = [phase EXCEPT ![s] = "flushed"]
      /\ req' = [req EXCEPT ![s] = req[s]] /\ UNCHANGED tables
      /\ req[s] \in Requests
  BY DEF IInv, TypeOK, Requests, Flush, FlushRegister, FlushComplete, FlushPromote, tables
<1>2. Valid(s, "read", req[s])
  BY <1>1 DEF IInv, RequestsInv
<1>3. /\ Len(versions) \in Nat /\ DOMAIN versions = 1 .. Len(versions)
      /\ Numbers = 1 .. Len(versions)
  BY DEF IInv, TypeOK, TablesInv, VersionsNumbered, Numbers
<1>4. CASE req[s].op = "register"
  <2>1. /\ req[s].no = Len(versions) + 1
        /\ \A t \in Writing(s, "register") : req[t].no # req[s].no
    BY <1>2, <1>3, <1>4 DEF FlushRegister, FlushComplete, FlushPromote, FreeNumber, Valid
  <2>2. \A t \in Sessions \ {s} : ~(phase[t] = "flushed" /\ req[t].op = "register")
    BY <2>1 DEF Writing, IInv, RequestsInv, Valid
  <2>3. Valid(s, "flushed", req[s])
    BY <1>2, <1>4, <2>1 DEF Valid
  <2>4. QED
    BY <1>1, <2>2, <2>3, MoveKeeps
<1>5. CASE req[s].op # "register"
  <2>1. Valid(s, "flushed", req[s])
    BY <1>2, <1>5 DEF Valid
  <2>2. QED
    BY <1>1, <1>5, <2>1, MoveKeeps
<1>6. QED
  BY <1>4, <1>5

LEMMA GateKeeps ==
  ASSUME IInv, NEW s \in Sessions, PassGate(s)
  PROVE  IInv'
<1>1. /\ phase[s] = "loading" /\ phase' = [phase EXCEPT ![s] = "read"]
      /\ req' = [req EXCEPT ![s] = req[s]] /\ UNCHANGED tables
      /\ req[s] \in Requests
  BY DEF IInv, TypeOK, Requests, PassGate, tables
<1>2. Valid(s, "loading", req[s])
  BY <1>1 DEF IInv, RequestsInv
<1>3. HasEvaluation(req[s].version)
  BY DEF PassGate, Evaluated, HasEvaluation, Outcomes
<1>4. req[s].live \in {NoSchema, versions[req[s].version].schema}
  BY DEF PassGate
<1>5. Valid(s, "read", req[s])
  BY <1>2, <1>3, <1>4 DEF Valid
<1>6. QED
  BY <1>1, <1>5, MoveKeeps

-----------------------------------------------------------------------------
(* Steps that write a row *)

\* A commit changes one request and the tables; what the other requests rely on
\* has to survive the change.
LEMMA CommitKeeps ==
  ASSUME IInv, NEW s \in Sessions, Finish(s),
         \A t \in Sessions \ {s} : Valid(t, phase[t], req[t])'
  PROVE  RequestsInv' /\ OneRegistration'
<1>1. \A t \in Sessions : /\ phase'[t] = IF t = s THEN "idle" ELSE phase[t]
                          /\ req'[t] = IF t = s THEN NoRequest ELSE req[t]
  BY DEF IInv, TypeOK, Finish
<1>2. Valid(s, phase[s], req[s])'
  BY <1>1, RequestOps DEF Valid
<1>3. RequestsInv'
  BY <1>2 DEF RequestsInv
<1>4. OneRegistration'
  BY <1>1 DEF IInv, OneRegistration
<1>5. QED
  BY <1>3, <1>4

LEMMA FinishTypes ==
  ASSUME IInv, NEW s \in Sessions, Finish(s)
  PROVE  /\ phase' \in [Sessions -> {"idle", "loading", "read", "flushed"}]
         /\ req' \in [Sessions -> Requests]
         /\ \A t \in Sessions \ {s} : phase'[t] = phase[t] /\ req'[t] = req[t]
BY DEF IInv, TypeOK, Finish, Requests

\* What a registration writes.
LEMMA RegistrationWrites ==
  ASSUME IInv, NEW s \in Sessions, CommitRegister(s)
  PROVE  /\ Len(versions) + 1 <= MaxVersions
         /\ versions' \in Seq(Versions) /\ Len(versions') = Len(versions) + 1
         /\ \A k \in 1 .. Len(versions) : versions'[k] = versions[k]
         /\ versions'[Len(versions) + 1].no = Len(versions) + 1
         /\ UNCHANGED <<live, runs>> /\ Finish(s)
         /\ Approved' = Approved /\ \A k \in Approved : versions'[k] = versions[k]
<1> DEFINE v == [no |-> req[s].no, schema |-> req[s].schema, status |-> "DRAFT"]
<1>0. /\ Len(versions) \in Nat /\ DOMAIN versions = 1 .. Len(versions)
      /\ versions \in Seq(Versions) /\ MaxVersions \in Nat
  BY BoundsAssumption DEF IInv, TypeOK
<1>1. req[s] \in RegisterRequests /\ Valid(s, "flushed", req[s])
  BY RequestOps DEF IInv, TypeOK, Requests, RequestsInv, CommitRegister
<1>2. req[s].no = Len(versions) + 1 /\ Len(versions) + 1 <= MaxVersions
  BY <1>1 DEF Valid, CommitRegister
<1>3. v \in Versions /\ v.no = Len(versions) + 1 /\ v.status = "DRAFT"
  BY <1>1, <1>2 DEF Versions, RegisterRequests
<1>4. /\ versions' \in Seq(Versions) /\ Len(versions') = Len(versions) + 1
      /\ \A k \in 1 .. Len(versions) : versions'[k] = versions[k]
      /\ versions'[Len(versions) + 1] = v
      /\ DOMAIN versions' = 1 .. Len(versions) + 1
  BY <1>0, <1>3, AppendProperties DEF CommitRegister
<1>5. UNCHANGED <<live, runs>> /\ Finish(s)
  BY DEF CommitRegister
<1>6. Approved' = Approved /\ \A k \in Approved : versions'[k] = versions[k]
  BY <1>0, <1>3, <1>4 DEF Approved
<1>7. QED
  BY <1>2, <1>3, <1>4, <1>5, <1>6

LEMMA CommitRegisterKeeps ==
  ASSUME IInv, NEW s \in Sessions, CommitRegister(s)
  PROVE  IInv'
<1>0. /\ Len(versions) \in Nat /\ DOMAIN versions = 1 .. Len(versions)
      /\ versions \in Seq(Versions) /\ MaxVersions \in Nat
  BY BoundsAssumption DEF IInv, TypeOK
<1>3. versions'[Len(versions) + 1].no = Len(versions) + 1
  BY RegistrationWrites
<1>4. /\ versions' \in Seq(Versions) /\ Len(versions') = Len(versions) + 1
      /\ \A k \in 1 .. Len(versions) : versions'[k] = versions[k]
      /\ DOMAIN versions' = 1 .. Len(versions) + 1
  BY RegistrationWrites
<1>5. UNCHANGED <<live, runs>> /\ Finish(s)
  BY RegistrationWrites
<1>6. TypeOK'
  BY <1>4, <1>5, FinishTypes DEF IInv, TypeOK, Requests
<1>7. Bounded'
  BY <1>4, <1>5, RegistrationWrites DEF IInv, Bounded
<1>8. Approved' = Approved /\ \A k \in Approved : versions'[k] = versions[k]
  BY RegistrationWrites
<1>9. TablesInv'
  <2>1. VersionsNumbered'
    BY <1>0, <1>3, <1>4 DEF IInv, TablesInv, VersionsNumbered
  <2>2. LiveIsOfApproved' /\ EvaluatedBeforeApproval'
    BY <1>5, <1>8 DEF IInv, TablesInv, LiveIsOfApproved, EvaluatedBeforeApproval
  <2>3. QED
    BY <2>1, <2>2 DEF TablesInv
<1>10. ASSUME NEW t \in Sessions \ {s}
       PROVE  Valid(t, phase[t], req[t])'
  <2>1. Valid(t, phase[t], req[t]) /\ phase'[t] = phase[t] /\ req'[t] = req[t]
    BY <1>5, <1>10, FinishTypes DEF IInv, RequestsInv
  <2>2. ~(phase[t] = "flushed" /\ req[t].op = "register")
    BY <1>10 DEF IInv, OneRegistration, CommitRegister
  <2>3. HasEvaluation(req[t].version) => HasEvaluation(req[t].version)'
    BY <1>5, <2>1 DEF HasEvaluation
  <2>4. req[t].op = "promote" => versions'[req[t].version] = versions[req[t].version]
    BY <1>4, <2>1 DEF Valid
  <2>5. QED
    BY <1>0, <1>4, <1>5, <2>1, <2>2, <2>3, <2>4 DEF Valid
<1>11. QED
  BY <1>5, <1>6, <1>7, <1>9, <1>10, CommitKeeps DEF IInv

LEMMA CommitCompleteKeeps ==
  ASSUME IInv, NEW s \in Sessions, CommitComplete(s)
  PROVE  IInv'
<1> DEFINE n == req[s].run
           e == [runs[n] EXCEPT !.status = req[s].outcome]
<1>0. /\ Len(runs) \in Nat /\ DOMAIN runs = 1 .. Len(runs) /\ runs \in Seq(Runs)
  BY DEF IInv, TypeOK
<1>1. req[s] \in CompleteRequests /\ Valid(s, "flushed", req[s])
  BY RequestOps DEF IInv, TypeOK, Requests, RequestsInv, CommitComplete
<1>2. n \in 1 .. Len(runs) /\ req[s].outcome \in Outcomes
  BY <1>1 DEF Valid, CommitComplete, CompleteRequests
<1>3. /\ e \in Runs /\ e.status \in Outcomes
      /\ e.version = runs[n].version /\ e.kind = runs[n].kind
  <2>1. runs[n] \in Runs
    BY <1>0, <1>2
  <2>2. QED
    BY <1>2, <2>1 DEF Runs
<1>4. /\ runs' \in Seq(Runs) /\ Len(runs') = Len(runs) /\ DOMAIN runs' = DOMAIN runs
      /\ \A k \in DOMAIN runs : runs'[k] = IF k = n THEN e ELSE runs[k]
  <2>1. runs' = [runs EXCEPT ![n] = e]
    BY DEF CommitComplete
  <2>2. QED
    BY <1>0, <1>2, <1>3, <2>1, ExceptSeq
<1>5. UNCHANGED <<live, versions>> /\ Finish(s)
  BY DEF CommitComplete
<1>6. TypeOK'
  BY <1>4, <1>5, FinishTypes DEF IInv, TypeOK, Requests
<1>7. Bounded'
  BY <1>4, <1>5 DEF IInv, Bounded
<1>8. ASSUME NEW k, HasEvaluation(k)
      PROVE  HasEvaluation(k)'
  <2>1. PICK m \in DOMAIN runs : runs[m].version = k /\ runs[m].kind = "EVALUATION"
                                 /\ runs[m].status \in Outcomes
    BY <1>8 DEF HasEvaluation
  <2>2. /\ m \in DOMAIN runs' /\ runs'[m].version = k /\ runs'[m].kind = "EVALUATION"
        /\ runs'[m].status \in Outcomes
    BY <1>3, <1>4, <2>1
  <2>3. QED
    BY <2>2 DEF HasEvaluation
<1>9. TablesInv'
  BY <1>5, <1>8 DEF IInv, TablesInv, VersionsNumbered, LiveIsOfApproved,
                    EvaluatedBeforeApproval, Approved, HasEvaluation
<1>10. ASSUME NEW t \in Sessions \ {s}
       PROVE  Valid(t, phase[t], req[t])'
  <2>1. Valid(t, phase[t], req[t]) /\ phase'[t] = phase[t] /\ req'[t] = req[t]
    BY <1>5, <1>10, FinishTypes DEF IInv, RequestsInv
  <2>2. HasEvaluation(req[t].version) => HasEvaluation(req[t].version)'
    BY <1>8, <2>1 DEF HasEvaluation
  <2>3. QED
    BY <1>4, <1>5, <2>1, <2>2 DEF Valid
<1>11. QED
  BY <1>5, <1>6, <1>7, <1>9, <1>10, CommitKeeps DEF IInv

LEMMA StartRunKeeps ==
  ASSUME IInv, NEW s \in Sessions, NEW k \in DOMAIN versions, NEW kind \in Kinds,
         StartRun(s, k, kind)
  PROVE  IInv'
<1> DEFINE e == [version |-> k, kind |-> kind, status |-> "RUNNING"]
<1>0. /\ Len(runs) \in Nat /\ DOMAIN runs = 1 .. Len(runs) /\ runs \in Seq(Runs)
      /\ Len(runs) < MaxRuns /\ MaxRuns \in Nat
  BY BoundsAssumption DEF IInv, TypeOK, StartRun
<1>1. e \in Runs
  BY BoundsAssumption DEF IInv, TypeOK, Bounded, Runs
<1>2. /\ runs' \in Seq(Runs) /\ Len(runs') = Len(runs) + 1
      /\ \A n \in DOMAIN runs : n \in DOMAIN runs' /\ runs'[n] = runs[n]
  BY <1>0, <1>1, AppendProperties DEF StartRun
<1>3. UNCHANGED <<live, versions, phase, req>>
  BY DEF StartRun
<1>4. TypeOK'
  BY <1>2, <1>3 DEF IInv, TypeOK
<1>5. Bounded'
  BY <1>0, <1>2, <1>3 DEF IInv, Bounded
<1>6. \A v : HasEvaluation(v) => HasEvaluation(v)'
  BY <1>2 DEF HasEvaluation
<1>7. TablesInv'
  BY <1>3, <1>6 DEF IInv, TablesInv, VersionsNumbered, LiveIsOfApproved,
                    EvaluatedBeforeApproval, Approved, HasEvaluation
<1>8. RequestsInv'
  <2> SUFFICES ASSUME NEW t \in Sessions
               PROVE  Valid(t, phase[t], req[t])'
    BY DEF RequestsInv
  <2>1. Valid(t, phase[t], req[t]) /\ phase'[t] = phase[t] /\ req'[t] = req[t]
    BY <1>3 DEF IInv, RequestsInv
  <2>2. HasEvaluation(req[t].version) => HasEvaluation(req[t].version)'
    BY <1>6, <2>1 DEF HasEvaluation
  <2>3. QED
    BY <1>0, <1>2, <1>3, <2>1, <2>2 DEF Valid
<1>9. OneRegistration'
  BY <1>3 DEF IInv, OneRegistration
<1>10. QED
  BY <1>4, <1>5, <1>7, <1>8, <1>9 DEF IInv

\* What a promotion writes.
LEMMA PromotionWrites ==
  ASSUME IInv, NEW s \in Sessions, CommitPromote(s)
  PROVE  LET k == req[s].version IN
         /\ k \in 1 .. Len(versions) /\ HasEvaluation(k)
         /\ req[s] \in PromoteRequests /\ Valid(s, "flushed", req[s])
         /\ versions[k].schema \in Schemas
         /\ versions' \in Seq(Versions) /\ Len(versions') = Len(versions)
         /\ \A j \in DOMAIN versions : /\ versions'[j].schema = versions[j].schema
                                       /\ versions'[j].no = versions[j].no
         /\ Approved' = Approved \cup {k}
         /\ UNCHANGED runs /\ Finish(s)
         /\ live' = IF Pins(req[s]) THEN versions[k].schema ELSE live
<1> DEFINE k == req[s].version
           e == [versions[k] EXCEPT !.status = "APPROVED"]
<1>0. /\ Len(versions) \in Nat /\ DOMAIN versions = 1 .. Len(versions)
      /\ versions \in Seq(Versions)
  BY DEF IInv, TypeOK
<1>1. req[s] \in PromoteRequests /\ Valid(s, "flushed", req[s])
  BY RequestOps DEF IInv, TypeOK, Requests, RequestsInv, CommitPromote
<1>2. /\ k \in 1 .. Len(versions) /\ HasEvaluation(k)
      /\ req[s].live # NoSchema => live # NoSchema
  BY <1>1 DEF Valid, CommitPromote
<1>3. /\ e \in Versions /\ e.status = "APPROVED" /\ e.no = versions[k].no
      /\ e.schema = versions[k].schema /\ versions[k].schema \in Schemas
  <2>1. versions[k] \in Versions
    BY <1>0, <1>2
  <2>2. QED
    BY <2>1 DEF Versions
<1>4. /\ versions' \in Seq(Versions) /\ Len(versions') = Len(versions)
      /\ DOMAIN versions' = DOMAIN versions
      /\ \A j \in DOMAIN versions : versions'[j] = IF j = k THEN e ELSE versions[j]
  <2>1. versions' = [versions EXCEPT ![k] = e]
    BY DEF CommitPromote
  <2>2. QED
    BY <1>0, <1>2, <1>3, <2>1, ExceptSeq
<1>5. UNCHANGED runs /\ Finish(s) /\ live' = IF Pins(req[s]) THEN versions[k].schema ELSE live
  BY DEF CommitPromote
<1>6. \A j \in DOMAIN versions : /\ versions'[j].schema = versions[j].schema
                                 /\ versions'[j].no = versions[j].no
  BY <1>3, <1>4
<1>7. Approved' = Approved \cup {k}
  <2>1. \A j \in DOMAIN versions :
          versions'[j].status = "APPROVED" <=> j = k \/ versions[j].status = "APPROVED"
    BY <1>3, <1>4
  <2>2. Approved' = {j \in DOMAIN versions : versions'[j].status = "APPROVED"}
    BY <1>4 DEF Approved
  <2>3. QED
    BY <1>0, <1>2, <2>1, <2>2 DEF Approved
<1>8. QED
  BY <1>1, <1>2, <1>3, <1>4, <1>5, <1>6, <1>7

LEMMA CommitPromoteKeeps ==
  ASSUME IInv, NEW s \in Sessions, CommitPromote(s)
  PROVE  IInv'
<1> DEFINE k == req[s].version
<1>0. /\ Len(versions) \in Nat /\ DOMAIN versions = 1 .. Len(versions)
      /\ versions \in Seq(Versions)
  BY DEF IInv, TypeOK
<1>1. /\ k \in 1 .. Len(versions) /\ HasEvaluation(k)
      /\ versions[k].schema \in Schemas
      /\ versions' \in Seq(Versions) /\ Len(versions') = Len(versions)
      /\ DOMAIN versions' = DOMAIN versions
  BY PromotionWrites
<1>2. req[s].live # NoSchema => live # NoSchema
  BY PromotionWrites DEF Valid, CommitPromote
<1>5. UNCHANGED runs /\ Finish(s) /\ live' = IF Pins(req[s]) THEN versions[k].schema ELSE live
  BY PromotionWrites
<1>6. TypeOK'
  BY <1>1, <1>5, FinishTypes DEF IInv, TypeOK, Requests
<1>7. Bounded'
  BY <1>1, <1>5 DEF IInv, Bounded
<1>8. \A j \in DOMAIN versions : /\ versions'[j].schema = versions[j].schema
                                 /\ versions'[j].no = versions[j].no
  BY PromotionWrites
<1>9. Approved' = Approved \cup {k}
  BY PromotionWrites
<1>10. live' # NoSchema /\ (live # NoSchema => live' # NoSchema)
  BY <1>1, <1>2, <1>5, SchemasAssumption DEF Pins
<1>11. TablesInv'
  <2>1. VersionsNumbered'
    BY <1>1, <1>8 DEF IInv, TablesInv, VersionsNumbered
  <2>2. LiveIsOfApproved'
    <3>1. {versions[j].schema : j \in Approved} \subseteq {versions'[j].schema : j \in Approved'}
      BY <1>8, <1>9 DEF Approved
    <3>2. versions[k].schema \in {versions'[j].schema : j \in Approved'}
      BY <1>0, <1>1, <1>8, <1>9
    <3>3. CASE Pins(req[s])
      BY <1>5, <1>10, <3>2, <3>3 DEF LiveIsOfApproved
    <3>4. CASE ~Pins(req[s])
      BY <1>2, <1>5, <1>10, <3>1, <3>4 DEF LiveIsOfApproved, IInv, TablesInv, Pins
    <3>5. QED
      BY <3>3, <3>4
  <2>3. EvaluatedBeforeApproval'
    BY <1>1, <1>5, <1>9 DEF IInv, TablesInv, EvaluatedBeforeApproval, HasEvaluation
  <2>4. QED
    BY <2>1, <2>2, <2>3 DEF TablesInv
<1>12. ASSUME NEW t \in Sessions \ {s}
       PROVE  Valid(t, phase[t], req[t])'
  <2>1. Valid(t, phase[t], req[t]) /\ phase'[t] = phase[t] /\ req'[t] = req[t]
    BY <1>5, <1>12, FinishTypes DEF IInv, RequestsInv
  <2>2. HasEvaluation(req[t].version) => HasEvaluation(req[t].version)'
    BY <1>5, <2>1 DEF HasEvaluation
  <2>3. req[t].op = "promote" => versions'[req[t].version].schema = versions[req[t].version].schema
    BY <1>0, <1>8, <2>1 DEF Valid
  <2>4. QED
    BY <1>1, <1>5, <1>10, <2>1, <2>2, <2>3 DEF Valid
<1>13. QED
  BY <1>5, <1>6, <1>7, <1>11, <1>12, CommitKeeps DEF IInv

LEMMA RestartKeeps ==
  ASSUME IInv, Restart
  PROVE  IInv'
<1>1. \A t \in Sessions : phase'[t] = "idle" /\ req'[t] = NoRequest
  BY DEF Restart
<1>2. UNCHANGED <<live, versions, runs>>
  BY DEF Restart, tables
<1>3. TypeOK'
  BY <1>2 DEF IInv, TypeOK, Restart
<1>4. Bounded' /\ TablesInv'
  BY <1>2 DEF IInv, Bounded, TablesInv, VersionsNumbered, LiveIsOfApproved,
              EvaluatedBeforeApproval, Approved
<1>5. RequestsInv' /\ OneRegistration'
  BY <1>1, RequestOps DEF RequestsInv, OneRegistration, Valid
<1>6. QED
  BY <1>3, <1>4, <1>5 DEF IInv

LEMMA StepKeeps ==
  ASSUME IInv, [Next]_vars
  PROVE  IInv'
<1>1. CASE UNCHANGED vars
  BY <1>1 DEF vars, tables, IInv, TypeOK, Bounded, TablesInv, VersionsNumbered, LiveIsOfApproved,
              EvaluatedBeforeApproval, Approved, RequestsInv, OneRegistration, Valid, HasEvaluation
<1>2. CASE Restart
  BY <1>2, RestartKeeps
<1>3. ASSUME NEW s \in Sessions, NEW k \in DOMAIN versions, NEW kind \in Kinds,
             StartRun(s, k, kind)
      PROVE  IInv'
  BY <1>3, StartRunKeeps
<1>4. QED
  BY <1>1, <1>2, <1>3, BeginKeeps, FlushKeeps, GateKeeps, FinishKeeps,
     CommitRegisterKeeps, CommitCompleteKeeps, CommitPromoteKeeps
  DEF Next

-----------------------------------------------------------------------------
(* Results *)

LEMMA Invariance == Spec => []IInv
BY InitHolds, StepKeeps, PTL DEF Spec

\* Every variable keeps its type.
THEOREM RegistryTypes == Spec => []TypeOK
<1>1. IInv => TypeOK
  BY DEF IInv
<1>2. QED
  BY <1>1, Invariance, PTL

\* The versions of a model are numbered from 1 without gap or repetition, however
\* many registrations race and fail (register_version).
THEOREM NumbersHaveNoGaps == Spec => []VersionsNumbered
<1>1. IInv => VersionsNumbered
  BY DEF IInv, TablesInv
<1>2. QED
  BY <1>1, Invariance, PTL

\* The live schema belongs to an approved version, however many promotions race
\* (promote_version).
THEOREM LiveSchemaIsServed == Spec => []LiveIsOfApproved
<1>1. IInv => LiveIsOfApproved
  BY DEF IInv, TablesInv
<1>2. QED
  BY <1>1, Invariance, PTL

\* No version is approved without a completed evaluation run (promote_version).
THEOREM ApprovalNeedsEvaluation == Spec => []EvaluatedBeforeApproval
<1>1. IInv => EvaluatedBeforeApproval
  BY DEF IInv, TablesInv
<1>2. QED
  BY <1>1, Invariance, PTL

-----------------------------------------------------------------------------
(* A single promoter *)

\* Nobody but the promoter changes the live schema, so it is still the one read.
SingleInv == /\ ApprovedMatchLive
             /\ \A s \in Sessions : req[s].op = "promote" => req[s].live = live

LEMMA SingleStep ==
  ASSUME \A s, t \in Promoters : s = t, IInv, SingleInv, [Next]_vars
  PROVE  SingleInv'
<1>0. /\ \A s \in Sessions : req[s].op = "promote" => s \in Promoters
      /\ DOMAIN versions = 1 .. Len(versions) /\ versions \in Seq(Versions) /\ Len(versions) \in Nat
      /\ req \in [Sessions -> Requests]
  BY DEF IInv, RequestsInv, Valid, TypeOK, Requests
<1>1. ASSUME UNCHANGED <<live, versions>>,
             \A t \in Sessions : \/ req'[t] = req[t]
                                \/ req'[t].op # "promote"
                                \/ req'[t].live = live
      PROVE  SingleInv'
  BY <1>1 DEF SingleInv, ApprovedMatchLive, Approved
<1>2. CASE UNCHANGED vars \/ Restart
  BY <1>1, <1>2, RequestOps DEF vars, tables, Restart
<1>3. ASSUME NEW s \in Sessions,
             \/ \E schema \in Schemas : BeginRegister(s, schema)
             \/ \E n \in DOMAIN runs, outcome \in Outcomes : BeginComplete(s, n, outcome)
             \/ \E k \in DOMAIN versions : LoadModel(s, k)
      PROVE  SingleInv'
  BY <1>0, <1>1, <1>3 DEF BeginRegister, BeginComplete, LoadModel, Begin, tables
<1>4. ASSUME NEW s \in Sessions,
             \/ \E k \in DOMAIN versions, kind \in Kinds : StartRun(s, k, kind)
             \/ FlushRegister(s) \/ FlushComplete(s) \/ FlushPromote(s) \/ PassGate(s)
      PROVE  SingleInv'
  BY <1>1, <1>4 DEF StartRun, FlushRegister, FlushComplete, FlushPromote, PassGate, Flush, tables
<1>5. ASSUME NEW s \in Sessions, Undo(s) \/ CommitComplete(s)
      PROVE  SingleInv'
  BY <1>0, <1>1, <1>5, RequestOps DEF Undo, CommitComplete, Finish, tables
<1>6. ASSUME NEW s \in Sessions, CommitRegister(s)
      PROVE  SingleInv'
  <2>1. UNCHANGED live /\ Finish(s)
    BY <1>6 DEF CommitRegister
  <2>2. Approved' = Approved /\ \A k \in Approved : versions'[k] = versions[k]
    BY <1>6, RegistrationWrites
  <2>3. ApprovedMatchLive'
    BY <2>1, <2>2 DEF SingleInv, ApprovedMatchLive
  <2>4. QED
    BY <1>0, <2>1, <2>3, RequestOps DEF SingleInv, Finish
<1>7. ASSUME NEW s \in Sessions, CommitPromote(s)
      PROVE  SingleInv'
  <2> DEFINE k == req[s].version
  <2>1. /\ Approved' = Approved \cup {k} /\ Finish(s)
        /\ \A j \in DOMAIN versions : versions'[j].schema = versions[j].schema
        /\ live' = IF Pins(req[s]) THEN versions[k].schema ELSE live
        /\ Approved \subseteq DOMAIN versions /\ k \in DOMAIN versions
    BY <1>0, <1>7, PromotionWrites DEF Approved
  <2>2. req[s].live = live /\ live \in {NoSchema, versions[k].schema} /\ s \in Promoters
    BY <1>0, <1>7, PromotionWrites DEF SingleInv, CommitPromote, Valid
  <2>3. live = NoSchema => Approved = {}
    BY DEF IInv, TablesInv, LiveIsOfApproved
  <2>4. live' = versions[k].schema /\ \A j \in Approved : versions[j].schema = live'
    BY <2>1, <2>2, <2>3 DEF Pins, SingleInv, ApprovedMatchLive
  <2>5. ApprovedMatchLive'
    BY <2>1, <2>4 DEF ApprovedMatchLive
  <2>6. \A t \in Sessions : req'[t].op # "promote"
    BY <1>0, <2>1, <2>2, RequestOps DEF Finish
  <2>7. QED
    BY <2>5, <2>6 DEF SingleInv
<1>8. QED
  BY <1>2, <1>3, <1>4, <1>5, <1>6, <1>7 DEF Next

\* The race of two promotions is the only way to approve versions of different
\* schemas: with one promoter session, the first promotion pins the schema for all
\* that follow (promote_version).
THEOREM OnePromoterPins ==
  ASSUME \A s, t \in Promoters : s = t
  PROVE  Spec => []ApprovedMatchLive
<1>1. Init => SingleInv
  BY DEF Init, SingleInv, ApprovedMatchLive, Approved, NoRequest
<1>2. IInv /\ SingleInv /\ [Next]_vars => SingleInv'
  BY SingleStep
<1>3. SingleInv => ApprovedMatchLive
  BY DEF SingleInv
<1>4. QED
  BY <1>1, <1>2, <1>3, Invariance, PTL DEF Spec
=============================================================================
