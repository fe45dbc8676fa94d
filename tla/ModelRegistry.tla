--------------------------- MODULE ModelRegistry ---------------------------
(***************************************************************************)
(* The versions of one registered model, their runs and their promotion    *)
(* (routes/models.py).                                                     *)
(*                                                                         *)
(* A request reads without locking, decides on what it read, writes under  *)
(* row locks or unique keys, and commits.  A request that is refused       *)
(* changes nothing: it ends in Undo or is left out.  Versions and runs are *)
(* named by their position in the order of their commits, not by number.   *)
(***************************************************************************)
EXTENDS Naturals, Sequences, FiniteSetsExt

CONSTANTS Registrars,   \* sessions holding model:register
          Runners,      \* sessions holding model:run
          Promoters,    \* sessions holding model:promote
          Schemas,      \* the values feature_schema_hash may take
          NoSchema,     \* the NULL of live_schema_hash
          MaxVersions,  \* bound on the versions
          MaxRuns       \* bound on the runs

ASSUME SchemasAssumption == NoSchema \notin Schemas
ASSUME BoundsAssumption == {MaxVersions, MaxRuns} \subseteq Nat

VARIABLES live,      \* models.live_schema_hash
          versions,  \* the model_versions rows
          runs,      \* the model_runs rows
          phase,     \* phase[s]: how far the request of session s has come
          req        \* req[s]: that request

tables == <<live, versions, runs>>
vars == <<tables, phase, req>>

Sessions == Registrars \cup Runners \cup Promoters

Kinds == {"TRAINING", "EVALUATION"}
Outcomes == {"SUCCEEDED", "FAILED"}

Versions == [no : Nat \ {0}, schema : Schemas, status : {"DRAFT", "APPROVED"}]
Runs == [version : 1 .. MaxVersions, kind : Kinds, status : {"RUNNING"} \cup Outcomes]

NoRequest == [op |-> "none"]

Init == /\ live = NoSchema
        /\ versions = <<>>
        /\ runs = <<>>
        /\ phase = [s \in Sessions |-> "idle"]
        /\ req = [s \in Sessions |-> NoRequest]

-----------------------------------------------------------------------------
\* What a request goes through.

Begin(s, first, r) == /\ phase[s] = "idle"
                      /\ phase' = [phase EXCEPT ![s] = first]
                      /\ req' = [req EXCEPT ![s] = r]
                      /\ UNCHANGED tables

\* The others whose writes are under way: they keep what they wrote locked.
Writing(s, op) == {t \in Sessions \ {s} : phase[t] = "flushed" /\ req[t].op = op}

Flush(s) == /\ phase[s] = "read"
            /\ phase' = [phase EXCEPT ![s] = "flushed"]
            /\ UNCHANGED <<tables, req>>

Finish(s) == /\ phase' = [phase EXCEPT ![s] = "idle"]
             /\ req' = [req EXCEPT ![s] = NoRequest]

\* A refusal, an error or a client that goes away.
Undo(s) == /\ phase[s] # "idle"
           /\ Finish(s)
           /\ UNCHANGED tables

-----------------------------------------------------------------------------
\* register_version

Numbers == {versions[k].no : k \in DOMAIN versions}

\* Slip: the number of versions instead of the highest number plus one.
CountedNo == Len(versions)

NextNo == Max(Numbers \cup {0}) + 1

BeginRegister(s, schema) ==
  /\ s \in Registrars
  /\ Len(versions) < MaxVersions
  /\ Begin(s, "read", [op |-> "register", no |-> NextNo, schema |-> schema])

\* Slip: uq_model_version_no is missing.
AnyNumber(no) == TRUE

FreeNumber(no) == no \notin Numbers

\* The insert waits for another one of the same number, and fails with it there.
FlushRegister(s) ==
  /\ req[s].op = "register"
  /\ \A t \in Writing(s, "register") : req[t].no # req[s].no
  /\ FreeNumber(req[s].no)
  /\ Flush(s)

CommitRegister(s) ==
  /\ phase[s] = "flushed"
  /\ req[s].op = "register"
  /\ versions' = Append(versions, [no |-> req[s].no, schema |-> req[s].schema,
                                   status |-> "DRAFT"])
  /\ Finish(s)
  /\ UNCHANGED <<live, runs>>

-----------------------------------------------------------------------------
\* start_run contends with nobody: its one insert is a step of its own.
StartRun(s, k, kind) ==
  /\ s \in Runners
  /\ phase[s] = "idle"
  /\ Len(runs) < MaxRuns
  /\ runs' = Append(runs, [version |-> k, kind |-> kind, status |-> "RUNNING"])
  /\ UNCHANGED <<live, versions, phase, req>>

\* complete_run
BeginComplete(s, n, outcome) ==
  /\ s \in Runners
  /\ runs[n].status \notin Outcomes
  /\ Begin(s, "read", [op |-> "complete", run |-> n, outcome |-> outcome])

FlushComplete(s) ==
  /\ req[s].op = "complete"
  /\ \A t \in Writing(s, "complete") : req[t].run # req[s].run
  /\ Flush(s)

CommitComplete(s) ==
  /\ phase[s] = "flushed"
  /\ req[s].op = "complete"
  /\ runs' = [runs EXCEPT ![req[s].run].status = req[s].outcome]
  /\ Finish(s)
  /\ UNCHANGED <<live, versions>>

-----------------------------------------------------------------------------
\* promote_version: first the model and its versions are read ...
LoadModel(s, k) ==
  /\ s \in Promoters
  /\ Begin(s, "loading", [op |-> "promote", version |-> k, live |-> live])

\* Slip: a training run will do.
SomeRunSucceeded(k) == \E n \in DOMAIN runs : runs[n].version = k /\ runs[n].status = "SUCCEEDED"

Evaluated(k) == \E n \in DOMAIN runs : /\ runs[n].version = k
                                       /\ runs[n].kind = "EVALUATION"
                                       /\ runs[n].status = "SUCCEEDED"

\* ... then the runs.
PassGate(s) ==
  /\ phase[s] = "loading"
  /\ Evaluated(req[s].version)
  /\ req[s].live \in {NoSchema, versions[req[s].version].schema}
  /\ phase' = [phase EXCEPT ![s] = "read"]
  /\ UNCHANGED <<tables, req>>

\* Slip: the schema is never pinned.
PinsNever(r) == FALSE

\* The model row is written by a promotion that saw no live schema.
Pins(r) == r.live = NoSchema

FlushPromote(s) ==
  /\ req[s].op = "promote"
  /\ \A t \in Writing(s, "promote") : /\ req[t].version # req[s].version
                                      /\ ~(Pins(req[s]) /\ Pins(req[t]))
  /\ Flush(s)

CommitPromote(s) ==
  LET k == req[s].version IN
  /\ phase[s] = "flushed"
  /\ req[s].op = "promote"
  /\ live' = IF Pins(req[s]) THEN versions[k].schema ELSE live
  /\ versions' = [versions EXCEPT ![k].status = "APPROVED"]
  /\ Finish(s)
  /\ UNCHANGED runs

-----------------------------------------------------------------------------
\* The API process stops, and with it every open transaction.
Restart == /\ \E s \in Sessions : phase[s] # "idle"
           /\ phase' = [s \in Sessions |-> "idle"]
           /\ req' = [s \in Sessions |-> NoRequest]
           /\ UNCHANGED tables

Next ==
  \/ \E s \in Sessions :
       \/ \E schema \in Schemas : BeginRegister(s, schema)
       \/ FlushRegister(s)
       \/ CommitRegister(s)
       \/ \E k \in DOMAIN versions :
            \/ \E kind \in Kinds : StartRun(s, k, kind)
            \/ LoadModel(s, k)
       \/ \E n \in DOMAIN runs, outcome \in Outcomes : BeginComplete(s, n, outcome)
       \/ FlushComplete(s)
       \/ CommitComplete(s)
       \/ PassGate(s)
       \/ FlushPromote(s)
       \/ CommitPromote(s)
       \/ Undo(s)
  \/ Restart

Spec == Init /\ [][Next]_vars
-----------------------------------------------------------------------------
RegisterRequests == [op : {"register"}, no : Nat \ {0}, schema : Schemas]
CompleteRequests == [op : {"complete"}, run : 1 .. MaxRuns, outcome : Outcomes]
PromoteRequests == [op : {"promote"}, version : 1 .. MaxVersions, live : Schemas \cup {NoSchema}]

\* Every variable has its type.
TypeOK ==
  /\ live \in Schemas \cup {NoSchema}
  /\ versions \in Seq(Versions)
  /\ runs \in Seq(Runs)
  /\ phase \in [Sessions -> {"idle", "loading", "read", "flushed"}]
  /\ req \in [Sessions -> RegisterRequests \cup CompleteRequests \cup PromoteRequests \cup {NoRequest}]

\* The versions of a model are numbered 1, 2, 3, ... in the order of their
\* commits, without gap or repetition, though each registration takes the number
\* after the highest one it read and may be undone at any time.
VersionsNumbered == \A k \in DOMAIN versions : versions[k].no = k

Approved == {k \in DOMAIN versions : versions[k].status = "APPROVED"}

\* The live schema is the schema of an approved version, and there is none as long
\* as no version is approved: what the inference service expects can be served,
\* whatever promotions overlap.
LiveIsOfApproved == IF live = NoSchema THEN Approved = {}
                                       ELSE live \in {versions[k].schema : k \in Approved}

\* Every approved version went through an evaluation run that was completed (a
\* second runner may since have overwritten its outcome).
EvaluatedBeforeApproval ==
  \A k \in Approved : \E n \in DOMAIN runs : /\ runs[n].version = k
                                             /\ runs[n].kind = "EVALUATION"
                                             /\ runs[n].status \in Outcomes

\* routes/models.py: "First promotion pins the live schema hash; subsequent must
\* match it."  Two promotions that both find no live schema break it.
ApprovedMatchLive == \A k \in Approved : versions[k].schema = live
=============================================================================
