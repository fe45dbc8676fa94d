---------------------------- MODULE Experiments ----------------------------
(***************************************************************************)
(* One A/B experiment under routes/experiments.py: its toggles, its traffic *)
(* split and the rollback to the champion model.                           *)
(*                                                                         *)
(* As everywhere in this API a request reads the rows without locking them *)
(* (here with two SELECTs, between which others may commit), writes the    *)
(* columns it changed under the row locks, and commits.  The deadlock two  *)
(* rollbacks can run into when each holds one of the two rows is broken by *)
(* PostgreSQL, which aborts one of them: that is Undo.  The rollback event *)
(* and the audit row, appended in the same transaction, are left out.      *)
(***************************************************************************)
EXTENDS Integers

CONSTANTS Managers,  \* sessions that may toggle, route and roll back
          Users,     \* sessions that may send feedback for the subject
          Weights    \* the values of weight_a requests ask for

ASSUME WeightsAssumption == Weights \subseteq 0 .. 100

VARIABLES experiment,  \* the toggles of the experiments row
          routing,     \* the weights of the inference_routing row
          phase,       \* phase[s]: how far the request of session s has come
          req          \* req[s]: that request

control == <<experiment, routing>>

Sessions == Managers \cup Users

Toggles == [ingest_enabled : BOOLEAN, apply_enabled : BOOLEAN]
Routings == [weight_a : 0 .. 100, weight_b : 0 .. 100]

\* Slip: weight_b is left at its default.
SplitOneSided(w) == [weight_a |-> w, weight_b |-> 10]

Split(w) == [weight_a |-> w, weight_b |-> 100 - w]

NoRequest == [op |-> "none"]

\* create_experiment stores the split asked for, with both toggles on.
ControlInit == /\ experiment = [ingest_enabled |-> TRUE, apply_enabled |-> TRUE]
               /\ routing \in {Split(w) : w \in Weights}
               /\ phase = [s \in Sessions |-> "idle"]
               /\ req = [s \in Sessions |-> NoRequest]

Finish(s) == /\ phase' = [phase EXCEPT ![s] = "idle"]
             /\ req' = [req EXCEPT ![s] = NoRequest]

-----------------------------------------------------------------------------
\* _load_exp: first the experiments row ...
LoadExperiment(s) ==
  /\ s \in Managers
  /\ phase[s] = "idle"
  /\ phase' = [phase EXCEPT ![s] = "loading"]
  /\ req' = [req EXCEPT ![s] = [op |-> "load", experiment |-> experiment]]
  /\ UNCHANGED control

\* What the ORM writes of a row: the columns whose value is not the one loaded.
Changes(loaded, new) == [c \in {d \in DOMAIN new : new[d] # loaded[d]} |-> new[c]]

\* ... then the inference_routing row, upon which the handler assigns columns.
Assign(s, toggles, weights) ==
  /\ phase[s] = "loading"
  /\ phase' = [phase EXCEPT ![s] = "read"]
  /\ req' = [req EXCEPT ![s] = [op |-> "update",
                                toggles |-> Changes(req[s].experiment, toggles),
                                weights |-> Changes(routing, weights)]]
  /\ UNCHANGED control

Toggle(s) == \E t \in Toggles : Assign(s, t, routing)

UpdateRouting(s) == \E w \in Weights : Assign(s, req[s].experiment, Split(w))

RollBack(s) == Assign(s, [ingest_enabled |-> FALSE, apply_enabled |-> FALSE], Split(100))

-----------------------------------------------------------------------------
Written(r) == {t \in {"experiments", "inference_routing"} :
                 (IF t = "experiments" THEN DOMAIN r.toggles ELSE DOMAIN r.weights) # {}}

\* The UPDATEs wait for whoever holds one of the rows.
Flush(s) ==
  /\ phase[s] = "read"
  /\ req[s].op = "update"
  /\ \A t \in Sessions : phase[t] = "flushed" /\ req[t].op = "update" =>
       Written(req[t]) \cap Written(req[s]) = {}
  /\ phase' = [phase EXCEPT ![s] = "flushed"]
  /\ UNCHANGED <<control, req>>

\* Slip: the columns left out are lost.
Replaced(row, set) == set

\* The columns an UPDATE leaves out hold what was last committed.
Updated(row, set) == [c \in DOMAIN row |-> IF c \in DOMAIN set THEN set[c] ELSE row[c]]

Commit(s) ==
  /\ phase[s] = "flushed"
  /\ req[s].op = "update"
  /\ experiment' = Updated(experiment, req[s].toggles)
  /\ routing' = Updated(routing, req[s].weights)
  /\ Finish(s)

\* A request fails or its client goes away: its transaction is undone.
Undo(s) == /\ phase[s] # "idle"
           /\ Finish(s)
           /\ UNCHANGED control

\* The requests of a manager up to their commit.
Control(s) == \/ LoadExperiment(s)
              \/ Toggle(s)
              \/ UpdateRouting(s)
              \/ RollBack(s)
              \/ Flush(s)

\* The traffic split always adds up to 100 per cent, though the two weights are
\* columns that concurrent routing changes and rollbacks write only where they
\* differ from what was read.  The CHECK on their sum is left out: no commit needs it.
WeightsAddUp == routing.weight_a + routing.weight_b = 100
=============================================================================
