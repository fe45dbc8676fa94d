----------------------------- MODULE Documents -----------------------------
(***************************************************************************)
(* Travel plans, templates and rule sets with their numbered versions, and *)
(* the share links of plan versions (routes/plans.py, routes/templates.py, *)
(* routes/rule_sets.py, routes/share.py).                                  *)
(*                                                                         *)
(* Nothing here is deleted or rewritten but the columns of a link.  A new  *)
(* version takes the highest number its request has read plus one; the     *)
(* database refuses a number that is taken, and makes the second of two    *)
(* inserts wait for the first.                                             *)
(***************************************************************************)
EXTENDS Integers, Sequences, FiniteSetsExt

CONSTANTS Plans, Templates, RuleSets, \* the names of documents
          Bodies,      \* contents of a version: lines, items or rules
          Sessions,    \* login sessions, each of a user of its own
          Admins,      \* those with the permission for everything
          Days,        \* lifetimes that are asked for
          MaxDays,     \* MAX_TTL_DAYS
          MaxTime,     \* bound on the clock, in days
          MaxVersions, \* bound on the versions of all documents
          MaxLinks     \* bound on the links

Docs == Plans \cup Templates \cup RuleSets

ASSUME DocumentsAssumption ==
  /\ Plans \cap (Templates \cup RuleSets) = {}
  /\ Days \subseteq Nat
  /\ {MaxDays, MaxTime} \subseteq Nat \ {0}
  /\ {MaxVersions, MaxLinks} \subseteq Nat

VARIABLES versions, \* versions[d]: the committed versions of d, in the order of commit
          links,    \* the committed plan_share_links
          now,      \* the clock
          phase,    \* phase[s]: how far the request of session s has come
          req,      \* req[s]: that request
          late      \* late[s][l]: openings of link l by s once it was closed

vars == <<versions, links, now, phase, req, late>>

None == 0
Times == 1 .. MaxTime
Ops == {"create", "publish", "write", "copy", "rollback"}

\* parent and of are ids: positions in versions[d].
Version == [no : Nat, op : Ops, parent : Nat, of : Nat, body : Bodies]

Link == [by : Sessions, expires : Nat, revoked : BOOLEAN, opened : BOOLEAN]

NoRequest == [op |-> "none"]

Init == /\ versions = [d \in Docs |-> <<>>]
        /\ links = <<>>
        /\ now = 1
        /\ phase = [s \in Sessions |-> "idle"]
        /\ req = [s \in Sessions |-> NoRequest]
        /\ late = [s \in Sessions |-> [l \in 1 .. MaxLinks |-> 0]]

-----------------------------------------------------------------------------
Enter(s, p, r) == phase' = [phase EXCEPT ![s] = p] /\ req' = [req EXCEPT ![s] = r]

\* Slip: the request's state outlives it.
FinishKeeping(s) == Enter(s, "idle", req[s])

Finish(s) == Enter(s, "idle", NoRequest)

Pending(ops) == {s \in Sessions : phase[s] # "idle" /\ req[s].op \in ops}

-----------------------------------------------------------------------------
(* Versions *)

Numbers(d, ids) == {versions[d][i].no : i \in ids}

\* max(v.version_no, default=0) + 1, over the versions read
NextNo(d, ids) == Max(Numbers(d, ids) \cup {0}) + 1

\* The version read that has the highest number
HeadOf(d, ids) == CHOOSE i \in ids : \A j \in ids : versions[d][j].no <= versions[d][i].no

Insert(s, d, op, no, parent, of, body) ==
  Enter(s, "decided", [op |-> op, doc |-> d, no |-> no, parent |-> parent, of |-> of,
                       body |-> body])

\* The bound on versions counts the requests that may become one.
RoomForVersion ==
  Cardinality(UNION {{d} \X DOMAIN versions[d] : d \in Docs}) + Cardinality(Pending(Ops))
    < MaxVersions

\* create_plan, create_template, create_rule_set: the name is free; the document
\* and its version 1 are one transaction.
BeginCreate(s, d, body) ==
  /\ phase[s] = "idle"
  /\ RoomForVersion
  /\ versions[d] = <<>>
  /\ Insert(s, d, "create", 1, None, None, body)
  /\ UNCHANGED <<versions, links, now, late>>

Publish(s, d, body) ==
  /\ phase[s] = "idle"
  /\ RoomForVersion
  /\ versions[d] # <<>>
  /\ Insert(s, d, "publish", NextNo(d, DOMAIN versions[d]), None, None, body)
  /\ UNCHANGED <<versions, links, now, late>>

PublishTemplate(s, d, body) == d \in Templates /\ Publish(s, d, body)
PublishRuleSet(s, d, body) == d \in RuleSets /\ Publish(s, d, body)

\* _load_plan reads the plan with all its versions.
LoadPlan(s, d, op) ==
  /\ phase[s] = "idle"
  /\ RoomForVersion
  /\ versions[d] # <<>>
  /\ Enter(s, "loaded", [op |-> op, doc |-> d, ids |-> DOMAIN versions[d]])
  /\ UNCHANGED <<versions, links, now, late>>

\* create_version: the parent asked for is among those read; by default it is the head.
WriteVersion(s, body) ==
  /\ phase[s] = "loaded"
  /\ req[s].op = "write"
  /\ LET d == req[s].doc
         ids == req[s].ids
     IN \E of \in ids \cup {None} :
          Insert(s, d, "write", NextNo(d, ids), IF of = None THEN HeadOf(d, ids) ELSE of, of, body)
  /\ UNCHANGED <<versions, links, now, late>>

\* copy_version: the source is read after the plan, and may be younger than what was read.
CopyVersion(s) ==
  /\ phase[s] = "loaded"
  /\ req[s].op = "copy"
  /\ LET d == req[s].doc IN
       \E of \in DOMAIN versions[d] :
         Insert(s, d, "copy", NextNo(d, req[s].ids), of, of, versions[d][of].body)
  /\ UNCHANGED <<versions, links, now, late>>

\* rollback_version: a new version after the head with the lines of an earlier one
RollBack(s) ==
  /\ phase[s] = "loaded"
  /\ req[s].op = "rollback"
  /\ LET d == req[s].doc IN
       \E of \in DOMAIN versions[d] :
         Insert(s, d, "rollback", NextNo(d, req[s].ids), HeadOf(d, req[s].ids), of,
                versions[d][of].body)
  /\ UNCHANGED <<versions, links, now, late>>

\* Slip: there is no unique constraint on the number.
AnyNumber(s) == TRUE

\* uq_plan_version_no and its like (and the unique names): the insert waits for
\* another one of the same number, and fails if the number is taken.
FreeNumber(s) ==
  /\ req[s].no \notin Numbers(req[s].doc, DOMAIN versions[req[s].doc])
  /\ \A t \in Sessions \ {s} :
       phase[t] = "flushed" /\ req[t].op \in Ops
         => <<req[t].doc, req[t].no>> # <<req[s].doc, req[s].no>>

FlushVersion(s) ==
  /\ phase[s] = "decided"
  /\ req[s].op \in Ops
  /\ FreeNumber(s)
  /\ Enter(s, "flushed", req[s])
  /\ UNCHANGED <<versions, links, now, late>>

CommitVersion(s) ==
  /\ phase[s] = "flushed"
  /\ req[s].op \in Ops
  /\ LET r == req[s] IN
       versions' = [versions EXCEPT ![r.doc] =
                      Append(@, [no |-> r.no, op |-> r.op, parent |-> r.parent, of |-> r.of,
                                 body |-> r.body])]
  /\ Finish(s)
  /\ UNCHANGED <<links, now, late>>

-----------------------------------------------------------------------------
(* Share links *)

\* compute_expiry
Expiry(days) == now + Max({1, Min({days, MaxDays})})

\* A link goes to a version that exists, and which never changes.
BeginIssue(s, days) ==
  /\ phase[s] = "idle"
  /\ \E d \in Plans : versions[d] # <<>>
  /\ Len(links) + Cardinality(Pending({"issue"})) < MaxLinks
  /\ Enter(s, "flushed", [op |-> "issue", expires |-> Expiry(days)])
  /\ UNCHANGED <<versions, links, now, late>>

CommitIssue(s) ==
  /\ phase[s] = "flushed"
  /\ req[s].op = "issue"
  /\ links' = Append(links, [by |-> s, expires |-> req[s].expires, revoked |-> FALSE,
                             opened |-> FALSE])
  /\ Finish(s)
  /\ UNCHANGED <<versions, now, late>>

\* is_usable
Usable(l) == ~ links[l].revoked /\ now < links[l].expires

\* resolve_share checks the link it reads, then reads the version.
BeginOpen(s, l) ==
  /\ phase[s] = "idle"
  /\ Usable(l)
  /\ Enter(s, "decided", [op |-> "open", link |-> l, was |-> links[l]])
  /\ UNCHANGED <<versions, links, now, late>>

\* revoke_share_link: the issuer or an administrator; again, if they like
BeginRevoke(s, l) ==
  /\ phase[s] = "idle"
  /\ links[l].by = s \/ s \in Admins
  /\ Enter(s, "decided", [op |-> "revoke", link |-> l])
  /\ UNCHANGED <<versions, links, now, late>>

\* Both update the link's row under its lock.
FlushLink(s) ==
  /\ phase[s] = "decided"
  /\ req[s].op \in {"open", "revoke"}
  /\ \A t \in Sessions \ {s} :
       phase[t] = "flushed" /\ req[t].op \in {"open", "revoke"} => req[t].link # req[s].link
  /\ Enter(s, "flushed", req[s])
  /\ UNCHANGED <<versions, links, now, late>>

\* Slip: the UPDATE writes the row that was read.
OpenedAsRead(r) == [links EXCEPT ![r.link] = [r.was EXCEPT !.opened = TRUE]]

\* opened_at only
Opened(r) == [links EXCEPT ![r.link].opened = TRUE]

\* A link is closed by its revocation, by its expiry, at the latest MaxDays after its issue.
Closed(l) == links[l].revoked \/ now >= links[l].expires

CommitOpen(s) ==
  /\ phase[s] = "flushed"
  /\ req[s].op = "open"
  /\ links' = Opened(req[s])
  /\ late' = IF Closed(req[s].link) THEN [late EXCEPT ![s][req[s].link] = @ + 1] ELSE late
  /\ Finish(s)
  /\ UNCHANGED <<versions, now>>

CommitRevoke(s) ==
  /\ phase[s] = "flushed"
  /\ req[s].op = "revoke"
  /\ links' = [links EXCEPT ![req[s].link].revoked = TRUE]
  /\ Finish(s)
  /\ UNCHANGED <<versions, now, late>>

-----------------------------------------------------------------------------
\* A refusal, a number that is taken (answer 500), an error or a restart
Undo(s) == /\ phase[s] # "idle"
           /\ Finish(s)
           /\ UNCHANGED <<versions, links, now, late>>

Tick == /\ now < MaxTime
        /\ now' = now + 1
        /\ UNCHANGED <<versions, links, phase, req, late>>

Versioning(s) ==
  \/ \E d \in Docs, b \in Bodies :
       BeginCreate(s, d, b) \/ PublishTemplate(s, d, b) \/ PublishRuleSet(s, d, b)
  \/ \E d \in Plans, op \in {"write", "copy", "rollback"} : LoadPlan(s, d, op)
  \/ \E b \in Bodies : WriteVersion(s, b)
  \/ CopyVersion(s) \/ RollBack(s) \/ FlushVersion(s) \/ CommitVersion(s)

Sharing(s) ==
  \/ \E days \in Days : BeginIssue(s, days)
  \/ \E l \in 1 .. Len(links) : BeginOpen(s, l) \/ BeginRevoke(s, l)
  \/ CommitIssue(s) \/ FlushLink(s) \/ CommitOpen(s) \/ CommitRevoke(s)

Next == Tick \/ \E s \in Sessions : Versioning(s) \/ Sharing(s) \/ Undo(s)

Spec == Init /\ [][Next]_vars

-----------------------------------------------------------------------------
(* Properties *)

Loads == [op : {"write", "copy", "rollback"}, doc : Plans, ids : SUBSET Nat]
Inserts == [op : Ops, doc : Docs, no : Nat, parent : Nat, of : Nat, body : Bodies]
Issues == [op : {"issue"}, expires : Nat]
Opens == [op : {"open"}, link : Nat, was : Link]
Revokes == [op : {"revoke"}, link : Nat]

RequestsAt(p) ==
  CASE p = "idle" -> {NoRequest}
    [] p = "loaded" -> Loads
    [] p \in {"decided", "flushed"} -> Inserts \cup Issues \cup Opens \cup Revokes

\* Every variable has its type, a session's request is one of the stage it has reached,
\* and refers to versions and links that exist.
TypeOK ==
  /\ versions \in [Docs -> Seq(Version)]
  /\ links \in Seq(Link)
  /\ now \in Times
  /\ phase \in [Sessions -> {"idle", "loaded", "decided", "flushed"}]
  /\ DOMAIN req = Sessions
  /\ \A s \in Sessions :
       /\ req[s] \in RequestsAt(phase[s])
       /\ phase[s] = "loaded" => req[s].ids \subseteq DOMAIN versions[req[s].doc] /\ req[s].ids # {}
       /\ req[s].op \in {"open", "revoke"} => req[s].link \in DOMAIN links
  /\ late \in [Sessions -> [1 .. MaxLinks -> Nat]]

History == INSTANCE DocumentHistory WITH
  Catalogs <- Templates \cup RuleSets,
  history <- versions

\* However requests of the five kinds interleave, a document's history grows without
\* gaps and is never rewritten; a copy and a rollback say truly what they were made
\* from, and a rollback and a version without a given parent follow the latest one.
ImplementsHistory == History!Spec

\* Once a link is revoked or has expired, every session opens it at most once more:
\* with the request that had checked it before.
OneLateOpening == \A s \in Sessions, l \in 1 .. MaxLinks : late[s][l] <= 1
=============================================================================
