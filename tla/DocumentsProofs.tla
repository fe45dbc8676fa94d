-------------------------- MODULE DocumentsProofs --------------------------
(***************************************************************************)
(* Proofs about Documents for any number of sessions, documents, versions, *)
(* links and days.                                                         *)
(***************************************************************************)
EXTENDS Documents, SequenceTheorems, TLAPS

Requests == {NoRequest} \cup Loads \cup Inserts \cup Issues \cup Opens \cup Revokes

Numbered == \A d \in Docs : \A i \in 1 .. Len(versions[d]) : versions[d][i].no = i

\* What the insert of request r says of the version is what it read, and stays true.
Faithful(r) ==
  /\ r.no \in 1 .. Len(versions[r.doc]) + 1
  /\ r.op = "create" => r.no = 1 /\ r.parent = None /\ r.of = None
  /\ r.op = "publish" => /\ r.doc \in Templates \cup RuleSets
                         /\ r.no > 1
                         /\ r.parent = None /\ r.of = None
  /\ r.op \in {"write", "copy", "rollback"} => r.doc \in Plans /\ r.no > 1
  /\ r.op = "write" => /\ r.of \in 0 .. r.no - 1
                       /\ r.parent = IF r.of = None THEN r.no - 1 ELSE r.of
  /\ r.op = "copy" => r.parent = r.of
  /\ r.op = "rollback" => r.parent = r.no - 1
  /\ r.op \in {"copy", "rollback"} => /\ r.of \in 1 .. Len(versions[r.doc])
                                      /\ r.body = versions[r.doc][r.of].body

\* What request r of session s relies on once it has come as far as p.
Valid(s, p, r) ==
  /\ p = "loaded" => \E k \in 1 .. Len(versions[r.doc]) : r.ids = 1 .. k
  /\ p \in {"decided", "flushed"} /\ r.op \in Ops => Faithful(r)
  /\ p = "flushed" /\ r.op \in Ops => r.no = Len(versions[r.doc]) + 1
  /\ r.op \in {"open", "revoke"} => r.link \in DOMAIN links
  /\ r.op = "open" /\ r.link \in 1 .. MaxLinks => late[s][r.link] = 0

RequestsInv == \A s \in Sessions : Valid(s, phase[s], req[s])

\* The unique number admits one insert into a document at a time.
OneInsert ==
  \A s, t \in Sessions : /\ phase[s] = "flushed" /\ req[s].op \in Ops
                         /\ phase[t] = "flushed" /\ req[t].op \in Ops
                         /\ req[s].doc = req[t].doc
                         => s = t

\* Only what is closed is opened late, and a closed link stays closed.
LateInv ==
  \A s \in Sessions, l \in 1 .. MaxLinks :
    /\ late[s][l] <= 1
    /\ late[s][l] > 0 => l \in DOMAIN links /\ Closed(l)

IInv == TypeOK /\ Numbered /\ RequestsInv /\ OneInsert /\ LateInv

-----------------------------------------------------------------------------
(* The parts of the model *)

LEMMA RequestOps ==
  /\ \A r \in Loads : r.op \in {"write", "copy", "rollback"}
  /\ \A r \in Inserts : r.op \in Ops
  /\ \A r \in Issues : r.op = "issue"
  /\ \A r \in Opens : r.op = "open"
  /\ \A r \in Revokes : r.op = "revoke"
  /\ NoRequest.op = "none"
  /\ Ops = {"create", "publish", "write", "copy", "rollback"}
BY DEF Loads, Inserts, Issues, Opens, Revokes, NoRequest, Ops

\* The stage a request has reached and its operation determine its fields.
LEMMA Stages ==
  ASSUME NEW p \in {"idle", "loaded", "decided", "flushed"}, NEW r \in RequestsAt(p)
  PROVE  /\ p = "idle" => r = NoRequest
         /\ p = "loaded" => r \in Loads
         /\ p \in {"decided", "flushed"} => r \in Inserts \cup Issues \cup Opens \cup Revokes
         /\ p \in {"decided", "flushed"} /\ r.op \in Ops => r \in Inserts
         /\ r.op = "issue" => r \in Issues
         /\ r.op = "open" => r \in Opens
         /\ r.op = "revoke" => r \in Revokes
<1>1. CASE p = "idle"
  BY <1>1, RequestOps DEF RequestsAt
<1>2. CASE p = "loaded"
  BY <1>2, RequestOps DEF RequestsAt
<1>3. CASE p \in {"decided", "flushed"}
  <2>1. r \in Inserts \cup Issues \cup Opens \cup Revokes
    BY <1>3 DEF RequestsAt
  <2>2. QED
    BY <1>3, <2>1, RequestOps
<1>4. QED
  BY <1>1, <1>2, <1>3

LEMMA MaxOfPrefix ==
  ASSUME NEW n \in Nat
  PROVE  Max((1 .. n) \cup {0}) = n
<1>1. (1 .. n) \cup {0} = 0 .. n
  OBVIOUS
<1>2. n \in 0 .. n /\ \A y \in 0 .. n : n >= y
  OBVIOUS
<1>3. \A x \in 0 .. n : (\A y \in 0 .. n : x >= y) => x = n
  OBVIOUS
<1>4. QED
  BY <1>1, <1>2, <1>3 DEF Max

\* Reading the first k versions, a request takes number k + 1 and finds k to be the head.
LEMMA ReadOfPrefix ==
  ASSUME TypeOK, Numbered, NEW d \in Docs, NEW k \in 0 .. Len(versions[d])
  PROVE  /\ Numbers(d, 1 .. k) = 1 .. k
         /\ NextNo(d, 1 .. k) = k + 1
         /\ k > 0 => HeadOf(d, 1 .. k) = k
<1>1. Len(versions[d]) \in Nat /\ k \in Nat
  BY DEF TypeOK
<1>2. \A i \in 1 .. k : versions[d][i].no = i
  BY <1>1 DEF Numbered
<1>3. Numbers(d, 1 .. k) = 1 .. k
  BY <1>2 DEF Numbers
<1>4. NextNo(d, 1 .. k) = k + 1
  BY <1>1, <1>3, MaxOfPrefix DEF NextNo
<1>5. ASSUME k > 0
      PROVE  HeadOf(d, 1 .. k) = k
  <2>1. k \in 1 .. k /\ \A j \in 1 .. k : versions[d][j].no <= versions[d][k].no
    BY <1>1, <1>2, <1>5
  <2>2. \A i \in 1 .. k : (\A j \in 1 .. k : versions[d][j].no <= versions[d][i].no) => i = k
    BY <1>1, <1>2, <2>1
  <2>3. QED
    BY <2>1, <2>2 DEF HeadOf
<1>6. QED
  BY <1>3, <1>4, <1>5

LEMMA InitHolds == Init => IInv
<1> SUFFICES ASSUME Init PROVE IInv
  OBVIOUS
<1>1. /\ \A d \in Docs : versions[d] = <<>> /\ Len(versions[d]) = 0
      /\ versions \in [Docs -> Seq(Version)]
      /\ links \in Seq(Link)
  BY DEF Init
<1>2. \A s \in Sessions : /\ phase[s] = "idle"
                          /\ req[s] = NoRequest
                          /\ \A l \in 1 .. MaxLinks : late[s][l] = 0
  BY DEF Init
<1>3. late \in [Sessions -> [1 .. MaxLinks -> Nat]] /\ now \in Times
  BY DocumentsAssumption DEF Init, Times
<1>4. phase \in [Sessions -> {"idle", "loaded", "decided", "flushed"}] /\ DOMAIN req = Sessions
  BY DEF Init
<1>5. TypeOK
  BY <1>1, <1>2, <1>3, <1>4, RequestOps DEF TypeOK, RequestsAt
<1>6. Numbered
  BY <1>1 DEF Numbered
<1>7. RequestsInv
  BY <1>2, RequestOps DEF RequestsInv, Valid
<1>8. OneInsert
  BY <1>2 DEF OneInsert
<1>9. LateInv
  BY <1>2 DEF LateInv
<1>10. QED
  BY <1>5, <1>6, <1>7, <1>8, <1>9 DEF IInv

-----------------------------------------------------------------------------
(* Steps that write no row *)

LEMMA MoveKeeps ==
  ASSUME IInv, NEW s \in Sessions, NEW p \in {"idle", "loaded", "decided", "flushed"},
         NEW r \in RequestsAt(p), Enter(s, p, r),
         UNCHANGED <<versions, links, now, late>>, Valid(s, p, r),
         p = "flushed" /\ r.op \in Ops =>
           \A t \in Sessions \ {s} : phase[t] = "flushed" /\ req[t].op \in Ops
                                       => req[t].doc # r.doc
  PROVE  IInv'
<1>1. \A t \in Sessions : /\ phase'[t] = IF t = s THEN p ELSE phase[t]
                          /\ req'[t] = IF t = s THEN r ELSE req[t]
  BY DEF IInv, TypeOK, Enter
<1>2. /\ phase' \in [Sessions -> {"idle", "loaded", "decided", "flushed"}]
      /\ DOMAIN req' = Sessions
  BY DEF IInv, TypeOK, Enter
<1>3. p = "loaded" => r.ids \subseteq DOMAIN versions[r.doc] /\ r.ids # {}
  <2> SUFFICES ASSUME p = "loaded"
               PROVE  r.ids \subseteq DOMAIN versions[r.doc] /\ r.ids # {}
    OBVIOUS
  <2>1. r \in Loads /\ r.doc \in Docs
    BY Stages DEF Loads, Docs
  <2>2. Len(versions[r.doc]) \in Nat /\ DOMAIN versions[r.doc] = 1 .. Len(versions[r.doc])
    BY <2>1 DEF IInv, TypeOK
  <2>3. PICK k \in 1 .. Len(versions[r.doc]) : r.ids = 1 .. k
    BY DEF Valid
  <2>4. QED
    BY <2>2, <2>3
<1>4. r.op \in {"open", "revoke"} => r.link \in DOMAIN links
  BY DEF Valid
<1>5. TypeOK'
  <2>1. ASSUME NEW t \in Sessions
        PROVE  /\ req'[t] \in RequestsAt(phase'[t])
               /\ phase'[t] = "loaded" => /\ req'[t].ids \subseteq DOMAIN versions[req'[t].doc]
                                          /\ req'[t].ids # {}
               /\ req'[t].op \in {"open", "revoke"} => req'[t].link \in DOMAIN links
    BY <1>1, <1>3, <1>4 DEF IInv, TypeOK
  <2>2. QED
    BY <1>2, <2>1 DEF IInv, TypeOK, RequestsAt
<1>6. Numbered' /\ LateInv'
  BY DEF IInv, Numbered, LateInv, Closed
<1>7. RequestsInv'
  <2> SUFFICES ASSUME NEW t \in Sessions
               PROVE  Valid(t, phase[t], req[t])'
    BY DEF RequestsInv
  <2>1. Valid(t, phase'[t], req'[t])
    BY <1>1 DEF IInv, RequestsInv
  <2>2. QED
    BY <2>1 DEF Valid, Faithful
<1>8. OneInsert'
  BY <1>1 DEF IInv, OneInsert
<1>9. QED
  BY <1>5, <1>6, <1>7, <1>8 DEF IInv

LEMMA UndoKeeps ==
  ASSUME IInv, NEW s \in Sessions, Finish(s), UNCHANGED <<versions, links, now, late>>
  PROVE  IInv'
<1>1. NoRequest \in RequestsAt("idle")
  BY DEF RequestsAt
<1>2. Valid(s, "idle", NoRequest)
  BY RequestOps DEF Valid
<1>3. QED
  BY <1>1, <1>2, MoveKeeps DEF Finish

LEMMA InsertKeeps ==
  ASSUME IInv, NEW s \in Sessions, NEW d \in Docs, NEW op \in Ops, NEW no \in Nat,
         NEW parent \in Nat, NEW of \in Nat, NEW body \in Bodies,
         Insert(s, d, op, no, parent, of, body), UNCHANGED <<versions, links, now, late>>,
         Faithful([op |-> op, doc |-> d, no |-> no, parent |-> parent, of |-> of, body |-> body])
  PROVE  IInv'
<1> DEFINE r == [op |-> op, doc |-> d, no |-> no, parent |-> parent, of |-> of, body |-> body]
<1>1. r \in Inserts /\ Enter(s, "decided", r) /\ r.op \in Ops
  BY DEF Inserts, Insert
<1>2. r \in RequestsAt("decided")
  BY <1>1 DEF RequestsAt
<1>3. Faithful(r)
  OBVIOUS
<1> HIDE DEF r
<1>4. Valid(s, "decided", r)
  BY <1>1, <1>3, RequestOps DEF Valid
<1>5. QED
  BY <1>1, <1>2, <1>4, MoveKeeps

LEMMA BeginCreateKeeps ==
  ASSUME IInv, NEW s \in Sessions, NEW d \in Docs, NEW body \in Bodies, BeginCreate(s, d, body)
  PROVE  IInv'
<1>1. Len(versions[d]) = 0
  BY DEF BeginCreate
<1>2. Faithful([op |-> "create", doc |-> d, no |-> 1, parent |-> None, of |-> None,
                body |-> body])
  BY <1>1 DEF Faithful, None
<1>3. QED
  BY <1>2, InsertKeeps, RequestOps DEF BeginCreate, None

\* A request that reads all versions takes the number after them.
LEMMA ReadOfAll ==
  ASSUME IInv, NEW d \in Docs, versions[d] # <<>>
  PROVE  /\ Len(versions[d]) \in Nat \ {0}
         /\ DOMAIN versions[d] = 1 .. Len(versions[d])
         /\ NextNo(d, DOMAIN versions[d]) = Len(versions[d]) + 1
<1>1. versions[d] \in Seq(Version)
  BY DEF IInv, TypeOK
<1>2. Len(versions[d]) \in Nat \ {0} /\ DOMAIN versions[d] = 1 .. Len(versions[d])
  BY <1>1
<1>3. QED
  BY <1>2, ReadOfPrefix DEF IInv

LEMMA PublishKeeps ==
  ASSUME IInv, NEW s \in Sessions, NEW d \in Templates \cup RuleSets, NEW body \in Bodies,
         Publish(s, d, body)
  PROVE  IInv'
<1>1. d \in Docs /\ versions[d] # <<>>
  BY DEF Publish, Docs
<1> DEFINE n == Len(versions[d])
<1>2. n \in Nat \ {0} /\ NextNo(d, DOMAIN versions[d]) = n + 1
  BY <1>1, ReadOfAll
<1>3. Faithful([op |-> "publish", doc |-> d, no |-> n + 1, parent |-> None, of |-> None,
                body |-> body])
  BY <1>2 DEF Faithful, None
<1>4. Insert(s, d, "publish", n + 1, None, None, body)
  BY <1>2 DEF Publish
<1>5. n + 1 \in Nat /\ None \in Nat
  BY <1>2 DEF None
<1>6. UNCHANGED <<versions, links, now, late>>
  BY DEF Publish
<1> HIDE DEF n
<1>7. QED
  BY <1>1, <1>3, <1>4, <1>5, <1>6, InsertKeeps, RequestOps

LEMMA LoadPlanKeeps ==
  ASSUME IInv, NEW s \in Sessions, NEW d \in Plans, NEW op \in {"write", "copy", "rollback"},
         LoadPlan(s, d, op)
  PROVE  IInv'
<1> DEFINE r == [op |-> op, doc |-> d, ids |-> DOMAIN versions[d]]
<1>1. d \in Docs /\ versions[d] # <<>>
  BY DEF LoadPlan, Docs
<1>2. Len(versions[d]) \in Nat \ {0} /\ DOMAIN versions[d] = 1 .. Len(versions[d])
  BY <1>1, ReadOfAll
<1>3. r \in Loads
  BY <1>2 DEF Loads
<1>4. r.doc = d /\ r.ids = 1 .. Len(versions[d]) /\ Enter(s, "loaded", r)
  BY <1>2 DEF LoadPlan
<1> HIDE DEF r
<1>5. Valid(s, "loaded", r)
  BY <1>2, <1>3, <1>4, RequestOps DEF Valid
<1>6. r \in RequestsAt("loaded")
  BY <1>3 DEF RequestsAt
<1>7. QED
  BY <1>4, <1>5, <1>6, MoveKeeps DEF LoadPlan

\* What a request that has loaded its plan has read
LEMMA Loaded ==
  ASSUME IInv, NEW s \in Sessions, phase[s] = "loaded"
  PROVE  /\ req[s].doc \in Plans /\ req[s].doc \in Docs
         /\ Len(versions[req[s].doc]) \in Nat
         /\ DOMAIN versions[req[s].doc] = 1 .. Len(versions[req[s].doc])
         /\ \A i \in DOMAIN versions[req[s].doc] : versions[req[s].doc][i].body \in Bodies
         /\ \E k \in 1 .. Len(versions[req[s].doc]) :
              /\ req[s].ids = 1 .. k
              /\ NextNo(req[s].doc, req[s].ids) = k + 1
              /\ HeadOf(req[s].doc, req[s].ids) = k
<1> DEFINE d == req[s].doc
<1>1. req[s] \in Loads
  BY Stages DEF IInv, TypeOK
<1>2. d \in Plans /\ d \in Docs
  BY <1>1 DEF Loads, Docs
<1>3. versions[d] \in Seq(Version)
  BY <1>2 DEF IInv, TypeOK
<1>4. /\ Len(versions[d]) \in Nat /\ DOMAIN versions[d] = 1 .. Len(versions[d])
      /\ \A i \in DOMAIN versions[d] : versions[d][i].body \in Bodies
  <2>1. /\ Len(versions[d]) \in Nat /\ DOMAIN versions[d] = 1 .. Len(versions[d])
        /\ \A i \in DOMAIN versions[d] : versions[d][i] \in Version
    BY <1>3
  <2>2. \A v \in Version : v.body \in Bodies
    BY DEF Version
  <2>3. QED
    BY <2>1, <2>2
<1>5. PICK k \in 1 .. Len(versions[d]) : req[s].ids = 1 .. k
  BY DEF IInv, RequestsInv, Valid
<1>6. NextNo(d, 1 .. k) = k + 1 /\ HeadOf(d, 1 .. k) = k
  BY <1>2, <1>4, <1>5, ReadOfPrefix DEF IInv
<1>7. QED
  BY <1>2, <1>4, <1>5, <1>6

LEMMA WriteVersionKeeps ==
  ASSUME IInv, NEW s \in Sessions, NEW body \in Bodies, WriteVersion(s, body)
  PROVE  IInv'
<1> DEFINE d == req[s].doc
           ids == req[s].ids
<1>1. phase[s] = "loaded" /\ UNCHANGED <<versions, links, now, late>>
  BY DEF WriteVersion
<1>2. d \in Plans /\ d \in Docs /\ Len(versions[d]) \in Nat
  BY <1>1, Loaded
<1>3. PICK k \in 1 .. Len(versions[d]) :
        ids = 1 .. k /\ NextNo(d, ids) = k + 1 /\ HeadOf(d, ids) = k
  BY <1>1, Loaded
<1>4. PICK of \in ids \cup {None} :
        Insert(s, d, "write", NextNo(d, ids), IF of = None THEN HeadOf(d, ids) ELSE of, of, body)
  BY DEF WriteVersion
<1> DEFINE parent == IF of = None THEN k ELSE of
<1>5. of \in 0 .. k /\ k \in Nat /\ k > 0 /\ k + 1 \in Nat /\ of \in Nat /\ parent \in Nat
  BY <1>2, <1>3, <1>4 DEF None
<1>6. Insert(s, d, "write", k + 1, parent, of, body)
  BY <1>3, <1>4
<1>7. Faithful([op |-> "write", doc |-> d, no |-> k + 1, parent |-> parent, of |-> of,
                body |-> body])
  BY <1>2, <1>3, <1>5 DEF Faithful
<1> HIDE DEF d, parent
<1>8. QED
  BY <1>1, <1>2, <1>5, <1>6, <1>7, InsertKeeps, RequestOps

LEMMA CopyVersionKeeps ==
  ASSUME IInv, NEW s \in Sessions, CopyVersion(s)
  PROVE  IInv'
<1> DEFINE d == req[s].doc
<1>1. phase[s] = "loaded" /\ UNCHANGED <<versions, links, now, late>>
  BY DEF CopyVersion
<1>2. d \in Plans /\ d \in Docs /\ Len(versions[d]) \in Nat
  BY <1>1, Loaded
<1>3. PICK k \in 1 .. Len(versions[d]) : NextNo(d, req[s].ids) = k + 1
  BY <1>1, Loaded
<1>4. PICK of \in DOMAIN versions[d] :
        Insert(s, d, "copy", NextNo(d, req[s].ids), of, of, versions[d][of].body)
  BY DEF CopyVersion
<1> DEFINE body == versions[d][of].body
<1>5. of \in 1 .. Len(versions[d]) /\ of \in Nat /\ k \in Nat /\ k > 0 /\ k + 1 \in Nat
      /\ body \in Bodies
  BY <1>1, <1>2, <1>3, <1>4, Loaded
<1>6. Insert(s, d, "copy", k + 1, of, of, body)
  BY <1>3, <1>4
<1>7. Faithful([op |-> "copy", doc |-> d, no |-> k + 1, parent |-> of, of |-> of,
                body |-> body])
  BY <1>2, <1>3, <1>5 DEF Faithful
<1> HIDE DEF d, body
<1>8. QED
  BY <1>1, <1>2, <1>5, <1>6, <1>7, InsertKeeps, RequestOps

LEMMA RollBackKeeps ==
  ASSUME IInv, NEW s \in Sessions, RollBack(s)
  PROVE  IInv'
<1> DEFINE d == req[s].doc
<1>1. phase[s] = "loaded" /\ UNCHANGED <<versions, links, now, late>>
  BY DEF RollBack
<1>2. d \in Plans /\ d \in Docs /\ Len(versions[d]) \in Nat
  BY <1>1, Loaded
<1>3. PICK k \in 1 .. Len(versions[d]) :
        NextNo(d, req[s].ids) = k + 1 /\ HeadOf(d, req[s].ids) = k
  BY <1>1, Loaded
<1>4. PICK of \in DOMAIN versions[d] :
        Insert(s, d, "rollback", NextNo(d, req[s].ids), HeadOf(d, req[s].ids), of,
               versions[d][of].body)
  BY DEF RollBack
<1> DEFINE body == versions[d][of].body
<1>5. of \in 1 .. Len(versions[d]) /\ of \in Nat /\ k \in Nat /\ k > 0 /\ k + 1 \in Nat
      /\ body \in Bodies
  BY <1>1, <1>2, <1>3, <1>4, Loaded
<1>6. Insert(s, d, "rollback", k + 1, k, of, body)
  BY <1>3, <1>4
<1>7. Faithful([op |-> "rollback", doc |-> d, no |-> k + 1, parent |-> k, of |-> of,
                body |-> body])
  BY <1>2, <1>3, <1>5 DEF Faithful
<1> HIDE DEF d, body
<1>8. QED
  BY <1>1, <1>2, <1>5, <1>6, <1>7, InsertKeeps, RequestOps

\* The number is free: it is the one after the highest, and no other insert waits with it.
LEMMA FlushVersionKeeps ==
  ASSUME IInv, NEW s \in Sessions, FlushVersion(s)
  PROVE  IInv'
<1> DEFINE r == req[s]
           n == Len(versions[r.doc])
<1>1. /\ phase[s] = "decided" /\ r.op \in Ops /\ FreeNumber(s) /\ Enter(s, "flushed", r)
      /\ UNCHANGED <<versions, links, now, late>>
  BY DEF FlushVersion
<1>2. r \in Inserts /\ r.doc \in Docs /\ r.no \in Nat
  <2>1. r \in Inserts
    BY <1>1, Stages DEF IInv, TypeOK
  <2>2. QED
    BY <2>1 DEF Inserts
<1>3. versions[r.doc] \in Seq(Version) /\ n \in Nat /\ DOMAIN versions[r.doc] = 1 .. n
  BY <1>2 DEF IInv, TypeOK
<1>4. Valid(s, "decided", r) /\ Faithful(r)
  BY <1>1 DEF IInv, RequestsInv, Valid
<1>5. r.no = n + 1
  <2>1. Numbers(r.doc, 1 .. n) = 1 .. n
    BY <1>2, <1>3, ReadOfPrefix DEF IInv
  <2>2. r.no \notin 1 .. n
    BY <1>1, <1>3, <2>1 DEF FreeNumber
  <2>3. r.no \in 1 .. n + 1
    BY <1>4 DEF Faithful
  <2>4. QED
    BY <1>2, <1>3, <2>2, <2>3
<1>6. ASSUME NEW t \in Sessions \ {s}, phase[t] = "flushed", req[t].op \in Ops
      PROVE  req[t].doc # r.doc
  <2>1. req[t].no = Len(versions[req[t].doc]) + 1
    BY <1>6 DEF IInv, RequestsInv, Valid
  <2>2. <<req[t].doc, req[t].no>> # <<r.doc, r.no>>
    BY <1>1, <1>6 DEF FreeNumber
  <2>3. QED
    BY <1>5, <2>1, <2>2
<1>7. r \in RequestsAt("flushed")
  BY <1>2 DEF RequestsAt
<1>8. Valid(s, "flushed", r)
  BY <1>1, <1>4, <1>5, RequestOps DEF Valid
<1> HIDE DEF r
<1>9. QED
  BY <1>1, <1>6, <1>7, <1>8, MoveKeeps

LEMMA BeginIssueKeeps ==
  ASSUME IInv, NEW s \in Sessions, NEW days \in Days, BeginIssue(s, days)
  PROVE  IInv'
<1> DEFINE r == [op |-> "issue", expires |-> Expiry(days)]
<1>1. Expiry(days) \in Nat
  <2> DEFINE m == Min({days, MaxDays})
  <2>1. days \in Nat /\ MaxDays \in Nat /\ now \in Nat
    BY DocumentsAssumption DEF IInv, TypeOK, Times
  <2>2. m \in {days, MaxDays}
    <3>1. \E x \in {days, MaxDays} : \A y \in {days, MaxDays} : x <= y
      BY <2>1
    <3>2. QED
      BY <3>1 DEF Min
  <2>3. m \in Nat
    BY <2>1, <2>2
  <2> HIDE DEF m
  <2>4. \E x \in {1, m} : \A y \in {1, m} : x >= y
    BY <2>3
  <2>5. Max({1, m}) \in {1, m}
    BY <2>4 DEF Max
  <2>6. Max({1, m}) \in Nat
    BY <2>3, <2>5
  <2>7. Expiry(days) = now + Max({1, m})
    BY DEF Expiry, m
  <2>8. QED
    BY <2>1, <2>6, <2>7
<1>2. r \in Issues /\ Enter(s, "flushed", r)
  BY <1>1 DEF Issues, BeginIssue
<1> HIDE DEF r
<1>3. r \in RequestsAt("flushed") /\ r.op = "issue"
  BY <1>2, RequestOps DEF RequestsAt
<1>4. Valid(s, "flushed", r)
  BY <1>3, RequestOps DEF Valid
<1>5. QED
  BY <1>2, <1>3, <1>4, MoveKeeps, RequestOps DEF BeginIssue

\* What is opened late is closed, and no request to open it begins.
LEMMA BeginOpenKeeps ==
  ASSUME IInv, NEW s \in Sessions, NEW l \in 1 .. Len(links), BeginOpen(s, l)
  PROVE  IInv'
<1> DEFINE r == [op |-> "open", link |-> l, was |-> links[l]]
<1>1. links \in Seq(Link) /\ l \in DOMAIN links /\ l \in Nat /\ links[l] \in Link
  BY DEF IInv, TypeOK
<1>2. links[l].expires \in Nat /\ now \in Nat
  BY <1>1, DocumentsAssumption DEF Link, IInv, TypeOK, Times
<1>3. ~ Closed(l)
  BY <1>2 DEF BeginOpen, Usable, Closed
<1>4. l \in 1 .. MaxLinks => late[s][l] = 0
  <2>1. l \in 1 .. MaxLinks => late[s][l] \in Nat
    BY DEF IInv, TypeOK
  <2>2. QED
    BY <1>3, <2>1 DEF IInv, LateInv
<1>5. r \in Opens /\ r.link = l /\ Enter(s, "decided", r)
  BY <1>1 DEF Opens, BeginOpen
<1> HIDE DEF r
<1>6. r \in RequestsAt("decided") /\ r.op = "open"
  BY <1>5, RequestOps DEF RequestsAt
<1>7. Valid(s, "decided", r)
  BY <1>1, <1>4, <1>5, <1>6, RequestOps DEF Valid
<1>8. QED
  BY <1>5, <1>6, <1>7, MoveKeeps DEF BeginOpen

LEMMA BeginRevokeKeeps ==
  ASSUME IInv, NEW s \in Sessions, NEW l \in 1 .. Len(links), BeginRevoke(s, l)
  PROVE  IInv'
<1> DEFINE r == [op |-> "revoke", link |-> l]
<1>1. l \in DOMAIN links /\ l \in Nat
  BY DEF IInv, TypeOK
<1>2. r \in Revokes /\ r.link = l /\ Enter(s, "decided", r)
  BY <1>1 DEF Revokes, BeginRevoke
<1> HIDE DEF r
<1>3. r \in RequestsAt("decided") /\ r.op = "revoke"
  BY <1>2, RequestOps DEF RequestsAt
<1>4. Valid(s, "decided", r)
  BY <1>1, <1>2, <1>3, RequestOps DEF Valid
<1>5. QED
  BY <1>2, <1>3, <1>4, MoveKeeps DEF BeginRevoke

LEMMA FlushLinkKeeps ==
  ASSUME IInv, NEW s \in Sessions, FlushLink(s)
  PROVE  IInv'
<1> DEFINE r == req[s]
<1>1. phase[s] = "decided" /\ r.op \in {"open", "revoke"} /\ Enter(s, "flushed", r)
  BY DEF FlushLink
<1>2. r \in RequestsAt("flushed")
  BY <1>1 DEF IInv, TypeOK, RequestsAt
<1>3. Valid(s, "flushed", r)
  BY <1>1, RequestOps DEF IInv, RequestsInv, Valid
<1> HIDE DEF r
<1>4. QED
  BY <1>1, <1>2, <1>3, MoveKeeps, RequestOps DEF FlushLink

-----------------------------------------------------------------------------
(* Steps that write a row *)

LEMMA FinishTypes ==
  ASSUME IInv, NEW s \in Sessions, Finish(s)
  PROVE  /\ phase' \in [Sessions -> {"idle", "loaded", "decided", "flushed"}]
         /\ DOMAIN req' = Sessions
         /\ \A t \in Sessions : /\ phase'[t] = IF t = s THEN "idle" ELSE phase[t]
                                /\ req'[t] = IF t = s THEN NoRequest ELSE req[t]
BY DEF Finish, Enter, IInv, TypeOK

\* The documents that a request's insert can be about
LEMMA Inserting ==
  ASSUME IInv, NEW s \in Sessions, phase[s] \in {"decided", "flushed"}, req[s].op \in Ops
  PROVE  /\ req[s] \in Inserts /\ req[s].doc \in Docs /\ req[s].body \in Bodies
         /\ req[s].no \in Nat /\ req[s].parent \in Nat /\ req[s].of \in Nat
         /\ versions[req[s].doc] \in Seq(Version)
         /\ Len(versions[req[s].doc]) \in Nat
         /\ Faithful(req[s])
         /\ phase[s] = "flushed" => req[s].no = Len(versions[req[s].doc]) + 1
<1>1. req[s] \in Inserts
  BY Stages DEF IInv, TypeOK
<1>2. /\ req[s].doc \in Docs /\ req[s].body \in Bodies
      /\ req[s].no \in Nat /\ req[s].parent \in Nat /\ req[s].of \in Nat
  BY <1>1 DEF Inserts
<1>3. versions[req[s].doc] \in Seq(Version) /\ Len(versions[req[s].doc]) \in Nat
  BY <1>2 DEF IInv, TypeOK
<1>4. Faithful(req[s]) /\ (phase[s] = "flushed" => req[s].no = Len(versions[req[s].doc]) + 1)
  BY DEF IInv, RequestsInv, Valid
<1>5. QED
  BY <1>1, <1>2, <1>3, <1>4

\* A commit appends the version with the next number, and rewrites nothing.
LEMMA VersionAppended ==
  ASSUME IInv, NEW s \in Sessions, CommitVersion(s)
  PROVE  LET r == req[s]
             v == [no |-> r.no, op |-> r.op, parent |-> r.parent, of |-> r.of, body |-> r.body]
         IN /\ v \in Version /\ v.no = Len(versions[r.doc]) + 1
            /\ versions' = [versions EXCEPT ![r.doc] = Append(@, v)]
            /\ versions' \in [Docs -> Seq(Version)]
            /\ \A d \in Docs :
                 /\ Len(versions[d]) \in Nat
                 /\ DOMAIN versions[d] = 1 .. Len(versions[d])
                 /\ DOMAIN versions'[d] = 1 .. Len(versions'[d])
                 /\ Len(versions'[d]) = IF d = r.doc THEN Len(versions[d]) + 1
                                                     ELSE Len(versions[d])
                 /\ \A i \in 1 .. Len(versions[d]) : versions'[d][i] = versions[d][i]
            /\ versions'[r.doc][Len(versions[r.doc]) + 1] = v
<1> DEFINE r == req[s]
           v == [no |-> r.no, op |-> r.op, parent |-> r.parent, of |-> r.of, body |-> r.body]
<1>1. phase[s] = "flushed" /\ r.op \in Ops
  BY DEF CommitVersion
<1>2. v \in Version /\ v.no = Len(versions[r.doc]) + 1 /\ r.doc \in Docs
  BY <1>1, Inserting DEF Version
<1>3. versions' = [versions EXCEPT ![r.doc] = Append(@, v)]
  BY DEF CommitVersion
<1> HIDE DEF v, r
<1>4. \A d \in Docs : versions[d] \in Seq(Version)
  BY DEF IInv, TypeOK
<1>5. \A d \in Docs : versions'[d] = IF d = r.doc THEN Append(versions[d], v) ELSE versions[d]
  BY <1>2, <1>3 DEF IInv, TypeOK
<1>6. versions' \in [Docs -> Seq(Version)]
  BY <1>2, <1>3, <1>4 DEF IInv, TypeOK
<1>7. ASSUME NEW d \in Docs
      PROVE  /\ Len(versions[d]) \in Nat
             /\ DOMAIN versions[d] = 1 .. Len(versions[d])
             /\ DOMAIN versions'[d] = 1 .. Len(versions'[d])
             /\ Len(versions'[d]) = IF d = r.doc THEN Len(versions[d]) + 1 ELSE Len(versions[d])
             /\ \A i \in 1 .. Len(versions[d]) : versions'[d][i] = versions[d][i]
  <2>1. versions[d] \in Seq(Version) /\ Len(versions[d]) \in Nat
    BY <1>4
  <2>2. CASE d = r.doc
    <3>1. versions'[d] = Append(versions[d], v) /\ versions'[d] \in Seq(Version)
      BY <1>5, <1>6, <2>2
    <3>2. /\ Len(Append(versions[d], v)) = Len(versions[d]) + 1
          /\ \A i \in 1 .. Len(versions[d]) : Append(versions[d], v)[i] = versions[d][i]
      BY <1>2, <2>1, AppendProperties
    <3>3. QED
      BY <2>1, <2>2, <3>1, <3>2
  <2>3. CASE d # r.doc
    BY <1>5, <2>1, <2>3
  <2>4. QED
    BY <2>2, <2>3
<1>8. versions'[r.doc][Len(versions[r.doc]) + 1] = v
  <2>1. versions[r.doc] \in Seq(Version)
    BY <1>2, <1>4
  <2>2. Append(versions[r.doc], v)[Len(versions[r.doc]) + 1] = v
    BY <1>2, <2>1, AppendProperties
  <2>3. QED
    BY <1>2, <1>5, <2>2
<1>9. QED
  BY <1>2, <1>3, <1>6, <1>7, <1>8 DEF v, r

LEMMA CommitVersionKeeps ==
  ASSUME IInv, NEW s \in Sessions, CommitVersion(s)
  PROVE  IInv'
<1> DEFINE r == req[s]
<1>1. /\ phase[s] = "flushed" /\ r.op \in Ops /\ r.doc \in Docs
      /\ r.no = Len(versions[r.doc]) + 1
  BY Inserting DEF CommitVersion
<1>2. UNCHANGED <<links, now, late>>
  BY DEF CommitVersion
<1>3. versions' \in [Docs -> Seq(Version)]
  BY VersionAppended
<1>4. \A d \in Docs : /\ Len(versions[d]) \in Nat
                      /\ DOMAIN versions[d] = 1 .. Len(versions[d])
                      /\ DOMAIN versions'[d] = 1 .. Len(versions'[d])
                      /\ Len(versions'[d]) = IF d = r.doc THEN Len(versions[d]) + 1
                                                          ELSE Len(versions[d])
                      /\ \A i \in 1 .. Len(versions[d]) : versions'[d][i] = versions[d][i]
  BY VersionAppended
<1>5. versions'[r.doc][Len(versions[r.doc]) + 1].no = Len(versions[r.doc]) + 1
  BY VersionAppended
<1>6. /\ phase' \in [Sessions -> {"idle", "loaded", "decided", "flushed"}]
      /\ DOMAIN req' = Sessions
      /\ \A t \in Sessions : /\ phase'[t] = IF t = s THEN "idle" ELSE phase[t]
                             /\ req'[t] = IF t = s THEN NoRequest ELSE req[t]
  BY FinishTypes DEF CommitVersion
<1> HIDE DEF r
<1>7. TypeOK'
  <2>1. ASSUME NEW t \in Sessions
        PROVE  /\ req'[t] \in RequestsAt(phase'[t])
               /\ phase'[t] = "loaded" => /\ req'[t].ids \subseteq DOMAIN versions'[req'[t].doc]
                                          /\ req'[t].ids # {}
               /\ req'[t].op \in {"open", "revoke"} => req'[t].link \in DOMAIN links
    <3>1. CASE t = s
      BY <1>6, <3>1, RequestOps DEF RequestsAt
    <3>2. CASE t # s
      <4>1. phase'[t] = phase[t] /\ req'[t] = req[t]
        BY <1>6, <3>2
      <4>2. /\ req[t] \in RequestsAt(phase[t])
            /\ phase[t] = "loaded" => req[t].ids \subseteq DOMAIN versions[req[t].doc] /\ req[t].ids # {}
            /\ req[t].op \in {"open", "revoke"} => req[t].link \in DOMAIN links
        BY DEF IInv, TypeOK
      <4>3. phase[t] = "loaded" => req[t].doc \in Docs
        BY Loaded
      <4>4. ASSUME NEW d \in Docs
            PROVE  DOMAIN versions[d] \subseteq DOMAIN versions'[d]
        BY <1>4
      <4>5. QED
        BY <4>1, <4>2, <4>3, <4>4
    <3>3. QED
      BY <3>1, <3>2
  <2>2. QED
    BY <1>2, <1>3, <1>6, <2>1 DEF IInv, TypeOK, RequestsAt
<1>8. Numbered'
  <2> SUFFICES ASSUME NEW d \in Docs, NEW i \in 1 .. Len(versions'[d])
               PROVE  versions'[d][i].no = i
    BY DEF Numbered
  <2>1. CASE i \in 1 .. Len(versions[d])
    BY <1>4, <2>1 DEF IInv, Numbered
  <2>2. CASE i \notin 1 .. Len(versions[d])
    <3>1. d = r.doc /\ i = Len(versions[r.doc]) + 1
      BY <1>4, <2>2
    <3>2. QED
      BY <1>5, <3>1
  <2>3. QED
    BY <2>1, <2>2
<1>9. RequestsInv'
  <2> SUFFICES ASSUME NEW t \in Sessions
               PROVE  Valid(t, phase[t], req[t])'
    BY DEF RequestsInv
  <2>1. CASE t = s
    BY <1>6, <2>1, RequestOps DEF Valid
  <2>2. CASE t # s
    <3> DEFINE q == req[t]
    <3>1. phase'[t] = phase[t] /\ req'[t] = q
      BY <1>6, <2>2
    <3>2. Valid(t, phase[t], q)
      BY DEF IInv, RequestsInv
    <3>3. ASSUME phase[t] = "loaded"
          PROVE  \E k \in 1 .. Len(versions'[q.doc]) : q.ids = 1 .. k
      <4>1. q.doc \in Docs
        BY <3>3, Loaded
      <4>2. PICK k \in 1 .. Len(versions[q.doc]) : q.ids = 1 .. k
        BY <3>2, <3>3 DEF Valid
      <4>3. k \in 1 .. Len(versions'[q.doc])
        BY <1>4, <4>1, <4>2
      <4>4. QED
        BY <4>2, <4>3
    <3>4. ASSUME phase[t] \in {"decided", "flushed"}, q.op \in Ops
          PROVE  Faithful(q)'
      <4>1. q.doc \in Docs /\ Faithful(q)
        BY <3>4, Inserting
      <4>2. /\ Len(versions[q.doc]) \in Nat /\ Len(versions'[q.doc]) \in Nat
            /\ Len(versions[q.doc]) <= Len(versions'[q.doc])
            /\ \A i \in 1 .. Len(versions[q.doc]) : versions'[q.doc][i] = versions[q.doc][i]
        BY <1>4, <4>1
      <4> HIDE DEF q
      <4>3. /\ q.no \in 1 .. Len(versions'[q.doc]) + 1
            /\ q.op \in {"copy", "rollback"} =>
                 /\ q.of \in 1 .. Len(versions'[q.doc])
                 /\ q.body = versions'[q.doc][q.of].body
        BY <4>1, <4>2 DEF Faithful
      <4>4. req'[t] = q
        BY <3>1
      <4>5. QED
        BY <3>1, <4>1, <4>3 DEF Faithful, q
    <3>5. ASSUME phase[t] = "flushed", q.op \in Ops
          PROVE  q.no = Len(versions'[q.doc]) + 1
      <4>1. q.doc # r.doc
        BY <1>1, <2>2, <3>5 DEF IInv, OneInsert, r
      <4>2. q.doc \in Docs /\ q.no = Len(versions[q.doc]) + 1
        BY <3>5, Inserting
      <4>3. QED
        BY <1>4, <4>1, <4>2
    <3>6. QED
      BY <1>2, <3>1, <3>2, <3>3, <3>4, <3>5 DEF Valid
  <2>3. QED
    BY <2>1, <2>2
<1>10. OneInsert'
  BY <1>6, RequestOps DEF IInv, OneInsert
<1>11. LateInv'
  BY <1>2 DEF IInv, LateInv, Closed
<1>12. QED
  BY <1>7, <1>8, <1>9, <1>10, <1>11 DEF IInv

\* A step that ends at most the request of s keeps the invariant if it removes no link,
\* leaves what is closed closed, and counts but a first late opening of a closed link.
LEMMA LinksKeep ==
  ASSUME IInv, NEW s \in Sessions, UNCHANGED versions, now' \in Times,
         links' \in Seq(Link), DOMAIN links \subseteq DOMAIN links',
         \A l \in DOMAIN links : Closed(l) => Closed(l)',
         phase' \in [Sessions -> {"idle", "loaded", "decided", "flushed"}],
         DOMAIN req' = Sessions,
         \A t \in Sessions : \/ t = s /\ phase'[t] = "idle" /\ req'[t] = NoRequest
                             \/ t # s /\ phase'[t] = phase[t] /\ req'[t] = req[t],
         late' \in [Sessions -> [1 .. MaxLinks -> Nat]],
         \A t \in Sessions, l \in 1 .. MaxLinks :
           \/ late'[t][l] = late[t][l]
           \/ t = s /\ late'[t][l] <= 1 /\ l \in DOMAIN links /\ Closed(l)
  PROVE  IInv'
<1>1. TypeOK'
  <2>1. ASSUME NEW t \in Sessions
        PROVE  /\ req'[t] \in RequestsAt(phase'[t])
               /\ phase'[t] = "loaded" => /\ req'[t].ids \subseteq DOMAIN versions[req'[t].doc]
                                          /\ req'[t].ids # {}
               /\ req'[t].op \in {"open", "revoke"} => req'[t].link \in DOMAIN links'
    <3>1. CASE t = s
      BY <3>1, RequestOps DEF RequestsAt
    <3>2. CASE t # s
      BY <3>2 DEF IInv, TypeOK
    <3>3. QED
      BY <3>1, <3>2
  <2>2. QED
    BY <2>1 DEF IInv, TypeOK, RequestsAt
<1>2. Numbered'
  BY DEF IInv, Numbered
<1>3. RequestsInv'
  <2> SUFFICES ASSUME NEW t \in Sessions
               PROVE  Valid(t, phase[t], req[t])'
    BY DEF RequestsInv
  <2>1. CASE t = s
    BY <2>1, RequestOps DEF Valid
  <2>2. CASE t # s
    <3>1. phase'[t] = phase[t] /\ req'[t] = req[t] /\ Valid(t, phase[t], req[t])
      BY <2>2 DEF IInv, RequestsInv
    <3>2. \A l \in 1 .. MaxLinks : late'[t][l] = late[t][l]
      BY <2>2
    <3>3. Faithful(req[t]) => Faithful(req[t])'
      BY <3>1 DEF Faithful
    <3>4. QED
      BY <3>1, <3>2, <3>3 DEF Valid
  <2>3. QED
    BY <2>1, <2>2
<1>4. OneInsert'
  <2> SUFFICES ASSUME NEW t \in Sessions, NEW u \in Sessions,
                      phase'[t] = "flushed", req'[t].op \in Ops,
                      phase'[u] = "flushed", req'[u].op \in Ops, req'[t].doc = req'[u].doc
               PROVE  t = u
    BY DEF OneInsert
  <2>1. phase'[t] = phase[t] /\ req'[t] = req[t] /\ phase'[u] = phase[u] /\ req'[u] = req[u]
    OBVIOUS
  <2>2. QED
    BY <2>1 DEF IInv, OneInsert
<1>5. LateInv'
  <2> SUFFICES ASSUME NEW t \in Sessions, NEW l \in 1 .. MaxLinks
               PROVE  /\ late'[t][l] <= 1
                      /\ late'[t][l] > 0 => l \in DOMAIN links' /\ Closed(l)'
    BY DEF LateInv
  <2>1. late[t][l] <= 1 /\ (late[t][l] > 0 => l \in DOMAIN links /\ Closed(l))
    BY DEF IInv, LateInv
  <2>2. QED
    BY <2>1
<1>6. QED
  BY <1>1, <1>2, <1>3, <1>4, <1>5 DEF IInv

LEMMA CommitIssueKeeps ==
  ASSUME IInv, NEW s \in Sessions, CommitIssue(s)
  PROVE  IInv'
<1> DEFINE link == [by |-> s, expires |-> req[s].expires, revoked |-> FALSE, opened |-> FALSE]
<1>1. UNCHANGED <<versions, now, late>>
  BY DEF CommitIssue
<1>2. link \in Link
  <2>1. req[s] \in Issues
    BY Stages DEF CommitIssue, IInv, TypeOK
  <2>2. QED
    BY <2>1 DEF Issues, Link
<1>3. links' = Append(links, link)
  BY DEF CommitIssue
<1> HIDE DEF link
<1>4. links \in Seq(Link) /\ DOMAIN links = 1 .. Len(links) /\ Len(links) \in Nat
  BY DEF IInv, TypeOK
<1>5. /\ links' \in Seq(Link)
      /\ \A l \in DOMAIN links : l \in DOMAIN links' /\ links'[l] = links[l]
  <2>1. /\ links' \in Seq(Link) /\ Len(links') = Len(links) + 1
        /\ \A l \in 1 .. Len(links) : links'[l] = links[l]
    BY <1>2, <1>3, <1>4, AppendProperties
  <2>2. QED
    BY <1>4, <2>1
<1>6. /\ phase' \in [Sessions -> {"idle", "loaded", "decided", "flushed"}]
      /\ DOMAIN req' = Sessions
      /\ \A t \in Sessions : /\ phase'[t] = IF t = s THEN "idle" ELSE phase[t]
                             /\ req'[t] = IF t = s THEN NoRequest ELSE req[t]
  BY FinishTypes DEF CommitIssue
<1>7. \A l \in DOMAIN links : Closed(l) => Closed(l)'
  BY <1>1, <1>5 DEF Closed
<1>8. late' \in [Sessions -> [1 .. MaxLinks -> Nat]] /\ now' \in Times
  BY <1>1 DEF IInv, TypeOK
<1>9. \A t \in Sessions, l \in 1 .. MaxLinks : late'[t][l] = late[t][l]
  BY <1>1
<1>10. DOMAIN links \subseteq DOMAIN links'
  BY <1>5
<1>11. QED
  BY <1>1, <1>5, <1>6, <1>7, <1>8, <1>9, <1>10, LinksKeep

LEMMA LinkUpdated ==
  ASSUME TypeOK, NEW k \in DOMAIN links, NEW link \in Link, now' = now,
         link.expires = links[k].expires, links[k].revoked => link.revoked,
         links' = [links EXCEPT ![k] = link]
  PROVE  /\ links' \in Seq(Link)
         /\ DOMAIN links' = DOMAIN links
         /\ \A l \in DOMAIN links : Closed(l) => Closed(l)'
<1>1. links \in Seq(Link) /\ DOMAIN links = 1 .. Len(links) /\ Len(links) \in Nat
  BY DEF TypeOK
<1>2. /\ links' \in Seq(Link) /\ DOMAIN links' = DOMAIN links
      /\ \A l \in DOMAIN links : links'[l] = IF l = k THEN link ELSE links[l]
  BY <1>1
<1>3. QED
  BY <1>2 DEF Closed

LEMMA CommitOpenKeeps ==
  ASSUME IInv, NEW s \in Sessions, CommitOpen(s)
  PROVE  IInv'
<1> DEFINE k == req[s].link
           link == [links[k] EXCEPT !.opened = TRUE]
<1>1. UNCHANGED <<versions, now>> /\ links' = [links EXCEPT ![k] = link]
  BY DEF CommitOpen, Opened
<1>2. k \in DOMAIN links /\ links[k] \in Link
  BY DEF CommitOpen, IInv, TypeOK
<1>3. link \in Link /\ link.expires = links[k].expires /\ link.revoked = links[k].revoked
  BY <1>2 DEF Link
<1>4. k \in 1 .. MaxLinks => late[s][k] = 0
  BY DEF CommitOpen, IInv, RequestsInv, Valid
<1>5. late' = IF Closed(k) THEN [late EXCEPT ![s][k] = @ + 1] ELSE late
  BY DEF CommitOpen
<1> HIDE DEF k, link
<1>6. /\ links' \in Seq(Link) /\ DOMAIN links' = DOMAIN links
      /\ \A l \in DOMAIN links : Closed(l) => Closed(l)'
  BY <1>1, <1>2, <1>3, LinkUpdated DEF IInv
<1>7. /\ phase' \in [Sessions -> {"idle", "loaded", "decided", "flushed"}]
      /\ DOMAIN req' = Sessions
      /\ \A t \in Sessions : /\ phase'[t] = IF t = s THEN "idle" ELSE phase[t]
                             /\ req'[t] = IF t = s THEN NoRequest ELSE req[t]
  BY FinishTypes DEF CommitOpen
<1>8. late \in [Sessions -> [1 .. MaxLinks -> Nat]] /\ now' \in Times
  BY <1>1 DEF IInv, TypeOK
<1>9. /\ late' \in [Sessions -> [1 .. MaxLinks -> Nat]]
      /\ \A t \in Sessions, l \in 1 .. MaxLinks :
           \/ late'[t][l] = late[t][l]
           \/ t = s /\ l = k /\ late'[t][l] = late[t][l] + 1 /\ Closed(k)
  <2>1. CASE Closed(k)
    <3> DEFINE row == [late[s] EXCEPT ![k] = late[s][k] + 1]
    <3>1. late' = [late EXCEPT ![s] = row]
      BY <1>5, <2>1
    <3>2. late[s] \in [1 .. MaxLinks -> Nat]
      BY <1>8
    <3>3. /\ row \in [1 .. MaxLinks -> Nat]
          /\ \A l \in 1 .. MaxLinks : row[l] = IF l = k THEN late[s][l] + 1 ELSE late[s][l]
      <4> DEFINE old == late[s]
                 n == old[k] + 1
      <4>1. old \in [1 .. MaxLinks -> Nat]
        BY <3>2
      <4>2. row = [old EXCEPT ![k] = n]
        OBVIOUS
      <4> HIDE DEF old, row
      <4>3. k \in 1 .. MaxLinks => n \in Nat
        <5>1. ASSUME k \in 1 .. MaxLinks
              PROVE  n \in Nat
          <6>1. old[k] \in Nat
            BY <4>1, <5>1
          <6>2. QED
            BY <6>1
        <5>2. QED
          BY <5>1
      <4> HIDE DEF n
      <4>4. row \in [1 .. MaxLinks -> Nat]
        BY <4>1, <4>2, <4>3
      <4>5. \A l \in 1 .. MaxLinks : row[l] = IF l = k THEN n ELSE old[l]
        BY <4>1, <4>2
      <4>6. QED
        BY <4>4, <4>5 DEF old, n
    <3> HIDE DEF row
    <3>4. late' \in [Sessions -> [1 .. MaxLinks -> Nat]]
      BY <1>8, <3>1, <3>3
    <3>5. \A t \in Sessions : late'[t] = IF t = s THEN row ELSE late[t]
      BY <1>8, <3>1
    <3>6. QED
      BY <2>1, <3>3, <3>4, <3>5
  <2>2. CASE ~ Closed(k)
    BY <1>5, <1>8, <2>2
  <2>3. QED
    BY <2>1, <2>2
<1>10. \A t \in Sessions, l \in 1 .. MaxLinks :
         \/ late'[t][l] = late[t][l]
         \/ t = s /\ late'[t][l] <= 1 /\ l \in DOMAIN links /\ Closed(l)
  BY <1>2, <1>4, <1>9
<1>11. QED
  BY <1>1, <1>6, <1>7, <1>8, <1>9, <1>10, LinksKeep

LEMMA CommitRevokeKeeps ==
  ASSUME IInv, NEW s \in Sessions, CommitRevoke(s)
  PROVE  IInv'
<1> DEFINE k == req[s].link
           link == [links[k] EXCEPT !.revoked = TRUE]
<1>1. UNCHANGED <<versions, now, late>> /\ links' = [links EXCEPT ![k] = link]
  BY DEF CommitRevoke
<1>2. k \in DOMAIN links /\ links[k] \in Link
  BY DEF CommitRevoke, IInv, TypeOK
<1>3. link \in Link /\ link.expires = links[k].expires /\ link.revoked
  BY <1>2 DEF Link
<1> HIDE DEF k, link
<1>4. /\ links' \in Seq(Link) /\ DOMAIN links' = DOMAIN links
      /\ \A l \in DOMAIN links : Closed(l) => Closed(l)'
  BY <1>1, <1>2, <1>3, LinkUpdated DEF IInv
<1>5. /\ phase' \in [Sessions -> {"idle", "loaded", "decided", "flushed"}]
      /\ DOMAIN req' = Sessions
      /\ \A t \in Sessions : /\ phase'[t] = IF t = s THEN "idle" ELSE phase[t]
                             /\ req'[t] = IF t = s THEN NoRequest ELSE req[t]
  BY FinishTypes DEF CommitRevoke
<1>6. late' \in [Sessions -> [1 .. MaxLinks -> Nat]] /\ now' \in Times
  BY <1>1 DEF IInv, TypeOK
<1>7. \A t \in Sessions, l \in 1 .. MaxLinks : late'[t][l] = late[t][l]
  BY <1>1
<1>8. QED
  BY <1>1, <1>4, <1>5, <1>6, <1>7, LinksKeep

-----------------------------------------------------------------------------
(* The invariant *)

\* The clock closes links, and opens none.
LEMMA TickKeeps ==
  ASSUME IInv, Tick
  PROVE  IInv'
<1>1. UNCHANGED <<versions, links, phase, req, late>>
  BY DEF Tick
<1>2. now \in Nat /\ now' = now + 1 /\ now' \in Times
  BY DocumentsAssumption DEF Tick, IInv, TypeOK, Times
<1>3. TypeOK'
  BY <1>1, <1>2 DEF IInv, TypeOK, RequestsAt
<1>4. Numbered' /\ OneInsert'
  BY <1>1 DEF IInv, Numbered, OneInsert
<1>5. RequestsInv'
  <2> SUFFICES ASSUME NEW t \in Sessions
               PROVE  Valid(t, phase[t], req[t])'
    BY DEF RequestsInv
  <2>1. Valid(t, phase[t], req[t])
    BY DEF IInv, RequestsInv
  <2>2. QED
    BY <1>1, <2>1 DEF Valid, Faithful
<1>6. \A l \in DOMAIN links : Closed(l) => Closed(l)'
  <2> SUFFICES ASSUME NEW l \in DOMAIN links
               PROVE  Closed(l) => Closed(l)'
    OBVIOUS
  <2>1. links[l].expires \in Nat
    <3>1. links[l] \in Link
      BY DEF IInv, TypeOK
    <3>2. QED
      BY <3>1 DEF Link
  <2>2. QED
    BY <1>1, <1>2, <2>1 DEF Closed
<1>7. LateInv'
  BY <1>1, <1>6 DEF IInv, LateInv
<1>8. QED
  BY <1>3, <1>4, <1>5, <1>7 DEF IInv

LEMMA StepKeeps == IInv /\ [Next]_vars => IInv'
<1> SUFFICES ASSUME IInv, [Next]_vars PROVE IInv'
  OBVIOUS
<1>1. CASE Tick
  BY <1>1, TickKeeps
<1>2. CASE \E s \in Sessions : Versioning(s)
  <2>1. PICK s \in Sessions : Versioning(s)
    BY <1>2
  <2>2. CASE \E d \in Docs, b \in Bodies :
               BeginCreate(s, d, b) \/ PublishTemplate(s, d, b) \/ PublishRuleSet(s, d, b)
    BY <2>2, BeginCreateKeeps, PublishKeeps DEF PublishTemplate, PublishRuleSet
  <2>3. CASE \E d \in Plans, op \in {"write", "copy", "rollback"} : LoadPlan(s, d, op)
    BY <2>3, LoadPlanKeeps
  <2>4. CASE \E b \in Bodies : WriteVersion(s, b)
    BY <2>4, WriteVersionKeeps
  <2>5. CASE CopyVersion(s)
    BY <2>5, CopyVersionKeeps
  <2>6. CASE RollBack(s)
    BY <2>6, RollBackKeeps
  <2>7. CASE FlushVersion(s)
    BY <2>7, FlushVersionKeeps
  <2>8. CASE CommitVersion(s)
    BY <2>8, CommitVersionKeeps
  <2>9. QED
    BY <2>1, <2>2, <2>3, <2>4, <2>5, <2>6, <2>7, <2>8 DEF Versioning
<1>3. CASE \E s \in Sessions : Sharing(s)
  <2>1. PICK s \in Sessions : Sharing(s)
    BY <1>3
  <2>2. CASE \E days \in Days : BeginIssue(s, days)
    BY <2>2, BeginIssueKeeps
  <2>3. CASE \E l \in 1 .. Len(links) : BeginOpen(s, l) \/ BeginRevoke(s, l)
    BY <2>3, BeginOpenKeeps, BeginRevokeKeeps
  <2>4. CASE CommitIssue(s)
    BY <2>4, CommitIssueKeeps
  <2>5. CASE FlushLink(s)
    BY <2>5, FlushLinkKeeps
  <2>6. CASE CommitOpen(s)
    BY <2>6, CommitOpenKeeps
  <2>7. CASE CommitRevoke(s)
    BY <2>7, CommitRevokeKeeps
  <2>8. QED
    BY <2>1, <2>2, <2>3, <2>4, <2>5, <2>6, <2>7 DEF Sharing
<1>4. CASE \E s \in Sessions : Undo(s)
  BY <1>4, UndoKeeps DEF Undo
<1>5. CASE UNCHANGED vars
  <2>1. UNCHANGED <<versions, links, now, phase, req, late>>
    BY <1>5 DEF vars
  <2>2. TypeOK'
    BY <2>1 DEF IInv, TypeOK, RequestsAt
  <2>3. Numbered' /\ OneInsert' /\ LateInv'
    BY <2>1 DEF IInv, Numbered, OneInsert, LateInv, Closed
  <2>4. RequestsInv'
    BY <2>1 DEF IInv, RequestsInv, Valid, Faithful
  <2>5. QED
    BY <2>2, <2>3, <2>4 DEF IInv
<1>6. QED
  BY <1>1, <1>2, <1>3, <1>4, <1>5 DEF Next

LEMMA Invariance == Spec => []IInv
<1>1. QED
  BY InitHolds, StepKeeps, PTL DEF Spec

\* The variables have their types and requests refer to what exists, however many
\* sessions write how many documents and links.
THEOREM DocumentTypes == Spec => []TypeOK
<1>1. IInv => TypeOK
  BY DEF IInv
<1>2. QED
  BY <1>1, Invariance, PTL

\* Once a link is revoked or expired, each session opens it at most once more: a second
\* opening would have to begin with a check of the closed link.
THEOREM OpenedOnceLate == Spec => []OneLateOpening
<1>1. IInv => OneLateOpening
  BY DEF IInv, LateInv, OneLateOpening
<1>2. QED
  BY <1>1, Invariance, PTL

-----------------------------------------------------------------------------
(* Documents implements DocumentHistory *)

\* A committed version continues its document's history in the way its operation says.
LEMMA CommitImplements ==
  ASSUME IInv, NEW s \in Sessions, CommitVersion(s)
  PROVE  History!Next
<1> DEFINE r == req[s]
           d == r.doc
           n == Len(versions[d])
<1>1. phase[s] = "flushed" /\ r.op \in Ops
  BY DEF CommitVersion
<1>2. /\ d \in Docs /\ r.body \in Bodies /\ r.no = n + 1 /\ n \in Nat /\ Faithful(r)
      /\ r.of \in Nat
  BY <1>1, Inserting
<1>3. History!Grow(d, r.op, r.parent, r.of, r.body)
  BY <1>2 DEF CommitVersion, History!Grow, History!Latest
<1>4. History!Latest(d) = n
  BY DEF History!Latest
<1> HIDE DEF n, d, r
<1>5. CASE r.op = "create"
  <2>1. n = 0 /\ r.parent = 0 /\ r.of = 0
    BY <1>2, <1>5 DEF Faithful, None
  <2>2. History!Create(d)
    BY <1>2, <1>3, <1>4, <1>5, <2>1 DEF History!Create
  <2>3. QED
    BY <1>2, <2>2 DEF History!Next, Docs
<1>6. CASE r.op = "publish"
  <2>1. d \in Templates \cup RuleSets /\ n > 0 /\ r.parent = 0 /\ r.of = 0
    BY <1>2, <1>6 DEF Faithful, None, d
  <2>2. History!Publish(d)
    BY <1>2, <1>3, <1>4, <1>6, <2>1 DEF History!Publish
  <2>3. QED
    BY <2>1, <2>2 DEF History!Next
<1>7. CASE r.op = "write"
  <2>1. d \in Plans /\ n > 0 /\ r.of \in 0 .. n /\ r.parent = IF r.of = 0 THEN n ELSE r.of
    BY <1>2, <1>7 DEF Faithful, None, d
  <2>2. History!Write(d)
    <3>1. CASE r.of = 0
      BY <1>2, <1>3, <1>4, <1>7, <2>1, <3>1 DEF History!Write
    <3>2. CASE r.of # 0
      <4>1. r.of \in 1 .. n /\ r.parent = r.of
        BY <1>2, <2>1, <3>2
      <4>2. QED
        BY <1>2, <1>3, <1>4, <1>7, <2>1, <4>1 DEF History!Write
    <3>3. QED
      BY <3>1, <3>2
  <2>3. QED
    BY <2>1, <2>2 DEF History!Next
<1>8. CASE r.op = "copy"
  <2>1. d \in Plans /\ r.of \in 1 .. n /\ r.parent = r.of /\ r.body = versions[d][r.of].body
    BY <1>2, <1>8 DEF Faithful, d, n
  <2>2. History!Copy(d)
    BY <1>3, <1>4, <1>8, <2>1 DEF History!Copy
  <2>3. QED
    BY <2>1, <2>2 DEF History!Next
<1>9. CASE r.op = "rollback"
  <2>1. d \in Plans /\ r.of \in 1 .. n /\ r.parent = n /\ r.body = versions[d][r.of].body
    BY <1>2, <1>9 DEF Faithful, d, n
  <2>2. History!RollBack(d)
    BY <1>3, <1>4, <1>9, <2>1 DEF History!RollBack
  <2>3. QED
    BY <2>1, <2>2 DEF History!Next
<1>10. QED
  BY <1>1, <1>5, <1>6, <1>7, <1>8, <1>9, RequestOps

\* Every step but a commit of a version leaves the histories alone.
LEMMA StepImplements == IInv /\ [Next]_vars => [History!Next]_versions
<1> SUFFICES ASSUME IInv, [Next]_vars PROVE [History!Next]_versions
  OBVIOUS
<1>1. CASE \E s \in Sessions : CommitVersion(s)
  BY <1>1, CommitImplements
<1>2. CASE ~ \E s \in Sessions : CommitVersion(s)
  <2>1. UNCHANGED versions
    <3>1. CASE Tick
      BY <3>1 DEF Tick
    <3>2. CASE \E s \in Sessions : Versioning(s)
      BY <1>2, <3>2 DEF Versioning, BeginCreate, PublishTemplate, PublishRuleSet, Publish,
                        LoadPlan, WriteVersion, CopyVersion, RollBack, FlushVersion
    <3>3. CASE \E s \in Sessions : Sharing(s)
      BY <3>3 DEF Sharing, BeginIssue, BeginOpen, BeginRevoke, CommitIssue, FlushLink,
                  CommitOpen, CommitRevoke
    <3>4. CASE \E s \in Sessions : Undo(s)
      BY <3>4 DEF Undo
    <3>5. CASE UNCHANGED vars
      BY <3>5 DEF vars
    <3>6. QED
      BY <3>1, <3>2, <3>3, <3>4, <3>5 DEF Next
  <2>2. QED
    BY <2>1
<1>3. QED
  BY <1>1, <1>2

\* However the requests on plans, templates and rule sets interleave, the versions are a
\* history as DocumentHistory promises it: without gaps, never rewritten, and true about
\* what each version was made from.
THEOREM HistoryImplemented == Spec => ImplementsHistory
<1>1. Init => History!Init
  BY DEF Init, History!Init, Docs
<1>2. QED
  BY <1>1, StepImplements, Invariance, PTL DEF Spec, ImplementsHistory, History!Spec
=============================================================================
