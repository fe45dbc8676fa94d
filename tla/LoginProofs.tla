---------------------------- MODULE LoginProofs ----------------------------
(***************************************************************************)
(* Proofs about Login for any number of connections, any threshold, window *)
(* and lifetime of a session.                                              *)
(***************************************************************************)
EXTENDS Login, FiniteSetTheorems, SequenceTheorems, TLAPS

\* Requests whose wrong password is recorded, those whose is counted too, and those that
\* try one
Recorded(t) == phase[t] # "found" /\ req[t].op = "wrong"
Counting(t) == phase[t] \in {"decided", "flushed"} /\ req[t].op = "wrong"
Trying(t) == req[t].op \in {"wrong", "login"}

\* An attempt's row belongs to one request, until it is committed.
IdsInv ==
  \A t \in Tasks : Recorded(t) =>
    /\ req[t].id \notin failures
    /\ \A u \in Tasks : Recorded(u) /\ req[u].id = req[t].id => u = t

\* The attempts of S in the window that have not locked the account
Guesses(S) == {i \in S : attempts[i].at >= now - Window /\ ~ attempts[i].locks}

Counted == {req[t].id : t \in {u \in Tasks : Counting(u)}}

\* GuessesBounded, the attempts under way that were counted included
GuessesInv ==
  Cardinality(Guesses(failures \cup Counted)) <= Threshold - 2 + Cardinality(Tasks)

\* While the account is locked, an attempt under way is its connection's first since the
\* lock was committed, or has read the lock that will stop it.
LateInv == Locked => \A t \in Tasks :
  /\ late[t] <= 1
  /\ Trying(t) => \/ late[t] = 0
                  \/ phase[t] = "found" /\ req[t].locked = user.locked

\* No request of a session is executed after the logout until the logout is committed.
SessionsSound ==
  /\ SessionsEnd
  /\ \A k \in 1 .. Len(sessions) :
       sessions[k].ended = Never => \A t \in Tasks : sessions[k].after[t] = 0

\* A request of a session under way is its connection's first since the logout, and took the
\* time before the expiry.
SessionsInv ==
  /\ SessionsSound
  /\ \A t \in Tasks : req[t].op \in SessionOps =>
       /\ sessions[req[t].session].after[t] = 0
       /\ phase[t] # "found" => req[t].seen < sessions[req[t].session].expires
  /\ \A t \in Tasks : req[t].op = "login" => req[t].began <= now
  /\ \A t \in Tasks : phase[t] \in {"decided", "flushed"} /\ req[t].op = "login" =>
       req[t].began < req[t].expires

\* As long as no change has overtaken a rehash, what is about to be rehashed is current.
PasswordInv ==
  ~ raced => /\ user.password = changes
             /\ \A t \in AboutToRehash : req[t].password = changes

IInv == TypeOK /\ IdsInv /\ GuessesInv /\ LateInv /\ SessionsInv /\ PasswordInv

-----------------------------------------------------------------------------
(* The parts of the model *)

LEMMA Operations ==
  /\ \A r \in WrongTries : r.op = "wrong" /\ r.locked \in Nat /\ r.began \in Times
  /\ \A r \in LoginTries : /\ r.op = "login" /\ r.locked \in Nat /\ r.began \in Times
                           /\ r.password \in Nat /\ r.old \in BOOLEAN
  /\ \A r \in Visitors : r.op \in SessionOps /\ r.session \in Nat
  /\ \A r \in Wrongs \cup Counteds : r.op = "wrong" /\ r.id \in Nat
  /\ \A r \in Counteds : r.writes \in BOOLEAN /\ r.until \in Nat
  /\ \A r \in Logins \cup Cleareds : /\ r.op = "login" /\ r.password \in Nat
                                     /\ r.old \in BOOLEAN /\ r.began \in Times
  /\ \A r \in Cleareds : r.writes /\ r.cleared \in SUBSET Nat /\ r.expires \in Nat
  /\ \A r \in Visits \cup Changes : r.op \in SessionOps /\ r.session \in Nat /\ r.seen \in Times
  /\ \A r \in Changes : r.op = "change" /\ r.writes
  /\ \A r \in Unlocks : r.op = "unlock" /\ r.writes \in BOOLEAN
  /\ NoRequest.op = "none"
  /\ SessionOps = {"visit", "logout", "change"}
BY DEF WrongTries, LoginTries, Visitors, Wrongs, Counteds, Logins, Cleareds, Visits, Changes,
       Unlocks, NoRequest, SessionOps

\* The stage a request has reached and its operation determine its fields.
LEMMA Stages ==
  ASSUME NEW p \in {"idle", "found", "read", "running", "decided", "flushed"}, NEW r \in RequestsAt(p)
  PROVE  /\ p = "idle" <=> r = NoRequest
         /\ p = "found" /\ r.op = "wrong" => r \in WrongTries
         /\ p = "found" /\ r.op = "login" => r \in LoginTries
         /\ p = "found" /\ r.op \in SessionOps => r \in Visitors
         /\ p = "read" /\ r.op = "wrong" => r \in Wrongs
         /\ p = "read" /\ r.op = "login" => r \in Logins
         /\ p = "read" /\ r.op \in SessionOps => r \in Visits
         /\ p = "running" => r \in Visits
         /\ p \in {"decided", "flushed"} /\ r.op = "wrong" => r \in Counteds
         /\ p \in {"decided", "flushed"} /\ r.op = "login" => r \in Cleareds
         /\ p \in {"decided", "flushed"} /\ r.op \in SessionOps => r \in Changes
         /\ p \in {"decided", "flushed"} /\ r.op = "unlock" => r \in Unlocks
         /\ r.op \in {"none", "wrong", "login", "unlock"} \cup SessionOps
<1>1. CASE p = "idle"
  BY <1>1, Operations DEF RequestsAt
<1>2. CASE p = "read"
  <2>1. r \in Wrongs \cup Logins \cup Visits
    BY <1>2 DEF RequestsAt
  <2>2. QED
    BY <1>2, <2>1, Operations
<1>3. CASE p = "running"
  BY <1>3, Operations DEF RequestsAt
<1>4. CASE p \in {"decided", "flushed"}
  <2>1. r \in Counteds \cup Cleareds \cup Changes \cup Unlocks
    BY <1>4 DEF RequestsAt
  <2>2. QED
    BY <1>4, <2>1, Operations
<1>5. CASE p = "found"
  <2>1. r \in WrongTries \cup LoginTries \cup Visitors
    BY <1>5 DEF RequestsAt
  <2>2. QED
    BY <1>5, <2>1, Operations
<1>6. QED
  BY <1>1, <1>2, <1>3, <1>4, <1>5

LEMMA Moved ==
  ASSUME TypeOK, NEW t \in Tasks, NEW p \in {"idle", "found", "read", "running", "decided", "flushed"},
         NEW r, Enter(t, p, r)
  PROVE  /\ phase' \in [Tasks -> {"idle", "found", "read", "running", "decided", "flushed"}]
         /\ DOMAIN req' = Tasks
         /\ \A u \in Tasks : /\ phase'[u] = IF u = t THEN p ELSE phase[u]
                             /\ req'[u] = IF u = t THEN r ELSE req[u]
BY DEF TypeOK, Enter

LEMMA FiniteGuesses ==
  ASSUME TypeOK
  PROVE  /\ IsFiniteSet(DOMAIN attempts)
         /\ DOMAIN attempts = 1 .. Len(attempts)
         /\ Len(attempts) \in Nat
         /\ Guesses(failures \cup Counted) \subseteq DOMAIN attempts
         /\ IsFiniteSet(Guesses(failures \cup Counted))
<1>1. Len(attempts) \in Nat /\ DOMAIN attempts = 1 .. Len(attempts)
  BY DEF TypeOK
<1>2. IsFiniteSet(DOMAIN attempts)
  BY <1>1, FS_Interval
<1>3. Guesses(failures \cup Counted) \subseteq DOMAIN attempts
  BY DEF TypeOK, Guesses, Counted, Counting
<1>4. QED
  BY <1>1, <1>2, <1>3, FS_Subset

\* The bound on the guesses stays where their set does not grow.
LEMMA FewerGuesses ==
  ASSUME TypeOK, GuessesInv, Guesses(failures \cup Counted)' \subseteq Guesses(failures \cup Counted)
  PROVE  GuessesInv'
<1> DEFINE G == Guesses(failures \cup Counted)
           H == Guesses(failures \cup Counted)'
<1>1. IsFiniteSet(G) /\ H \in SUBSET G
  BY FiniteGuesses
<1>2. Cardinality(H) <= Cardinality(G) /\ Cardinality(G) \in Nat /\ Cardinality(H) \in Nat
  BY <1>1, FS_Subset, FS_CardinalityType
<1>3. Cardinality(Tasks) \in Nat
  BY TasksAssumption, FS_CardinalityType
<1>4. Cardinality(G) <= Threshold - 2 + Cardinality(Tasks)
  BY DEF GuessesInv
<1>5. Threshold \in Nat
  BY LoginAssumption
<1>6. Cardinality(H) <= Threshold - 2 + Cardinality(Tasks)
  BY <1>2, <1>3, <1>4, <1>5
<1>7. QED
  BY <1>6 DEF GuessesInv

LEMMA InitHolds == Init => IInv
<1> SUFFICES ASSUME Init PROVE IInv
  OBVIOUS
<1>1. /\ \A t \in Tasks : /\ phase[t] = "idle" /\ req[t] = NoRequest /\ late[t] = 0
      /\ phase \in [Tasks -> {"idle", "found", "read", "running", "decided", "flushed"}]
      /\ DOMAIN req = Tasks
      /\ late \in [Tasks -> Nat]
  BY Operations DEF Init
<1>2. TypeOK
  <2>1. now \in Times /\ begun \in 0 .. MaxRequests
    BY LoginAssumption DEF Init, Times
  <2>2. user \in User
    BY DEF Init, User, Never
  <2>3. attempts \in Seq(Attempt) /\ sessions \in Seq(Session) /\ failures \subseteq DOMAIN attempts
    BY DEF Init
  <2>4. QED
    BY <1>1, <2>1, <2>2, <2>3, Operations DEF TypeOK, RequestsAt, Init
<1>3. IdsInv
  BY <1>1, Operations DEF IdsInv, Recorded
<1>4. GuessesInv
  <2>1. Counted = {} /\ failures = {}
    BY <1>1 DEF Counted, Counting, Init
  <2>2. Cardinality(Guesses(failures \cup Counted)) = 0
    BY <2>1, FS_EmptySet DEF Guesses
  <2>3. Cardinality(Tasks) \in Nat /\ Cardinality(Tasks) # 0
    BY TasksAssumption, FS_CardinalityType, FS_EmptySet
  <2>4. QED
    BY <2>2, <2>3, LoginAssumption DEF GuessesInv
<1>5. LateInv
  BY <1>1 DEF LateInv
<1>6. SessionsInv
  BY <1>1, Operations DEF SessionsInv, SessionsSound, SessionsEnd, Init
<1>7. PasswordInv
  BY <1>1, Operations DEF PasswordInv, AboutToRehash, Init
<1>8. QED
  BY <1>2, <1>3, <1>4, <1>5, <1>6, <1>7 DEF IInv

-----------------------------------------------------------------------------
(* Steps that write no row *)

\* What a request that has come as far as p says goes back to its last stage, or to a
\* reading of the tables as they are.
Sound(t, p, r) ==
  /\ r.op = "wrong" /\ p # "found" => /\ Recorded(t) /\ r.id = req[t].id
                                      /\ p \in {"decided", "flushed"} => Counting(t)
  /\ r.op \in {"wrong", "login"} =>
       \/ p = "found" /\ r.locked = user.locked
       \/ Trying(t) /\ (phase[t] = "found" => MayTry(req[t]))
  /\ r.op = "login" => \/ /\ req[t].op = "login"
                          /\ r.password = req[t].password /\ r.old = req[t].old
                          /\ r.began = req[t].began
                       \/ r.password = user.password /\ r.began = now
  /\ p \in {"decided", "flushed"} /\ r.op = "login" => r.began < r.expires
  /\ r.op \in SessionOps =>
       /\ r.session \in DOMAIN sessions
       /\ \/ req[t].op \in SessionOps /\ r.session = req[t].session
          \/ Open(r.session)
       /\ p # "found" => \/ /\ phase[t] # "found" /\ req[t].op \in SessionOps
                            /\ r.session = req[t].session /\ r.seen = req[t].seen
                         \/ r.seen < sessions[r.session].expires

LEMMA MoveKeeps ==
  ASSUME IInv, NEW t \in Tasks, NEW p \in {"idle", "found", "read", "running", "decided", "flushed"},
         NEW r \in RequestsAt(p), Enter(t, p, r), Sound(t, p, r), begun' \in 0 .. MaxRequests,
         UNCHANGED <<now, tables, ghosts>>
  PROVE  IInv'
<1> USE DEF IInv
<1>0. UNCHANGED <<now, user, attempts, failures, sessions, changes, late, raced>>
  BY DEF tables, ghosts
<1>1. /\ phase' \in [Tasks -> {"idle", "found", "read", "running", "decided", "flushed"}]
      /\ DOMAIN req' = Tasks
      /\ \A u \in Tasks : /\ phase'[u] = IF u = t THEN p ELSE phase[u]
                          /\ req'[u] = IF u = t THEN r ELSE req[u]
  BY Moved
<1>2. TypeOK'
  <2>1. ASSUME NEW u \in Tasks
        PROVE  /\ req'[u] \in RequestsAt(phase'[u])
               /\ req'[u].op = "wrong" /\ phase'[u] # "found" => req'[u].id \in DOMAIN attempts
               /\ req'[u].op \in SessionOps => req'[u].session \in DOMAIN sessions
    BY <1>1 DEF TypeOK, Sound, Recorded
  <2>2. QED
    BY <1>0, <1>1, <2>1 DEF TypeOK, RequestsAt
<1>3. IdsInv'
  BY <1>0, <1>1 DEF IdsInv, Sound, Recorded
<1>4. GuessesInv'
  <2>1. Counted' \subseteq Counted
    BY <1>1 DEF Counted, Counting, Sound
  <2>2. Guesses(failures \cup Counted)' \subseteq Guesses(failures \cup Counted)
    BY <1>0, <2>1 DEF Guesses
  <2>3. QED
    BY <2>2, FewerGuesses
<1>5. LateInv'
  <2>1. ASSUME Locked, NEW u \in Tasks
        PROVE  /\ late[u] <= 1
               /\ Trying(u)' => \/ late[u] = 0
                                \/ phase'[u] = "found" /\ req'[u].locked = user.locked
    <3>1. Trying(u) => \/ late[u] = 0
                       \/ phase[u] = "found" /\ req[u].locked = user.locked
      BY <2>1 DEF LateInv
    <3>2. Trying(t) /\ (phase[t] = "found" => MayTry(req[t])) => late[t] = 0
      <4>1. Trying(t) => \/ late[t] = 0
                         \/ phase[t] = "found" /\ req[t].locked = user.locked
        BY <2>1 DEF LateInv
      <4>2. now \in Int /\ user.locked \in Int
        BY DEF TypeOK, Times, User
      <4>3. QED
        BY <2>1, <4>1, <4>2 DEF MayTry, Locked
    <3>3. late[u] <= 1
      BY <2>1 DEF LateInv
    <3>4. CASE u = t
      BY <1>1, <3>2, <3>3, <3>4 DEF Sound, Trying
    <3>5. CASE u # t
      BY <1>1, <3>1, <3>3, <3>5 DEF Trying
    <3>6. QED
      BY <3>4, <3>5
  <2>2. QED
    BY <1>0, <2>1 DEF LateInv, Locked
<1>6. SessionsInv'
  <2>1. SessionsSound'
    BY <1>0 DEF SessionsInv, SessionsSound, SessionsEnd
  <2>2. ASSUME NEW u \in Tasks, req'[u].op \in SessionOps
        PROVE  /\ sessions[req'[u].session].after[u] = 0
               /\ phase'[u] # "found" => req'[u].seen < sessions[req'[u].session].expires
    <3>1. CASE u # t
      BY <1>1, <2>2, <3>1 DEF SessionsInv
    <3>2. CASE u = t
      <4>1. req'[u] = r /\ phase'[u] = p /\ r.session \in 1 .. Len(sessions)
        BY <1>1, <2>2, <3>2 DEF Sound, TypeOK
      <4>2. sessions[r.session].after[u] = 0
        BY <2>2, <3>2, <4>1 DEF Sound, SessionsInv, SessionsSound, Open
      <4>3. p # "found" => r.seen < sessions[r.session].expires
        BY <2>2, <3>2, <4>1 DEF Sound, SessionsInv
      <4>4. QED
        BY <4>1, <4>2, <4>3
    <3>3. QED
      BY <3>1, <3>2
  <2>3. ASSUME NEW u \in Tasks, req'[u].op = "login"
        PROVE  /\ req'[u].began <= now
               /\ phase'[u] \in {"decided", "flushed"} => req'[u].began < req'[u].expires
    <3>1. now <= now
      BY DEF TypeOK, Times
    <3>2. QED
      BY <1>1, <2>3, <3>1 DEF Sound, SessionsInv
  <2>4. QED
    BY <1>0, <2>1, <2>2, <2>3 DEF SessionsInv
<1>7. PasswordInv'
  <2>1. ASSUME ~ raced, NEW u \in AboutToRehash'
        PROVE  req'[u].password = changes
    BY <1>1, <2>1 DEF PasswordInv, Sound, AboutToRehash
  <2>2. QED
    BY <1>0, <2>1 DEF PasswordInv
<1>8. QED
  BY <1>2, <1>3, <1>4, <1>5, <1>6, <1>7

LEMMA RequestOf ==
  ASSUME TypeOK, NEW t \in Tasks
  PROVE  /\ phase[t] \in {"idle", "found", "read", "running", "decided", "flushed"}
         /\ req[t] \in RequestsAt(phase[t])
         /\ req[t].op \in SessionOps => req[t].session \in DOMAIN sessions
BY DEF TypeOK

LEMMA UndoKeeps == ASSUME IInv, NEW t \in Tasks, Undo(t) PROVE IInv'
<1>1. NoRequest \in RequestsAt("idle")
  BY DEF RequestsAt
<1>2. Sound(t, "idle", NoRequest)
  BY Operations DEF Sound
<1>3. begun' \in 0 .. MaxRequests
  BY DEF IInv, TypeOK, Undo
<1>4. QED
  BY <1>1, <1>2, <1>3, MoveKeeps DEF Undo, Finish

\* A request that goes on as it is, having been checked at its last stage
LEMMA FlushKeeps ==
  ASSUME IInv, NEW t \in Tasks, FlushWrong(t) \/ FlushLogin(t) \/ FlushChange(t) \/ FlushUnlock(t)
  PROVE  IInv'
<1>1. phase[t] = "decided" /\ Enter(t, "flushed", req[t]) /\ UNCHANGED <<now, tables, begun, ghosts>>
  BY DEF FlushWrong, FlushLogin, FlushChange, FlushUnlock, FlushUser
<1>2. req[t] \in RequestsAt("flushed")
  BY <1>1, RequestOf DEF IInv, RequestsAt
<1>3. Sound(t, "flushed", req[t])
  BY <1>1, RequestOf DEF Sound, IInv, SessionsInv, Counting, Recorded, Trying
<1>4. begun' \in 0 .. MaxRequests
  BY <1>1 DEF IInv, TypeOK
<1>5. QED
  BY <1>1, <1>2, <1>3, <1>4, MoveKeeps

LEMMA FlushSeenKeeps == ASSUME IInv, NEW t \in Tasks, FlushSeen(t) PROVE IInv'
<1>1. /\ phase[t] = "read" /\ req[t].op \in SessionOps
      /\ Enter(t, "running", req[t])
      /\ UNCHANGED <<now, tables, begun, ghosts>>
  BY DEF FlushSeen
<1>2. req[t] \in Visits
  BY <1>1, RequestOf, Stages DEF IInv
<1>3. req[t] \in RequestsAt("running")
  BY <1>2 DEF RequestsAt
<1>4. Sound(t, "running", req[t])
  BY <1>1, RequestOf, Operations DEF Sound, IInv
<1>5. begun' \in 0 .. MaxRequests
  BY <1>1 DEF IInv, TypeOK
<1>6. QED
  BY <1>1, <1>3, <1>4, <1>5, MoveKeeps

LEMMA BeginChangeKeeps == ASSUME IInv, NEW t \in Tasks, BeginChange(t) PROVE IInv'
<1> DEFINE r == [op |-> "change", session |-> req[t].session, seen |-> req[t].seen, writes |-> TRUE]
<1>1. /\ phase[t] = "running" /\ req[t].op = "change"
      /\ Enter(t, "decided", r)
      /\ UNCHANGED <<now, tables, begun, ghosts>>
  BY DEF BeginChange
<1>2. req[t].op \in SessionOps
  BY <1>1, Operations
<1>3. req[t] \in Visits
  BY <1>1, <1>2, RequestOf, Stages DEF IInv
<1>4. r \in Changes
  BY <1>3, Operations DEF Changes
<1>5. r \in RequestsAt("decided")
  BY <1>4 DEF RequestsAt
<1>6. r.session = req[t].session /\ r.seen = req[t].seen /\ r.op = "change"
  OBVIOUS
<1>7. begun' \in 0 .. MaxRequests
  BY <1>1 DEF IInv, TypeOK
<1> HIDE DEF r
<1>8. Sound(t, "decided", r)
  BY <1>1, <1>2, <1>6, RequestOf, Operations DEF Sound, IInv
<1>9. QED
  BY <1>1, <1>5, <1>7, <1>8, MoveKeeps

LEMMA BeginsCount ==
  ASSUME TypeOK, NEW t \in Tasks, NEW p, NEW r, Begin(t, p, r)
  PROVE  begun' \in 0 .. MaxRequests /\ phase[t] = "idle" /\ Enter(t, p, r)
BY LoginAssumption DEF TypeOK, Begin

LEMMA BeginUnlockKeeps == ASSUME IInv, NEW t \in Tasks, BeginUnlock(t) PROVE IInv'
<1> DEFINE r == [op |-> "unlock", writes |-> user.locked # Never]
<1>1. Begin(t, "decided", r) /\ UNCHANGED <<now, tables, ghosts>>
  BY DEF BeginUnlock
<1>2. begun' \in 0 .. MaxRequests /\ Enter(t, "decided", r)
  BY <1>1, BeginsCount DEF IInv
<1>3. r \in Unlocks
  BY DEF Unlocks
<1>4. r \in RequestsAt("decided")
  BY <1>3 DEF RequestsAt
<1>5. Sound(t, "decided", r)
  BY <1>3, Operations DEF Sound
<1>6. QED
  BY <1>1, <1>2, <1>4, <1>5, MoveKeeps

LEMMA BeginAuthKeeps ==
  ASSUME IInv, NEW t \in Tasks, NEW k \in 1 .. Len(sessions), NEW op \in SessionOps,
         BeginAuth(t, k, op)
  PROVE  IInv'
<1> DEFINE r == [op |-> op, session |-> k]
<1>1. Open(k) /\ Begin(t, "found", r) /\ UNCHANGED <<now, tables, ghosts>>
  BY DEF BeginAuth
<1>2. begun' \in 0 .. MaxRequests /\ Enter(t, "found", r)
  BY <1>1, BeginsCount DEF IInv
<1>3. k \in Nat /\ k \in DOMAIN sessions
  BY DEF IInv, TypeOK
<1>4. r \in Visitors /\ r.session = k /\ r.op = op
  BY <1>3 DEF Visitors
<1> HIDE DEF r
<1>5. r \in RequestsAt("found")
  BY <1>4 DEF RequestsAt
<1>6. Sound(t, "found", r)
  BY <1>1, <1>3, <1>4, Operations DEF Sound
<1>7. QED
  BY <1>1, <1>2, <1>5, <1>6, MoveKeeps

LEMMA TakeTimeKeeps == ASSUME IInv, NEW t \in Tasks, TakeTime(t) PROVE IInv'
<1> DEFINE r == [op |-> req[t].op, session |-> req[t].session, seen |-> now]
<1>1. /\ phase[t] = "found" /\ req[t].op \in SessionOps
      /\ now < sessions[req[t].session].expires
      /\ Enter(t, "read", r)
      /\ UNCHANGED <<now, tables, begun, ghosts>>
  BY DEF TakeTime
<1>2. req[t] \in Visitors /\ req[t].session \in DOMAIN sessions
  BY <1>1, RequestOf, Stages DEF IInv
<1>3. now \in Times /\ req[t].session \in Nat /\ begun' \in 0 .. MaxRequests
  BY <1>1, <1>2, Operations DEF IInv, TypeOK
<1>4. r \in Visits /\ r.op = req[t].op /\ r.session = req[t].session /\ r.seen = now
  BY <1>1, <1>3 DEF Visits
<1> HIDE DEF r
<1>5. r \in RequestsAt("read")
  BY <1>4 DEF RequestsAt
<1>6. Sound(t, "read", r)
  BY <1>1, <1>2, <1>4, Operations DEF Sound
<1>7. QED
  BY <1>1, <1>3, <1>5, <1>6, MoveKeeps

LEMMA BeginTryKeeps ==
  ASSUME IInv, NEW t \in Tasks, BeginWrong(t) \/ BeginLogin(t)
  PROVE  IInv'
<1>1. user \in User /\ now \in Times
  BY DEF IInv, TypeOK
<1>2. CASE BeginWrong(t)
  <2> DEFINE r == [op |-> "wrong", locked |-> user.locked, began |-> now]
  <2>1. Begin(t, "found", r) /\ UNCHANGED <<now, tables, ghosts>>
    BY <1>2 DEF BeginWrong
  <2>2. r \in WrongTries /\ r.op = "wrong" /\ r.locked = user.locked
    BY <1>1 DEF WrongTries, User
  <2> HIDE DEF r
  <2>3. r \in RequestsAt("found")
    BY <2>2 DEF RequestsAt
  <2>4. Sound(t, "found", r)
    BY <2>2, Operations DEF Sound
  <2>5. QED
    BY <2>1, <2>3, <2>4, BeginsCount, MoveKeeps DEF IInv
<1>3. CASE BeginLogin(t)
  <2> DEFINE r == [op |-> "login", locked |-> user.locked, began |-> now,
                   password |-> user.password, old |-> user.old]
  <2>1. Begin(t, "found", r) /\ UNCHANGED <<now, tables, ghosts>>
    BY <1>3 DEF BeginLogin
  <2>2. /\ r \in LoginTries /\ r.op = "login" /\ r.locked = user.locked
        /\ r.password = user.password /\ r.began = now
    BY <1>1 DEF LoginTries, User
  <2> HIDE DEF r
  <2>3. r \in RequestsAt("found")
    BY <2>2 DEF RequestsAt
  <2>4. Sound(t, "found", r)
    BY <2>2, Operations DEF Sound
  <2>5. QED
    BY <2>1, <2>3, <2>4, BeginsCount, MoveKeeps DEF IInv
<1>4. QED
  BY <1>2, <1>3

LEMMA PassLockKeeps == ASSUME IInv, NEW t \in Tasks, PassLock(t) PROVE IInv'
<1> DEFINE r == [op |-> "login", password |-> req[t].password, old |-> req[t].old,
                 began |-> req[t].began]
<1>1. /\ phase[t] = "found" /\ req[t].op = "login" /\ MayTry(req[t])
      /\ Enter(t, "read", r)
      /\ UNCHANGED <<now, tables, begun, ghosts>>
  BY DEF PassLock
<1>2. req[t] \in LoginTries
  BY <1>1, RequestOf, Stages DEF IInv
<1>3. req[t].password \in Nat /\ req[t].old \in BOOLEAN /\ req[t].began \in Times
  BY <1>2, Operations
<1>4. /\ r \in Logins /\ r.op = "login" /\ r.password = req[t].password
      /\ r.old = req[t].old /\ r.began = req[t].began
  BY <1>3 DEF Logins
<1> HIDE DEF r
<1>5. r \in RequestsAt("read")
  BY <1>4 DEF RequestsAt
<1>6. Sound(t, "read", r)
  BY <1>1, <1>4, Operations DEF Sound, Trying
<1>7. begun' \in 0 .. MaxRequests
  BY <1>1 DEF IInv, TypeOK
<1>8. QED
  BY <1>1, <1>5, <1>6, <1>7, MoveKeeps

LEMMA ClearFailuresKeeps == ASSUME IInv, NEW t \in Tasks, ClearFailures(t) PROVE IInv'
<1> DEFINE p == IF req[t].old THEN "flushed" ELSE "decided"
           r == [op |-> "login", password |-> req[t].password, old |-> req[t].old,
                 began |-> req[t].began, writes |-> TRUE, cleared |-> failures,
                 expires |-> now + Ttl]
<1>1. /\ phase[t] = "read" /\ req[t].op = "login"
      /\ Enter(t, p, r)
      /\ UNCHANGED <<now, tables, begun, ghosts>>
  BY DEF ClearFailures
<1>2. p \in {"decided", "flushed"}
  OBVIOUS
<1>3. /\ req[t] \in Logins
      /\ req[t].password \in Nat /\ req[t].old \in BOOLEAN /\ req[t].began \in Times
  BY <1>1, RequestOf, Stages, Operations DEF IInv
<1>4. failures \in SUBSET Nat
  BY DEF IInv, TypeOK
<1>5. now + Ttl \in Nat /\ req[t].began < now + Ttl
  BY <1>1, <1>3, LoginAssumption DEF IInv, TypeOK, Times, SessionsInv
<1>6. r \in Cleareds
  BY <1>3, <1>4, <1>5 DEF Cleareds
<1>7. r.op = "login" /\ r.password = req[t].password /\ r.old = req[t].old
      /\ r.began = req[t].began /\ r.began < r.expires
  BY <1>5
<1> HIDE DEF r, p
<1>8. r \in RequestsAt(p)
  BY <1>2, <1>6 DEF RequestsAt
<1>9. Sound(t, p, r)
  BY <1>1, <1>7, Operations DEF Sound, Trying
<1>10. begun' \in 0 .. MaxRequests
  BY <1>1 DEF IInv, TypeOK
<1>11. QED
  BY <1>1, <1>2, <1>8, <1>9, <1>10, MoveKeeps

-----------------------------------------------------------------------------
(* Commits *)

LEMMA FinishKeeps ==
  ASSUME IInv, NEW t \in Tasks, Finish(t), UNCHANGED <<now, attempts, begun>>,
         user' \in User, changes' \in Nat, raced' \in BOOLEAN, late' \in [Tasks -> Nat],
         \/ failures' \subseteq failures
         \/ Counting(t) /\ failures' = failures \cup {req[t].id},
         Locked' => \/ late' = [u \in Tasks |-> 0]
                    \/ /\ Locked /\ user'.locked = user.locked
                       /\ \/ late' = late
                          \/ /\ Trying(t) /\ phase[t] # "found"
                             /\ late' = [late EXCEPT ![t] = @ + 1],
         sessions' \in Seq(Session), SessionsSound', DOMAIN sessions \subseteq DOMAIN sessions',
         \A k \in DOMAIN sessions :
           /\ sessions'[k].expires = sessions[k].expires
           /\ \A u \in Tasks \ {t} : sessions'[k].after[u] = sessions[k].after[u],
         ~ raced' => /\ ~ raced
                     /\ user'.password = changes'
                     /\ changes' = changes \/ AboutToRehash = {}
  PROVE  IInv'
<1> USE DEF IInv
<1>1. /\ phase' \in [Tasks -> {"idle", "found", "read", "running", "decided", "flushed"}]
      /\ DOMAIN req' = Tasks
      /\ \A u \in Tasks : /\ phase'[u] = IF u = t THEN "idle" ELSE phase[u]
                          /\ req'[u] = IF u = t THEN NoRequest ELSE req[u]
  BY Moved DEF Finish
<1>2. failures' \subseteq DOMAIN attempts
  BY DEF TypeOK, Counting
<1>3. TypeOK'
  <2>1. ASSUME NEW u \in Tasks
        PROVE  /\ req'[u] \in RequestsAt(phase'[u])
               /\ req'[u].op = "wrong" /\ phase'[u] # "found" => req'[u].id \in DOMAIN attempts
               /\ req'[u].op \in SessionOps => req'[u].session \in DOMAIN sessions'
    BY <1>1, Operations DEF TypeOK, RequestsAt
  <2>2. QED
    BY <1>1, <1>2, <2>1 DEF TypeOK, RequestsAt
<1>4. IdsInv'
  <2>1. ASSUME NEW u \in Tasks, Recorded(u)'
        PROVE  u # t /\ req'[u] = req[u] /\ Recorded(u)
    BY <1>1, <2>1, Operations DEF Recorded
  <2>2. ASSUME NEW u \in Tasks, Recorded(u)'
        PROVE  /\ req'[u].id \notin failures'
               /\ \A v \in Tasks : Recorded(v)' /\ req'[v].id = req'[u].id => v = u
    <3>1. req[u].id \notin failures /\ (Counting(t) => req[u].id # req[t].id)
      BY <2>1, <2>2 DEF IdsInv, Counting, Recorded
    <3>2. QED
      BY <2>1, <2>2, <3>1 DEF IdsInv
  <2>3. QED
    BY <2>2 DEF IdsInv
<1>5. GuessesInv'
  <2>1. Counted' \subseteq Counted /\ (Counting(t) => req[t].id \in Counted)
    <3>1. \A u \in Tasks : Counting(u)' => Counting(u) /\ req'[u] = req[u]
      BY <1>1, Operations DEF Counting
    <3>2. QED
      BY <3>1 DEF Counted
  <2>2. Guesses(failures \cup Counted)' \subseteq Guesses(failures \cup Counted)
    BY <2>1 DEF Guesses
  <2>3. QED
    BY <2>2, FewerGuesses
<1>6. LateInv'
  <2>1. ASSUME Locked', NEW u \in Tasks
        PROVE  /\ late'[u] <= 1
               /\ Trying(u)' => \/ late'[u] = 0
                                \/ phase'[u] = "found" /\ req'[u].locked = user'.locked
    <3>1. CASE late' = [v \in Tasks |-> 0]
      BY <3>1
    <3>2. CASE Locked /\ user'.locked = user.locked /\ late' = late
      BY <1>1, <3>2, Operations DEF LateInv, Trying
    <3>3. CASE /\ Locked /\ user'.locked = user.locked /\ Trying(t) /\ phase[t] # "found"
               /\ late' = [late EXCEPT ![t] = @ + 1]
      <4>1. /\ late[t] = 0 /\ late[u] <= 1
            /\ Trying(u) => \/ late[u] = 0
                            \/ phase[u] = "found" /\ req[u].locked = user.locked
        BY <3>3 DEF LateInv
      <4>2. late'[u] = IF u = t THEN 1 ELSE late[u]
        BY <3>3, <4>1 DEF TypeOK
      <4>3. Trying(u)' => u # t /\ Trying(u) /\ phase'[u] = phase[u] /\ req'[u] = req[u]
        BY <1>1, Operations DEF Trying
      <4>4. QED
        BY <3>3, <4>1, <4>2, <4>3
    <3>4. QED
      BY <2>1, <3>1, <3>2, <3>3
  <2>2. QED
    BY <2>1 DEF LateInv
<1>7. SessionsInv'
  <2>1. ASSUME NEW u \in Tasks, req'[u].op \in SessionOps
        PROVE  /\ sessions'[req'[u].session].after[u] = 0
               /\ phase'[u] # "found" => req'[u].seen < sessions'[req'[u].session].expires
    <3>1. u # t /\ req'[u] = req[u] /\ phase'[u] = phase[u]
      BY <1>1, <2>1, Operations
    <3>2. req[u].session \in DOMAIN sessions
      BY <2>1, <3>1, RequestOf
    <3>3. QED
      BY <2>1, <3>1, <3>2 DEF SessionsInv
  <2>2. ASSUME NEW u \in Tasks, req'[u].op = "login"
        PROVE  /\ req'[u].began <= now
               /\ phase'[u] \in {"decided", "flushed"} => req'[u].began < req'[u].expires
    BY <1>1, <2>2, Operations DEF SessionsInv
  <2>3. QED
    BY <2>1, <2>2 DEF SessionsInv
<1>8. PasswordInv'
  <2>1. AboutToRehash' \subseteq AboutToRehash /\ \A u \in AboutToRehash' : req'[u] = req[u]
    BY <1>1, Operations DEF AboutToRehash
  <2>2. QED
    BY <2>1 DEF PasswordInv
<1>9. QED
  BY <1>3, <1>4, <1>5, <1>6, <1>7, <1>8

\* A request that leaves the sessions alone keeps what is known of them.
LEMMA SessionsStay ==
  ASSUME IInv, UNCHANGED sessions
  PROVE  /\ sessions' \in Seq(Session) /\ SessionsSound' /\ DOMAIN sessions \subseteq DOMAIN sessions'
         /\ \A k \in DOMAIN sessions : /\ sessions'[k].expires = sessions[k].expires
                                       /\ \A u \in Tasks : sessions'[k].after[u] = sessions[k].after[u]
BY DEF IInv, TypeOK, SessionsInv, SessionsSound, SessionsEnd

\* Whatever it is that the attempt on t changes, it is counted as late if the account is locked.
LEMMA Settled ==
  ASSUME IInv, NEW t \in Tasks, Trying(t), Settle(t)
  PROVE  /\ late' \in [Tasks -> Nat]
         /\ Locked => Trying(t) /\ late' = [late EXCEPT ![t] = @ + 1]
BY DEF IInv, TypeOK, Settle

LEMMA CommitWrongKeeps == ASSUME IInv, NEW t \in Tasks, CommitWrong(t) PROVE IInv'
<1> USE DEF IInv
<1>1. /\ phase[t] = "flushed" /\ req[t].op = "wrong" /\ Finish(t)
      /\ failures' = failures \cup {req[t].id}
      /\ user' = IF req[t].writes THEN [user EXCEPT !.locked = req[t].until] ELSE user
      /\ IF req[t].writes THEN late' = [u \in Tasks |-> 0] ELSE Settle(t)
      /\ UNCHANGED <<now, attempts, sessions, begun, changes, raced>>
  BY DEF CommitWrong
<1>2. req[t].writes \in BOOLEAN /\ req[t].until \in Nat
  BY <1>1, RequestOf, Stages, Operations
<1>3. user \in User /\ changes \in Nat /\ raced \in BOOLEAN
  BY DEF TypeOK
<1>4. user' \in User /\ user'.password = user.password /\ (~ req[t].writes => user' = user)
  BY <1>1, <1>2, <1>3 DEF User
<1>5. Counting(t) /\ Trying(t)
  BY <1>1 DEF Counting, Trying
<1>6. late' \in [Tasks -> Nat]
  BY <1>1, <1>5, Settled
<1>7. Locked' => \/ late' = [u \in Tasks |-> 0]
                 \/ /\ Locked /\ user'.locked = user.locked
                    /\ Trying(t) /\ phase[t] # "found"
                    /\ late' = [late EXCEPT ![t] = @ + 1]
  <2>1. CASE req[t].writes
    BY <1>1, <2>1
  <2>2. CASE ~ req[t].writes
    <3>1. Locked' => Locked
      BY <1>1, <1>4, <2>2 DEF Locked
    <3>2. QED
      BY <1>1, <1>4, <1>5, <2>2, <3>1, Settled
  <2>3. QED
    BY <2>1, <2>2
<1>8. ~ raced' => ~ raced /\ user'.password = changes' /\ changes' = changes
  BY <1>1, <1>4 DEF PasswordInv
<1>9. QED
  BY <1>1, <1>3, <1>4, <1>5, <1>6, <1>7, <1>8, SessionsStay, FinishKeeps

LEMMA CommitLoginKeeps == ASSUME IInv, NEW t \in Tasks, CommitLogin(t) PROVE IInv'
<1> USE DEF IInv
<1> DEFINE session == [expires |-> req[t].expires, seen |-> req[t].began, ended |-> Never,
                       after |-> [u \in Tasks |-> 0]]
<1>1. /\ phase[t] = "flushed" /\ req[t].op = "login" /\ Finish(t)
      /\ failures' = failures \ req[t].cleared
      /\ user' = Rehashed(req[t])
      /\ sessions' = Append(sessions, session)
      /\ Settle(t)
      /\ UNCHANGED <<now, attempts, begun, changes, raced>>
  BY DEF CommitLogin
<1>2. req[t] \in Cleareds
  BY <1>1, RequestOf, Stages
<1>3. /\ req[t].password \in Nat /\ req[t].old \in BOOLEAN /\ req[t].began \in Times
      /\ req[t].expires \in Nat
  BY <1>2, Operations
<1>4. user \in User /\ changes \in Nat /\ raced \in BOOLEAN /\ sessions \in Seq(Session)
  BY DEF TypeOK
<1>5. /\ user' \in User /\ user'.locked = user.locked
      /\ user'.password = IF req[t].old THEN req[t].password ELSE user.password
  BY <1>1, <1>3, <1>4 DEF User, Rehashed
<1>6. Trying(t)
  BY <1>1 DEF Trying
<1>7. Locked' <=> Locked
  BY <1>1, <1>5 DEF Locked
<1>8. /\ session \in Session /\ session.seen < session.expires
      /\ \A u \in Tasks : session.after[u] = 0
  BY <1>1, <1>3 DEF Session, Never, SessionsInv
<1> HIDE DEF session
<1>9. /\ sessions' \in Seq(Session) /\ Len(sessions') = Len(sessions) + 1
      /\ Len(sessions) \in Nat
      /\ DOMAIN sessions = 1 .. Len(sessions) /\ DOMAIN sessions' = 1 .. Len(sessions) + 1
      /\ \A k \in 1 .. Len(sessions) : sessions'[k] = sessions[k]
      /\ sessions'[Len(sessions) + 1] = session
  BY <1>1, <1>4, <1>8
<1>10. SessionsSound'
  BY <1>8, <1>9 DEF SessionsInv, SessionsSound, SessionsEnd
<1>11. ~ raced' => ~ raced /\ user'.password = changes' /\ changes' = changes
  BY <1>1, <1>5 DEF PasswordInv, AboutToRehash
<1>12. DOMAIN sessions \subseteq DOMAIN sessions'
  BY <1>9
<1>13. \A k \in DOMAIN sessions :
         /\ sessions'[k].expires = sessions[k].expires
         /\ \A u \in Tasks : sessions'[k].after[u] = sessions[k].after[u]
  BY <1>9
<1>14. failures' \subseteq failures
  BY <1>1
<1>15. /\ late' \in [Tasks -> Nat]
       /\ Locked' => /\ Locked /\ user'.locked = user.locked
                      /\ Trying(t) /\ phase[t] # "found"
                      /\ late' = [late EXCEPT ![t] = @ + 1]
  BY <1>1, <1>5, <1>6, <1>7, Settled
<1>16. QED
  BY <1>1, <1>4, <1>5, <1>9, <1>10, <1>11, <1>12, <1>13, <1>14, <1>15, FinishKeeps

\* Session req[t].session after a commit of t that leaves revoked_at as ended says
SeenAs(t, ended) ==
  [expires |-> sessions[req[t].session].expires, seen |-> req[t].seen, ended |-> ended,
   after |-> IF sessions[req[t].session].ended = Never
             THEN sessions[req[t].session].after
             ELSE [sessions[req[t].session].after EXCEPT ![t] = @ + 1]]

\* Writing last_seen_at, with or without revoked_at
LEMMA SeenKeeps ==
  ASSUME IInv, NEW t \in Tasks, req[t].op \in SessionOps, phase[t] # "found", NEW ended \in Nat,
         sessions' = [sessions EXCEPT ![req[t].session] = SeenAs(t, ended)],
         ended = Never => sessions[req[t].session].ended = Never
  PROVE  /\ sessions' \in Seq(Session) /\ SessionsSound' /\ DOMAIN sessions \subseteq DOMAIN sessions'
         /\ \A k \in DOMAIN sessions :
              /\ sessions'[k].expires = sessions[k].expires
              /\ \A u \in Tasks \ {t} : sessions'[k].after[u] = sessions[k].after[u]
<1> DEFINE k == req[t].session
           e == SeenAs(t, ended)
<1>1. k \in 1 .. Len(sessions) /\ sessions \in Seq(Session) /\ sessions[k] \in Session
  BY RequestOf DEF IInv, TypeOK
<1>2. req[t] \in Visits \cup Changes
  BY RequestOf, Stages, Operations DEF IInv
<1>3. req[t].seen \in Times
  BY <1>2, Operations
<1>4. sessions[k].expires \in Nat /\ sessions[k].ended \in Nat /\ sessions[k].after \in [Tasks -> Nat]
  BY <1>1 DEF Session
<1>5. /\ e.expires = sessions[k].expires /\ e.seen = req[t].seen /\ e.ended = ended
      /\ e.after = IF sessions[k].ended = Never
                   THEN sessions[k].after ELSE [sessions[k].after EXCEPT ![t] = @ + 1]
  BY DEF SeenAs
<1>6. e.after \in [Tasks -> Nat]
  BY <1>4, <1>5
<1>7. e \in Session
  BY <1>3, <1>4, <1>6 DEF SeenAs, Session
<1>8. \A u \in Tasks \ {t} : e.after[u] = sessions[k].after[u]
  BY <1>4, <1>5
<1>9. /\ sessions[k].after[t] = 0 /\ req[t].seen < sessions[k].expires
      /\ \A u \in Tasks : sessions[k].after[u] <= 1
      /\ sessions[k].ended = Never => \A u \in Tasks : sessions[k].after[u] = 0
  BY <1>1 DEF IInv, SessionsInv, SessionsSound, SessionsEnd
<1>10. e.after[t] = IF sessions[k].ended = Never THEN 0 ELSE 1
  BY <1>4, <1>5, <1>9
<1>11. /\ e.seen < e.expires
       /\ \A u \in Tasks : e.after[u] <= 1
       /\ e.ended = Never => \A u \in Tasks : e.after[u] = 0
  <2>1. \A u \in Tasks : e.after[u] <= 1 /\ (sessions[k].ended = Never => e.after[u] = 0)
    <3>1. ASSUME NEW u \in Tasks
          PROVE  e.after[u] <= 1 /\ (sessions[k].ended = Never => e.after[u] = 0)
      <4>1. CASE u = t
        BY <1>10, <4>1
      <4>2. CASE u # t
        BY <1>8, <1>9, <4>2
      <4>3. QED
        BY <4>1, <4>2
    <3>2. QED
      BY <3>1
  <2>2. e.ended = Never => sessions[k].ended = Never
    BY <1>5
  <2>3. QED
    BY <1>5, <1>9, <2>1, <2>2
<1>12. sessions' = [sessions EXCEPT ![k] = e]
  OBVIOUS
<1> HIDE DEF e, k
<1>13. /\ sessions' \in Seq(Session) /\ Len(sessions') = Len(sessions)
       /\ \A j \in 1 .. Len(sessions) : sessions'[j] = IF j = k THEN e ELSE sessions[j]
  <2>1. /\ [sessions EXCEPT ![k] = e] \in Seq(Session)
        /\ Len([sessions EXCEPT ![k] = e]) = Len(sessions)
        /\ \A j \in 1 .. Len(sessions) : [sessions EXCEPT ![k] = e][j] = IF j = k THEN e ELSE sessions[j]
    BY <1>1, <1>7, ExceptSeq
  <2>2. QED
    BY <1>12, <2>1
<1>14. SessionsSound'
  BY <1>11, <1>13 DEF IInv, SessionsInv, SessionsSound, SessionsEnd
<1>15. DOMAIN sessions = 1 .. Len(sessions) /\ DOMAIN sessions' = 1 .. Len(sessions')
  BY <1>1, <1>13
<1>16. QED
  BY <1>5, <1>8, <1>13, <1>14, <1>15

LEMMA SameSession ==
  ASSUME NEW r \in Session, NEW s \in Session, r.expires = s.expires, r.seen = s.seen,
         r.ended = s.ended, r.after = s.after
  PROVE  r = s
BY DEF Session

LEMMA SeenIsWritten ==
  ASSUME IInv, NEW t \in Tasks, req[t].op \in SessionOps, phase[t] # "found"
  PROVE  /\ req[t].session \in DOMAIN sessions
         /\ sessions[req[t].session] \in Session
         /\ Seen(t) = [sessions EXCEPT ![req[t].session] =
                         SeenAs(t, sessions[req[t].session].ended)]
<1> DEFINE s == sessions[req[t].session]
           after == IF s.ended = Never THEN s.after ELSE [s.after EXCEPT ![t] = @ + 1]
           r == [s EXCEPT !.seen = req[t].seen, !.after = after]
           e == SeenAs(t, s.ended)
<1>1. req[t].session \in 1 .. Len(sessions) /\ s \in Session
  BY RequestOf DEF IInv, TypeOK
<1>2. req[t].seen \in Times
  <2>1. req[t] \in Visits \cup Changes
    BY RequestOf, Stages, Operations DEF IInv
  <2>2. QED
    BY <2>1, Operations
<1>3. s.expires \in Nat /\ s.ended \in Nat /\ after \in [Tasks -> Nat]
  BY <1>1 DEF Session
<1>4. Seen(t) = [sessions EXCEPT ![req[t].session] = r]
  BY DEF Seen
<1>5. e = [expires |-> s.expires, seen |-> req[t].seen, ended |-> s.ended, after |-> after]
  BY DEF SeenAs
<1>6. req[t].session \in DOMAIN sessions
  BY <1>1, RequestOf DEF IInv
<1> HIDE DEF s, after
<1>7. /\ r \in Session /\ r.expires = s.expires /\ r.seen = req[t].seen
      /\ r.ended = s.ended /\ r.after = after
  BY <1>1, <1>2, <1>3 DEF Session
<1> HIDE DEF r, e
<1>8. /\ e \in Session /\ e.expires = s.expires /\ e.seen = req[t].seen
      /\ e.ended = s.ended /\ e.after = after
  BY <1>2, <1>3, <1>5 DEF Session
<1>9. r = e
  BY <1>7, <1>8, SameSession
<1>10. QED
  BY <1>1, <1>4, <1>6, <1>9 DEF s, e

LEMMA CommitVisitKeeps == ASSUME IInv, NEW t \in Tasks, CommitVisit(t) PROVE IInv'
<1> USE DEF IInv
<1>1. /\ phase[t] # "found" /\ req[t].op = "visit" /\ sessions' = Seen(t) /\ Finish(t)
      /\ UNCHANGED <<now, user, attempts, failures, begun, changes, late, raced>>
  BY DEF CommitVisit, ghosts
<1>2. req[t].op \in SessionOps
  BY <1>1, Operations
<1> DEFINE ended == sessions[req[t].session].ended
<1>3. /\ ended \in Nat
      /\ sessions' = [sessions EXCEPT ![req[t].session] = SeenAs(t, ended)]
  BY <1>1, <1>2, SeenIsWritten DEF Session
<1> HIDE DEF ended
<1>4. /\ sessions' \in Seq(Session) /\ SessionsSound' /\ DOMAIN sessions \subseteq DOMAIN sessions'
      /\ \A k \in DOMAIN sessions :
           /\ sessions'[k].expires = sessions[k].expires
           /\ \A u \in Tasks \ {t} : sessions'[k].after[u] = sessions[k].after[u]
  <2>1. ended = Never => sessions[req[t].session].ended = Never
    BY DEF ended
  <2>2. QED
    BY <1>1, <1>2, <1>3, <2>1, SeenKeeps
<1>5. (Locked' => Locked) /\ user'.locked = user.locked /\ late' = late
  BY <1>1 DEF Locked
<1>6. user' \in User /\ changes' \in Nat /\ raced' \in BOOLEAN /\ late' \in [Tasks -> Nat]
  BY <1>1 DEF TypeOK
<1>7. ~ raced' => ~ raced /\ user'.password = changes' /\ changes' = changes
  BY <1>1 DEF PasswordInv
<1>8. QED
  BY <1>1, <1>4, <1>5, <1>6, <1>7, FinishKeeps

LEMMA CommitLogoutKeeps == ASSUME IInv, NEW t \in Tasks, CommitLogout(t) PROVE IInv'
<1> USE DEF IInv
<1> DEFINE k == req[t].session
           ended == IF sessions[k].ended = Never THEN now ELSE sessions[k].ended
<1>1. /\ phase[t] # "found" /\ req[t].op = "logout" /\ Finish(t)
      /\ sessions' = [Seen(t) EXCEPT ![k].ended = IF @ = Never THEN now ELSE @]
      /\ UNCHANGED <<now, user, attempts, failures, begun, changes, late, raced>>
  BY DEF CommitLogout, ghosts
<1>2. req[t].op \in SessionOps
  BY <1>1, Operations
<1>3. sessions[k] \in Session /\ sessions \in Seq(Session) /\ k \in DOMAIN sessions
  BY <1>1, <1>2, SeenIsWritten DEF TypeOK
<1>4. ended \in Nat /\ ended # Never
  BY <1>3 DEF Session, TypeOK, Times, Never
<1>5. Seen(t) = [sessions EXCEPT ![k] = SeenAs(t, sessions[k].ended)]
  BY <1>1, <1>2, SeenIsWritten
<1>6. Seen(t)[k] = SeenAs(t, sessions[k].ended)
  BY <1>3, <1>5
<1>7. [Seen(t)[k] EXCEPT !.ended = ended] = SeenAs(t, ended) /\ Seen(t)[k].ended = sessions[k].ended
  BY <1>6 DEF SeenAs
<1>8. sessions' = [sessions EXCEPT ![k] = SeenAs(t, ended)]
  <2>1. sessions' = [Seen(t) EXCEPT ![k] = [Seen(t)[k] EXCEPT !.ended = ended]]
    BY <1>1, <1>7
  <2>2. QED
    BY <1>3, <1>5, <1>7, <2>1
<1> HIDE DEF ended
<1>9. /\ sessions' \in Seq(Session) /\ SessionsSound' /\ DOMAIN sessions \subseteq DOMAIN sessions'
      /\ \A j \in DOMAIN sessions :
           /\ sessions'[j].expires = sessions[j].expires
           /\ \A u \in Tasks \ {t} : sessions'[j].after[u] = sessions[j].after[u]
  BY <1>1, <1>2, <1>4, <1>8, SeenKeeps
<1>10. (Locked' => Locked) /\ user'.locked = user.locked /\ late' = late
  BY <1>1 DEF Locked
<1>11. user' \in User /\ changes' \in Nat /\ raced' \in BOOLEAN /\ late' \in [Tasks -> Nat]
  BY <1>1 DEF TypeOK
<1>12. ~ raced' => ~ raced /\ user'.password = changes' /\ changes' = changes
  BY <1>1 DEF PasswordInv
<1>13. QED
  BY <1>1, <1>9, <1>10, <1>11, <1>12, FinishKeeps

LEMMA CommitChangeKeeps == ASSUME IInv, NEW t \in Tasks, CommitChange(t) PROVE IInv'
<1> USE DEF IInv
<1>1. /\ phase[t] # "found" /\ req[t].op = "change" /\ Finish(t)
      /\ user' = [user EXCEPT !.password = changes + 1, !.old = FALSE]
      /\ sessions' = Seen(t)
      /\ changes' = changes + 1
      /\ raced' = (raced \/ AboutToRehash # {})
      /\ UNCHANGED <<now, attempts, failures, begun, late>>
  BY DEF CommitChange
<1>2. req[t].op \in SessionOps
  BY <1>1, Operations
<1> DEFINE ended == sessions[req[t].session].ended
<1>3. /\ ended \in Nat
      /\ sessions' = [sessions EXCEPT ![req[t].session] = SeenAs(t, ended)]
  BY <1>1, <1>2, SeenIsWritten DEF Session
<1> HIDE DEF ended
<1>4. /\ sessions' \in Seq(Session) /\ SessionsSound' /\ DOMAIN sessions \subseteq DOMAIN sessions'
      /\ \A k \in DOMAIN sessions :
           /\ sessions'[k].expires = sessions[k].expires
           /\ \A u \in Tasks \ {t} : sessions'[k].after[u] = sessions[k].after[u]
  <2>1. ended = Never => sessions[req[t].session].ended = Never
    BY DEF ended
  <2>2. QED
    BY <1>1, <1>2, <1>3, <2>1, SeenKeeps
<1>5. user \in User /\ changes \in Nat /\ raced \in BOOLEAN
  BY DEF TypeOK
<1>6. user' \in User /\ user'.locked = user.locked /\ user'.password = changes + 1
  <2>1. changes + 1 \in Nat
    BY <1>5
  <2>2. user' = [password |-> changes + 1, old |-> FALSE, locked |-> user.locked]
    BY <1>1, <1>5 DEF User
  <2>3. QED
    BY <1>5, <2>1, <2>2 DEF User
<1>7. changes' \in Nat /\ raced' \in BOOLEAN /\ late' \in [Tasks -> Nat]
  BY <1>1, <1>5 DEF TypeOK
<1>8. (Locked' => Locked) /\ user'.locked = user.locked /\ late' = late
  BY <1>1, <1>6 DEF Locked
<1>9. ~ raced' => ~ raced /\ user'.password = changes' /\ AboutToRehash = {}
  BY <1>1, <1>6
<1>10. QED
  BY <1>1, <1>4, <1>6, <1>7, <1>8, <1>9, FinishKeeps

LEMMA CommitUnlockKeeps == ASSUME IInv, NEW t \in Tasks, CommitUnlock(t) PROVE IInv'
<1> USE DEF IInv
<1>1. /\ Finish(t)
      /\ user' = IF req[t].writes THEN [user EXCEPT !.locked = Never] ELSE user
      /\ UNCHANGED <<now, attempts, failures, sessions, begun, changes, late, raced>>
  BY DEF CommitUnlock, ghosts
<1>2. user \in User /\ changes \in Nat /\ raced \in BOOLEAN /\ late \in [Tasks -> Nat] /\ now \in Times
  BY DEF TypeOK
<1>3. user' \in User /\ user'.password = user.password /\ user'.locked \in {Never, user.locked}
  BY <1>1, <1>2 DEF User, Never
<1>4. Locked' => Locked /\ user'.locked = user.locked
  BY <1>1, <1>2, <1>3 DEF Locked, Never, Times
<1>5. ~ raced' => ~ raced /\ user'.password = changes' /\ changes' = changes
  BY <1>1, <1>3 DEF PasswordInv
<1>6. QED
  BY <1>1, <1>2, <1>3, <1>4, <1>5, SessionsStay, FinishKeeps

-----------------------------------------------------------------------------
(* The clock, and counting *)

LEMMA TickKeeps == ASSUME IInv, Tick PROVE IInv'
<1> USE DEF IInv
<1>1. /\ now < MaxTime /\ now' = now + 1
      /\ UNCHANGED <<user, attempts, failures, sessions, phase, req, begun, changes, late, raced>>
  BY DEF Tick, tables, ghosts
<1>2. now \in Times /\ now' \in Times /\ now < now'
  BY <1>1, LoginAssumption DEF TypeOK, Times
<1>3. TypeOK'
  BY <1>1, <1>2 DEF TypeOK, RequestsAt
<1>4. IdsInv'
  BY <1>1 DEF IdsInv, Recorded
<1>5. GuessesInv'
  <2>1. Counted' = Counted
    BY <1>1 DEF Counted, Counting
  <2>2. \A i \in failures \cup Counted : attempts[i].at \in Nat
    <3>1. failures \cup Counted \subseteq DOMAIN attempts
      BY DEF TypeOK, Counted, Counting
    <3>2. \A i \in DOMAIN attempts : attempts[i] \in Attempt
      BY DEF TypeOK
    <3>3. QED
      BY <3>1, <3>2 DEF Attempt, Times
  <2>3. Window \in Nat
    BY LoginAssumption
  <2>4. \A i \in failures \cup Counted : attempts[i].at >= now' - Window => attempts[i].at >= now - Window
    BY <1>2, <2>2, <2>3 DEF Times
  <2>5. Guesses(failures \cup Counted)' \subseteq Guesses(failures \cup Counted)
    BY <1>1, <2>1, <2>4 DEF Guesses
  <2>6. QED
    BY <2>5, FewerGuesses
<1>6. LateInv'
  <2>1. Locked' => Locked
    BY <1>1, <1>2 DEF Locked, TypeOK, User, Times
  <2>2. QED
    BY <1>1, <2>1 DEF LateInv, Trying
<1>7. SessionsInv'
  <2>1. ASSUME NEW t \in Tasks, req[t].op = "login" PROVE req[t].began <= now'
    <3>1. req[t] \in LoginTries \cup Logins \cup Cleareds
      BY <2>1, RequestOf, Stages, Operations
    <3>2. req[t].began \in Times
      BY <3>1, Operations
    <3>3. QED
      BY <1>2, <2>1, <3>2 DEF SessionsInv, Times
  <2>2. QED
    BY <1>1, <2>1 DEF SessionsInv, SessionsSound, SessionsEnd
<1>8. PasswordInv'
  BY <1>1 DEF PasswordInv, AboutToRehash
<1>9. QED
  BY <1>3, <1>4, <1>5, <1>6, <1>7, <1>8

LEMMA RecordFailedKeeps == ASSUME IInv, NEW t \in Tasks, RecordFailed(t) PROVE IInv'
<1> USE DEF IInv
<1> DEFINE id == Len(attempts) + 1
           r == [op |-> "wrong", id |-> id]
           attempt == [at |-> req[t].began, locks |-> FALSE]
<1>1. /\ phase[t] = "found" /\ req[t].op = "wrong" /\ MayTry(req[t])
      /\ Enter(t, "read", r) /\ attempts' = Append(attempts, attempt)
      /\ UNCHANGED <<now, user, failures, sessions, begun, changes, late, raced>>
  BY DEF RecordFailed, ghosts
<1>2. req[t].began \in Times /\ req[t].locked \in Nat
  <2>1. req[t] \in WrongTries
    BY <1>1, RequestOf, Stages
  <2>2. QED
    BY <2>1, Operations
<1>3. /\ attempts \in Seq(Attempt) /\ attempt \in Attempt
      /\ Len(attempts) \in Nat /\ DOMAIN attempts = 1 .. Len(attempts)
  BY <1>2 DEF TypeOK, Attempt
<1>4. id \in Nat /\ id \notin DOMAIN attempts
  BY <1>3
<1>5. r \in Wrongs /\ r.op = "wrong" /\ r.id = id
  BY <1>4 DEF Wrongs
<1> HIDE DEF r, attempt
<1>6. /\ attempts' \in Seq(Attempt) /\ DOMAIN attempts' = DOMAIN attempts \cup {id}
      /\ \A i \in DOMAIN attempts : attempts'[i] = attempts[i]
  BY <1>1, <1>3
<1> HIDE DEF id
<1>7. /\ phase' \in [Tasks -> {"idle", "found", "read", "running", "decided", "flushed"}]
      /\ DOMAIN req' = Tasks
      /\ \A u \in Tasks : /\ phase'[u] = IF u = t THEN "read" ELSE phase[u]
                          /\ req'[u] = IF u = t THEN r ELSE req[u]
  BY <1>1, Moved
<1>8. TypeOK'
  <2>1. r \in RequestsAt("read")
    BY <1>5 DEF RequestsAt
  <2>2. ASSUME NEW u \in Tasks
        PROVE  /\ req'[u] \in RequestsAt(phase'[u])
               /\ req'[u].op = "wrong" /\ phase'[u] # "found" => req'[u].id \in DOMAIN attempts'
               /\ req'[u].op \in SessionOps => req'[u].session \in DOMAIN sessions
    BY <1>5, <1>6, <1>7, <2>1, Operations DEF TypeOK
  <2>3. QED
    BY <1>1, <1>6, <1>7, <2>2 DEF TypeOK, RequestsAt
<1>9. IdsInv'
  <2>1. id \notin failures /\ \A u \in Tasks : Recorded(u) => req[u].id # id
    BY <1>4 DEF TypeOK, Recorded
  <2>2. \A u \in Tasks \ {t} : Recorded(u)' => Recorded(u) /\ req'[u] = req[u]
    BY <1>7 DEF Recorded
  <2>3. req'[t].id = id
    BY <1>5, <1>7
  <2>4. QED
    BY <1>1, <2>1, <2>2, <2>3 DEF IdsInv
<1>10. GuessesInv'
  <2>1. \A u \in Tasks : Counting(u)' => Counting(u) /\ req'[u] = req[u]
    BY <1>7 DEF Counting
  <2>2. Counted' \subseteq Counted
    BY <2>1 DEF Counted
  <2>3. failures \cup Counted \subseteq DOMAIN attempts
    BY DEF TypeOK, Counted, Counting
  <2>4. Guesses(failures \cup Counted)' \subseteq Guesses(failures \cup Counted)
    BY <1>1, <1>6, <2>2, <2>3 DEF Guesses
  <2>5. QED
    BY <2>4, FewerGuesses
<1>11. LateInv'
  <2>1. ASSUME Locked, NEW u \in Tasks
        PROVE  /\ late[u] <= 1
               /\ Trying(u)' => \/ late[u] = 0
                                \/ phase'[u] = "found" /\ req'[u].locked = user.locked
    <3>1. /\ late[u] <= 1
          /\ Trying(u) => \/ late[u] = 0
                          \/ phase[u] = "found" /\ req[u].locked = user.locked
      BY <2>1 DEF LateInv
    <3>2. u = t => late[u] = 0
      <4>1. now \in Int /\ user.locked \in Int
        BY DEF TypeOK, Times, User
      <4>2. QED
        BY <1>1, <2>1, <3>1, <4>1 DEF MayTry, Locked, Trying
    <3>3. u # t => phase'[u] = phase[u] /\ req'[u] = req[u]
      BY <1>7
    <3>4. QED
      BY <3>1, <3>2, <3>3 DEF Trying
  <2>2. QED
    BY <1>1, <2>1 DEF LateInv, Locked
<1>12. SessionsInv'
  <2>1. SessionsSound'
    BY <1>1 DEF SessionsInv, SessionsSound, SessionsEnd
  <2>2. r.op \notin SessionOps /\ r.op # "login"
    BY <1>5, Operations
  <2>3. QED
    BY <1>1, <1>7, <2>1, <2>2 DEF SessionsInv
<1>13. PasswordInv'
  BY <1>1, <1>5, <1>7 DEF PasswordInv, AboutToRehash
<1>14. QED
  BY <1>8, <1>9, <1>10, <1>11, <1>12, <1>13

\* Each of the other connections has counted one attempt at most that is not on record yet.
LEMMA OtherAttempts ==
  ASSUME TypeOK, NEW t \in Tasks
  PROVE  LET O == {req[u].id : u \in {v \in Tasks \ {t} : Counting(v)}}
         IN  /\ IsFiniteSet(O)
             /\ Cardinality(O) \in Nat
             /\ Cardinality(O) <= Cardinality(Tasks) - 1
<1> DEFINE U == {v \in Tasks \ {t} : Counting(v)}
           O == {req[u].id : u \in U}
           f == [u \in U |-> req[u].id]
<1>1. IsFiniteSet(Tasks \ {t}) /\ Cardinality(Tasks \ {t}) = Cardinality(Tasks) - 1
  BY TasksAssumption, FS_RemoveElement
<1>2. IsFiniteSet(U) /\ Cardinality(U) <= Cardinality(Tasks \ {t})
  BY <1>1, FS_Subset
<1>3. f \in Surjection(U, O)
  BY DEF Surjection
<1>4. IsFiniteSet(O) /\ Cardinality(O) <= Cardinality(U)
  BY <1>2, <1>3, FS_Surjection
<1>5. Cardinality(O) \in Nat /\ Cardinality(U) \in Nat /\ Cardinality(Tasks) \in Nat
  BY <1>2, <1>4, TasksAssumption, FS_CardinalityType
<1>6. QED
  BY <1>1, <1>2, <1>4, <1>5

\* Of the guesses after counting one that does not lock, the request counted all but those
\* the other connections had not committed.
LEMMA CountFailuresGuesses ==
  ASSUME IInv, NEW t \in Tasks, phase[t] = "read", req[t].op = "wrong",
         attempts[req[t].id] \in Attempt,
         Cardinality(Recent(req[t].id)) < Threshold,
         UNCHANGED <<now, failures>>,
         \A i \in DOMAIN attempts : attempts'[i].at = attempts[i].at,
         Counted' \subseteq {req[t].id} \cup {req[u].id : u \in {v \in Tasks \ {t} : Counting(v)}}
  PROVE  GuessesInv'
<1> USE DEF IInv
<1> DEFINE id == req[t].id
           O == {req[u].id : u \in {v \in Tasks \ {t} : Counting(v)}}
           R == Recent(id)
           H == Guesses(failures \cup Counted)'
<1>1. id \in DOMAIN attempts /\ failures \subseteq DOMAIN attempts /\ O \subseteq DOMAIN attempts
  BY DEF TypeOK, Counting
<1>2. IsFiniteSet(O) /\ Cardinality(O) \in Nat /\ Cardinality(O) <= Cardinality(Tasks) - 1
  BY OtherAttempts
<1>3. R \subseteq DOMAIN attempts /\ IsFiniteSet(R) /\ Cardinality(R) \in Nat
  <2>1. R \subseteq DOMAIN attempts
    BY <1>1 DEF Recent
  <2>2. IsFiniteSet(R)
    BY <2>1, FiniteGuesses, FS_Subset
  <2>3. QED
    BY <2>1, <2>2, FS_CardinalityType
<1>4. H \subseteq R \cup O
  BY <1>1 DEF Recent, Guesses
<1>5. /\ IsFiniteSet(R \cup O) /\ IsFiniteSet(R \cap O)
      /\ Cardinality(R \cup O) = Cardinality(R) + Cardinality(O) - Cardinality(R \cap O)
      /\ Cardinality(R \cap O) \in Nat
  <2>1. IsFiniteSet(R \cap O)
    BY <1>3, FS_Subset
  <2>2. QED
    BY <1>2, <1>3, <2>1, FS_Union, FS_CardinalityType
<1>6. Cardinality(H) \in Nat /\ Cardinality(H) <= Cardinality(R \cup O)
  BY <1>4, <1>5, FS_Subset, FS_CardinalityType
<1>7. Cardinality(Tasks) \in Nat /\ Threshold \in Nat /\ Cardinality(R) < Threshold
  BY TasksAssumption, FS_CardinalityType, LoginAssumption
<1> HIDE DEF H, R, O
<1>8. Cardinality(H) <= Threshold - 2 + Cardinality(Tasks)
  BY <1>2, <1>3, <1>5, <1>6, <1>7
<1>9. QED
  BY <1>8 DEF GuessesInv, H

LEMMA CountFailuresKeeps == ASSUME IInv, NEW t \in Tasks, CountFailures(t) PROVE IInv'
<1> USE DEF IInv
<1> DEFINE id == req[t].id
           locks == Cardinality(Recent(id)) >= Threshold
           r == [op |-> "wrong", id |-> id, writes |-> locks, until |-> now + Window]
<1>1. /\ phase[t] = "read" /\ req[t].op = "wrong"
      /\ attempts' = [attempts EXCEPT ![id].locks = locks]
      /\ Enter(t, "decided", r)
      /\ UNCHANGED <<now, user, failures, sessions, begun, changes, late, raced>>
  BY DEF CountFailures, ghosts
<1>2. id \in DOMAIN attempts /\ DOMAIN attempts = 1 .. Len(attempts) /\ attempts \in Seq(Attempt)
  BY <1>1 DEF TypeOK
<1>3. attempts[id] \in Attempt /\ id \in Nat
  BY <1>2
<1>4. [attempts[id] EXCEPT !.locks = locks] = [at |-> attempts[id].at, locks |-> locks]
  BY <1>3 DEF Attempt
<1>5. [at |-> attempts[id].at, locks |-> locks] \in Attempt
  BY <1>3 DEF Attempt
<1>6. now + Window \in Nat
  BY LoginAssumption DEF TypeOK, Times
<1>7. r \in Counteds /\ r.op = "wrong" /\ r.id = id
  BY <1>3, <1>6 DEF Counteds
<1> HIDE DEF locks, r
<1>8. /\ attempts' \in Seq(Attempt) /\ DOMAIN attempts' = DOMAIN attempts
      /\ \A i \in DOMAIN attempts :
           attempts'[i] = IF i = id THEN [at |-> attempts[id].at, locks |-> locks] ELSE attempts[i]
  <2> DEFINE e == [at |-> attempts[id].at, locks |-> locks]
  <2>1. attempts' = [attempts EXCEPT ![id] = e] /\ e \in Attempt
    BY <1>1, <1>4, <1>5
  <2> HIDE DEF e
  <2>2. /\ [attempts EXCEPT ![id] = e] \in Seq(Attempt)
        /\ Len([attempts EXCEPT ![id] = e]) = Len(attempts)
        /\ \A i \in 1 .. Len(attempts) :
             [attempts EXCEPT ![id] = e][i] = IF i = id THEN e ELSE attempts[i]
    BY <1>2, <2>1, ExceptSeq
  <2>3. DOMAIN attempts' = 1 .. Len(attempts')
    BY <2>1, <2>2
  <2>4. QED
    BY <1>2, <2>1, <2>2, <2>3 DEF e
<1> HIDE DEF id
<1>9. /\ phase' \in [Tasks -> {"idle", "found", "read", "running", "decided", "flushed"}]
      /\ DOMAIN req' = Tasks
      /\ \A u \in Tasks : /\ phase'[u] = IF u = t THEN "decided" ELSE phase[u]
                          /\ req'[u] = IF u = t THEN r ELSE req[u]
  BY <1>1, Moved
<1>10. TypeOK'
  <2>1. r \in RequestsAt("decided")
    BY <1>7 DEF RequestsAt
  <2>2. ASSUME NEW u \in Tasks
        PROVE  /\ req'[u] \in RequestsAt(phase'[u])
               /\ req'[u].op = "wrong" /\ phase'[u] # "found" => req'[u].id \in DOMAIN attempts'
               /\ req'[u].op \in SessionOps => req'[u].session \in DOMAIN sessions
    BY <1>1, <1>2, <1>7, <1>8, <1>9, <2>1, Operations DEF TypeOK
  <2>3. QED
    BY <1>1, <1>8, <1>9, <2>2 DEF TypeOK, RequestsAt
<1>11. IdsInv'
  <2>1. \A u \in Tasks : Recorded(u)' => Recorded(u) /\ req'[u].id = req[u].id
    BY <1>1, <1>7, <1>9 DEF id, Recorded
  <2>2. ASSUME NEW u \in Tasks, Recorded(u)', NEW v \in Tasks, Recorded(v)'
        PROVE  req'[u].id \notin failures' /\ (req'[v].id = req'[u].id => v = u)
    <3>1. /\ Recorded(u) /\ req'[u].id = req[u].id
          /\ Recorded(v) /\ req'[v].id = req[v].id
      BY <2>1, <2>2
    <3>2. QED
      BY <1>1, <3>1 DEF IdsInv
  <2>3. QED
    BY <2>2 DEF IdsInv
<1>12. GuessesInv'
  <2>1. Counted' \subseteq {id} \cup {req[u].id : u \in {v \in Tasks \ {t} : Counting(v)}}
    <3>1. \A u \in Tasks \ {t} : Counting(u)' => Counting(u) /\ req'[u] = req[u]
      BY <1>9 DEF Counting
    <3>2. req'[t].id = id
      BY <1>7, <1>9
    <3>3. QED
      BY <3>1, <3>2 DEF Counted
  <2>2. CASE locks
    <3>1. attempts'[id].locks
      BY <1>2, <1>8, <2>2 DEF id
    <3>2. {req[u].id : u \in {v \in Tasks \ {t} : Counting(v)}} \subseteq Counted
      BY DEF Counted
    <3>3. failures \cup Counted \subseteq DOMAIN attempts
      BY DEF TypeOK, Counted, Counting
    <3>4. Guesses(failures \cup Counted)' \subseteq Guesses(failures \cup Counted)
      BY <1>1, <1>8, <2>1, <3>1, <3>2, <3>3 DEF Guesses
    <3>5. QED
      BY <3>4, FewerGuesses
  <2>3. CASE ~ locks
    <3>1. Cardinality(Recent(id)) < Threshold
      <4>1. IsFiniteSet(Recent(id))
        <5>1. Recent(id) \subseteq DOMAIN attempts
          BY <1>2 DEF Recent, id, TypeOK
        <5>2. QED
          BY <5>1, FiniteGuesses, FS_Subset
      <4>2. Cardinality(Recent(id)) \in Nat
        BY <4>1, FS_CardinalityType
      <4>3. QED
        BY <2>3, <4>2, LoginAssumption DEF locks, id
    <3>2. \A i \in DOMAIN attempts : attempts'[i].at = attempts[i].at
      BY <1>8
    <3>3. QED
      BY <1>1, <1>3, <2>1, <3>1, <3>2, CountFailuresGuesses DEF id
  <2>4. QED
    BY <2>2, <2>3
<1>13. LateInv'
  <2>1. \A u \in Tasks \ {t} : req'[u] = req[u] /\ phase'[u] = phase[u]
    BY <1>9
  <2>2. Trying(t) /\ phase[t] # "found"
    BY <1>1 DEF Trying
  <2>3. QED
    BY <1>1, <2>1, <2>2 DEF LateInv, Locked, Trying
<1>14. SessionsInv'
  <2>1. r.op \notin SessionOps /\ r.op # "login"
    BY <1>7, Operations
  <2>2. QED
    BY <1>1, <1>9, <2>1 DEF SessionsInv, SessionsSound, SessionsEnd
<1>15. PasswordInv'
  BY <1>1, <1>7, <1>9 DEF PasswordInv, AboutToRehash
<1>16. QED
  BY <1>10, <1>11, <1>12, <1>13, <1>14, <1>15

-----------------------------------------------------------------------------
LEMMA StutterKeeps == ASSUME IInv, UNCHANGED vars PROVE IInv'
<1>1. UNCHANGED <<now, user, attempts, failures, sessions, phase, req, begun, changes, late, raced>>
  BY DEF vars, tables, ghosts
<1>2. QED
  BY <1>1 DEF IInv, TypeOK, RequestsAt, IdsInv, Recorded, GuessesInv, Guesses, Counted, Counting,
              LateInv, Locked, Trying, SessionsInv, SessionsSound, SessionsEnd, PasswordInv,
              AboutToRehash

LEMMA Inductive == Spec => []IInv
<1>1. IInv /\ [Next]_vars => IInv'
  <2> SUFFICES ASSUME IInv, [Next]_vars PROVE IInv'
    OBVIOUS
  <2>1. CASE Tick
    BY <2>1, TickKeeps
  <2>2. ASSUME NEW t \in Tasks, Attempting(t) PROVE IInv'
    BY <2>2, BeginTryKeeps, RecordFailedKeeps, CountFailuresKeeps, FlushKeeps, CommitWrongKeeps,
       PassLockKeeps, ClearFailuresKeeps, CommitLoginKeeps DEF Attempting
  <2>3. ASSUME NEW t \in Tasks, Visiting(t) PROVE IInv'
    BY <2>3, BeginAuthKeeps, TakeTimeKeeps, FlushSeenKeeps, CommitVisitKeeps, CommitLogoutKeeps,
       BeginChangeKeeps, FlushKeeps, CommitChangeKeeps DEF Visiting
  <2>4. ASSUME NEW t \in Tasks, Unlocking(t) PROVE IInv'
    BY <2>4, BeginUnlockKeeps, FlushKeeps, CommitUnlockKeeps DEF Unlocking
  <2>5. ASSUME NEW t \in Tasks, Undo(t) PROVE IInv'
    BY <2>5, UndoKeeps
  <2>6. CASE UNCHANGED vars
    BY <2>6, StutterKeeps
  <2>7. QED
    BY <2>1, <2>2, <2>3, <2>4, <2>5, <2>6 DEF Next
<1>2. QED
  BY <1>1, InitHolds, PTL DEF Spec

\* Requests carry what their stage has established, and refer to rows that exist.
THEOREM LoginTypes == Spec => []TypeOK
<1>1. IInv => TypeOK
  BY DEF IInv
<1>2. QED
  BY <1>1, Inductive, PTL

\* However many connections guess passwords, and whatever is cleared, unlocked or undone in
\* between, the guesses of a window that do not lock exceed those below the threshold by at
\* most one for each further connection.
THEOREM GuessesAreBounded == Spec => []GuessesBounded
<1>1. IInv => GuessesBounded
  <2> SUFFICES ASSUME IInv PROVE GuessesBounded
    OBVIOUS
  <2> DEFINE G == Guesses(failures \cup Counted)
             F == {i \in failures : attempts[i].at >= now - Window /\ ~ attempts[i].locks}
  <2>1. IsFiniteSet(G) /\ F \in SUBSET G
    BY FiniteGuesses DEF IInv, Guesses
  <2>2. Cardinality(F) <= Cardinality(G) /\ Cardinality(G) \in Nat /\ Cardinality(F) \in Nat
    BY <2>1, FS_Subset, FS_CardinalityType
  <2>3. Cardinality(Tasks) \in Nat /\ Threshold \in Nat
    BY TasksAssumption, LoginAssumption, FS_CardinalityType
  <2>4. Cardinality(G) <= Threshold - 2 + Cardinality(Tasks)
    BY DEF IInv, GuessesInv
  <2>5. QED
    BY <2>2, <2>3, <2>4 DEF GuessesBounded
<1>2. QED
  BY <1>1, Inductive, PTL

\* The lock does not stop an attempt that read the user before it, but under one lock no
\* connection gets a second one in.
THEOREM AtMostOneLateAttempt == Spec => []OneLateAttempt
<1>1. IInv => OneLateAttempt
  BY DEF IInv, LateInv, OneLateAttempt
<1>2. QED
  BY <1>1, Inductive, PTL

\* A session is never seen at its expiry or after it; and whatever the handlers of a logout
\* and of the session's other requests do in between, each connection executes at most one
\* more request of the session once the logout is committed.
THEOREM SessionsEndInTime == Spec => []SessionsEnd
<1>1. IInv => SessionsEnd
  BY DEF IInv, SessionsInv, SessionsSound
<1>2. QED
  BY <1>1, Inductive, PTL

\* No login undoes a change of the password, but for one that was about to rehash.
THEOREM ChosenPasswordStays == Spec => []PasswordIsChosen
<1>1. IInv => PasswordIsChosen
  BY DEF IInv, PasswordInv, PasswordIsChosen
<1>2. QED
  BY <1>1, Inductive, PTL
=============================================================================
