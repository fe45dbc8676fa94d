------------------------------- MODULE Login -------------------------------
(***************************************************************************)
(* One account: passwords tried, counted and cleared, the lock on the      *)
(* account, its sessions and what their requests do to them                *)
(* (routes/auth.py, services/lockout.py, services/auth_context.py, unlock  *)
(* in routes/admin_users.py).                                              *)
(*                                                                         *)
(* The users row is written column by column under its row lock.  A        *)
(* password is the number of the change that chose it; whether a password  *)
(* is right is decided on the row the request has read.  The token of a    *)
(* session is left out: who has it may send requests of the session.       *)
(***************************************************************************)
EXTENDS Integers, Sequences, FiniteSets

CONSTANTS Tasks,       \* connections, each with one request at a time
          Threshold,   \* login_lockout_threshold
          Window,      \* login_lockout_window_seconds, in ticks
          Ttl,         \* SESSION_TTL_SECONDS, in ticks
          MaxTime,     \* bound on the clock
          MaxRequests  \* bound on the requests

ASSUME LoginAssumption == /\ {Threshold, Window, Ttl, MaxTime} \subseteq Nat \ {0}
                          /\ MaxRequests \in Nat
ASSUME TasksAssumption == IsFiniteSet(Tasks) /\ Tasks # {}

VARIABLES now,      \* the clock
          user,     \* the users row: password, parameters of its hash, locked_until
          attempts, \* the failed_logins inserted so far, committed or not
          failures, \* those that are committed and not cleared
          sessions, \* the committed sessions
          phase,    \* phase[t]: how far the request on t has come
          req,      \* req[t]: that request
          begun,    \* requests so far
          changes,  \* committed changes of the password
          late,     \* late[t]: attempts on t settled under the lock last committed
          raced     \* did a change commit while a login was about to rehash?

tables == <<user, attempts, failures, sessions>>
ghosts == <<changes, late, raced>>
vars == <<now, tables, phase, req, begun, ghosts>>

Never == 0
Times == 1 .. MaxTime
NoRequest == [op |-> "none"]

User == [password : Nat, old : BOOLEAN, locked : Nat]
Attempt == [at : Times, locks : BOOLEAN]

\* ended: when the first logout of the session was committed (Never: revoked_at is NULL).
\* after[t]: requests of the session that connection t has committed since then.
Session == [expires : Nat, seen : Times, ended : Nat, after : [Tasks -> Nat]]

Init == /\ now = 1
        /\ user \in {[password |-> 0, old |-> b, locked |-> Never] : b \in BOOLEAN}
        /\ attempts = <<>>
        /\ failures = {}
        /\ sessions = <<>>
        /\ phase = [t \in Tasks |-> "idle"]
        /\ req = [t \in Tasks |-> NoRequest]
        /\ begun = 0
        /\ changes = 0
        /\ late = [t \in Tasks |-> 0]
        /\ raced = FALSE

-----------------------------------------------------------------------------
Enter(t, p, r) == phase' = [phase EXCEPT ![t] = p] /\ req' = [req EXCEPT ![t] = r]

\* Slip: the request's state outlives it.
FinishKeeping(t) == Enter(t, "idle", req[t])

Finish(t) == Enter(t, "idle", NoRequest)

Begin(t, p, r) == /\ phase[t] = "idle"
                  /\ begun < MaxRequests
                  /\ begun' = begun + 1
                  /\ Enter(t, p, r)

\* Who holds the row lock of the users row: it has flushed a column of it.
HoldsUser(t) == phase[t] = "flushed" /\ req[t].writes

UserFree(t) == \A u \in Tasks \ {t} : ~ HoldsUser(u)

\* A connection that flushes the users row waits for its lock.
FlushUser(t, r) == /\ r.writes => UserFree(t)
                   /\ Enter(t, "flushed", r)
                   /\ UNCHANGED <<now, tables, begun, ghosts>>

-----------------------------------------------------------------------------
(* Logging in *)

\* The account is locked: is_locked, were it asked of the row as it is now.
Locked == now < user.locked

\* An attempt that is settled while the account is locked is a late one.
Settle(t) == late' = IF Locked THEN [late EXCEPT ![t] = @ + 1] ELSE late

\* login reads the users row, which decides whether the password is right: a wrong one
BeginWrong(t) ==
  /\ Begin(t, "found", [op |-> "wrong", locked |-> user.locked, began |-> now])
  /\ UNCHANGED <<now, tables, ghosts>>

\* or the right one, whose hash may have old parameters (needs_rehash)
BeginLogin(t) ==
  /\ Begin(t, "found", [op |-> "login", locked |-> user.locked, began |-> now,
                        password |-> user.password, old |-> user.old])
  /\ UNCHANGED <<now, tables, ghosts>>

\* Slip: the lock is not asked for.
MayTryAnytime(r) == TRUE

\* is_locked takes the time once the row is there; login refuses with 423.
MayTry(r) == now >= r.locked

\* record_failed inserts a row stamped with the start of the
\* transaction, visible to others once committed.
RecordFailed(t) ==
  /\ phase[t] = "found"
  /\ req[t].op = "wrong"
  /\ MayTry(req[t])
  /\ attempts' = Append(attempts, [at |-> req[t].began, locks |-> FALSE])
  /\ Enter(t, "read", [op |-> "wrong", id |-> Len(attempts) + 1])
  /\ UNCHANGED <<now, user, failures, sessions, begun, ghosts>>

\* Slip: the attempt's own row is not counted.
SeenByOthers(i) == {j \in failures : attempts[j].at >= now - Window}

\* count_failed_within_window, as the transaction of attempt i sees the table
Recent(i) == {j \in failures \cup {i} : attempts[j].at >= now - Window}

\* apply_lockout_if_threshold
CountFailures(t) ==
  /\ phase[t] = "read"
  /\ req[t].op = "wrong"
  /\ LET locks == Cardinality(Recent(req[t].id)) >= Threshold IN
       /\ attempts' = [attempts EXCEPT ![req[t].id].locks = locks]
       /\ Enter(t, "decided", [op |-> "wrong", id |-> req[t].id, writes |-> locks,
                               until |-> now + Window])
  /\ UNCHANGED <<now, user, failures, sessions, begun, ghosts>>

FlushWrong(t) == /\ phase[t] = "decided"
                 /\ req[t].op = "wrong"
                 /\ FlushUser(t, req[t])

\* A lock that is committed starts the count of late attempts afresh.
CommitWrong(t) ==
  /\ phase[t] = "flushed"
  /\ req[t].op = "wrong"
  /\ failures' = failures \cup {req[t].id}
  /\ user' = IF req[t].writes THEN [user EXCEPT !.locked = req[t].until] ELSE user
  /\ IF req[t].writes THEN late' = [u \in Tasks |-> 0] ELSE Settle(t)
  /\ Finish(t)
  /\ UNCHANGED <<now, attempts, sessions, begun, changes, raced>>

\* A login that the lock does not stop
PassLock(t) ==
  /\ phase[t] = "found"
  /\ req[t].op = "login"
  /\ MayTry(req[t])
  /\ Enter(t, "read", [op |-> "login", password |-> req[t].password, old |-> req[t].old,
                       began |-> req[t].began])
  /\ UNCHANGED <<now, tables, begun, ghosts>>

\* clear_failures deletes the rows that are committed now; expires_at is computed.  A
\* new hash is flushed before.
ClearFailures(t) ==
  /\ phase[t] = "read"
  /\ req[t].op = "login"
  /\ LET old == req[t].old IN
       /\ old => UserFree(t)
       /\ Enter(t, IF old THEN "flushed" ELSE "decided",
                [op |-> "login", password |-> req[t].password, old |-> old,
                 began |-> req[t].began, writes |-> TRUE, cleared |-> failures,
                 expires |-> now + Ttl])
  /\ UNCHANGED <<now, tables, begun, ghosts>>

\* last_login_at is a column of the users row; once it is flushed the DELETE cannot
\* meet another one of the same rows.
FlushLogin(t) ==
  /\ phase[t] = "decided"
  /\ req[t].op = "login"
  /\ FlushUser(t, req[t])

\* Slip: the UPDATE names the password whether it has changed or not.
AllColumns(r) == [user EXCEPT !.password = r.password, !.old = FALSE]

\* The hash is written only by a login that found its parameters to be old.
Rehashed(r) == IF r.old THEN [user EXCEPT !.password = r.password, !.old = FALSE] ELSE user

CommitLogin(t) ==
  /\ phase[t] = "flushed"
  /\ req[t].op = "login"
  /\ failures' = failures \ req[t].cleared
  /\ user' = Rehashed(req[t])
  /\ sessions' = Append(sessions, [expires |-> req[t].expires, seen |-> req[t].began,
                                   ended |-> Never, after |-> [u \in Tasks |-> 0]])
  /\ Settle(t)
  /\ Finish(t)
  /\ UNCHANGED <<now, attempts, begun, changes, raced>>

-----------------------------------------------------------------------------
(* Requests of a session *)

\* Slip: a session that was logged out of is not refused.
EvenRevoked(k) == TRUE

\* Not revoked
Open(k) == sessions[k].ended = Never

\* build_auth_context reads the session row; a logout may commit as soon as it has.
BeginAuth(t, k, op) ==
  /\ Open(k)
  /\ Begin(t, "found", [op |-> op, session |-> k])
  /\ UNCHANGED <<now, tables, ghosts>>

SessionOps == {"visit", "logout", "change"}

\* The time is taken after the row has arrived; expires_at <= now refuses.
TakeTime(t) ==
  /\ phase[t] = "found"
  /\ req[t].op \in SessionOps
  /\ now < sessions[req[t].session].expires
  /\ Enter(t, "read", [op |-> req[t].op, session |-> req[t].session, seen |-> now])
  /\ UNCHANGED <<now, tables, begun, ghosts>>

\* Who holds the row lock of session k: it has flushed last_seen_at.
HoldsSession(t, k) == /\ phase[t] \in {"running", "decided", "flushed"}
                      /\ req[t].op \in SessionOps
                      /\ req[t].session = k

\* last_seen_at is flushed; from here to the end the session's other requests wait.
FlushSeen(t) ==
  /\ phase[t] = "read"
  /\ req[t].op \in SessionOps
  /\ \A u \in Tasks \ {t} : ~ HoldsSession(u, req[t].session)
  /\ Enter(t, "running", req[t])
  /\ UNCHANGED <<now, tables, begun, ghosts>>

\* The session after a request of it commits: seen at the time it took, and one
\* request more if a logout has been committed.
Seen(t) ==
  LET s == sessions[req[t].session]
  IN  [sessions EXCEPT ![req[t].session] =
         [s EXCEPT !.seen = req[t].seen,
                   !.after = IF s.ended = Never THEN s.after ELSE [s.after EXCEPT ![t] = @ + 1]]]

\* Any other handler that commits.
CommitVisit(t) ==
  /\ phase[t] = "running"
  /\ req[t].op = "visit"
  /\ sessions' = Seen(t)
  /\ Finish(t)
  /\ UNCHANGED <<now, user, attempts, failures, begun, ghosts>>

\* logout; a second one that read the session before the first committed sets
\* revoked_at again.
CommitLogout(t) ==
  /\ phase[t] = "running"
  /\ req[t].op = "logout"
  /\ sessions' = [Seen(t) EXCEPT ![req[t].session].ended = IF @ = Never THEN now ELSE @]
  /\ Finish(t)
  /\ UNCHANGED <<now, user, attempts, failures, begun, ghosts>>

\* change_password verifies the current password on the row it reads; sessions and
\* failures stay as they are.
BeginChange(t) ==
  /\ phase[t] = "running"
  /\ req[t].op = "change"
  /\ Enter(t, "decided", [op |-> "change", session |-> req[t].session, seen |-> req[t].seen,
                          writes |-> TRUE])
  /\ UNCHANGED <<now, tables, begun, ghosts>>

FlushChange(t) == /\ phase[t] = "decided"
                  /\ req[t].op = "change"
                  /\ FlushUser(t, req[t])

\* Logins that will write the hash of the password they have read
AboutToRehash == {u \in Tasks : req[u].op = "login" /\ req[u].old}

CommitChange(t) ==
  /\ phase[t] = "flushed"
  /\ req[t].op = "change"
  /\ user' = [user EXCEPT !.password = changes + 1, !.old = FALSE]
  /\ sessions' = Seen(t)
  /\ changes' = changes + 1
  /\ raced' = (raced \/ AboutToRehash # {})
  /\ Finish(t)
  /\ UNCHANGED <<now, attempts, failures, begun, late>>

-----------------------------------------------------------------------------
(* Unlocking, and the rest *)

\* unlock_user writes locked_until only if the row it has read is locked; the failures stay.
BeginUnlock(t) ==
  /\ Begin(t, "decided", [op |-> "unlock", writes |-> user.locked # Never])
  /\ UNCHANGED <<now, tables, ghosts>>

FlushUnlock(t) == /\ phase[t] = "decided"
                  /\ req[t].op = "unlock"
                  /\ FlushUser(t, req[t])

CommitUnlock(t) ==
  /\ phase[t] = "flushed"
  /\ req[t].op = "unlock"
  /\ user' = IF req[t].writes THEN [user EXCEPT !.locked = Never] ELSE user
  /\ Finish(t)
  /\ UNCHANGED <<now, attempts, failures, sessions, begun, ghosts>>

\* A refusal, a GET, an error or a restart: the transaction is rolled back.
Undo(t) == /\ phase[t] # "idle"
           /\ Finish(t)
           /\ UNCHANGED <<now, tables, begun, ghosts>>

Tick == /\ now < MaxTime
        /\ now' = now + 1
        /\ UNCHANGED <<tables, phase, req, begun, ghosts>>

Attempting(t) == \/ BeginWrong(t) \/ RecordFailed(t) \/ CountFailures(t)
                 \/ FlushWrong(t) \/ CommitWrong(t)
                 \/ BeginLogin(t) \/ PassLock(t) \/ ClearFailures(t) \/ FlushLogin(t) \/ CommitLogin(t)

Visiting(t) == \/ \E k \in 1 .. Len(sessions), op \in SessionOps : BeginAuth(t, k, op)
               \/ TakeTime(t) \/ FlushSeen(t) \/ CommitVisit(t) \/ CommitLogout(t)
               \/ BeginChange(t) \/ FlushChange(t) \/ CommitChange(t)

Unlocking(t) == BeginUnlock(t) \/ FlushUnlock(t) \/ CommitUnlock(t)

Next == Tick \/ \E t \in Tasks : Attempting(t) \/ Visiting(t) \/ Unlocking(t) \/ Undo(t)

Spec == Init /\ [][Next]_vars

-----------------------------------------------------------------------------
(* Properties *)

\* The requests: a wrong password before the lock is asked for, before and after it is
\* counted; a right one before the lock, before and after it clears the failures; a request
\* of a session before and after it takes the time, a change past its check, an unlock
WrongTries == [op : {"wrong"}, locked : Nat, began : Times]
LoginTries == [op : {"login"}, locked : Nat, began : Times, password : Nat, old : BOOLEAN]
Wrongs == [op : {"wrong"}, id : Nat]
Counteds == [op : {"wrong"}, id : Nat, writes : BOOLEAN, until : Nat]
Logins == [op : {"login"}, password : Nat, old : BOOLEAN, began : Times]
Cleareds == [op : {"login"}, password : Nat, old : BOOLEAN, began : Times, writes : {TRUE},
             cleared : SUBSET Nat, expires : Nat]
Visitors == [op : SessionOps, session : Nat]
Visits == [op : SessionOps, session : Nat, seen : Times]
Changes == [op : {"change"}, session : Nat, seen : Times, writes : {TRUE}]
Unlocks == [op : {"unlock"}, writes : BOOLEAN]

RequestsAt(p) == CASE p = "idle" -> {NoRequest}
                   [] p = "found" -> WrongTries \cup LoginTries \cup Visitors
                   [] p = "read" -> Wrongs \cup Logins \cup Visits
                   [] p = "running" -> Visits
                   [] p \in {"decided", "flushed"} -> Counteds \cup Cleareds \cup Changes \cup Unlocks

\* Every variable has its type, a request is one of those of its stage, and what it refers
\* to exists.
TypeOK ==
  /\ now \in Times
  /\ user \in User
  /\ attempts \in Seq(Attempt)
  /\ failures \subseteq DOMAIN attempts
  /\ sessions \in Seq(Session)
  /\ phase \in [Tasks -> {"idle", "found", "read", "running", "decided", "flushed"}]
  /\ DOMAIN req = Tasks
  /\ \A t \in Tasks : /\ req[t] \in RequestsAt(phase[t])
                      /\ req[t].op = "wrong" /\ phase[t] # "found" => req[t].id \in DOMAIN attempts
                      /\ req[t].op \in SessionOps => req[t].session \in DOMAIN sessions
  /\ begun \in 0 .. MaxRequests
  /\ changes \in Nat
  /\ late \in [Tasks -> Nat]
  /\ raced \in BOOLEAN

\* Failures on record in the window whose attempts have not locked the account:
\* with one connection the last attempt before the threshold is the last of them,
\* and each further connection adds at most one (services/lockout.py).
GuessesBounded ==
  Cardinality({i \in failures : attempts[i].at >= now - Window /\ ~ attempts[i].locks})
    <= Threshold - 2 + Cardinality(Tasks)

\* Under one lock each connection settles at most one attempt, right or wrong: the one
\* that had read the users row before the lock was committed (routes/auth.py, lockout.py).
OneLateAttempt == Locked => \A t \in Tasks : late[t] <= 1

\* last_seen_at is before the session's expiry; and once its logout is committed each
\* connection executes at most one more request of the session, the one that had read the
\* row before, though it may be seen later than the logout (services/auth_context.py).
SessionsEnd ==
  \A k \in 1 .. Len(sessions) :
    /\ sessions[k].seen < sessions[k].expires
    /\ \A t \in Tasks : sessions[k].after[t] <= 1

\* The password is the one last chosen: a login that overlaps the change does not
\* bring the former one back, unless it was about to rehash it.
PasswordIsChosen == user.password = changes \/ raced
=============================================================================
