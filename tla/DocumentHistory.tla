-------------------------- MODULE DocumentHistory --------------------------
(***************************************************************************)
(* What a versioned document promises: its history only grows, one version *)
(* at a time, numbered by position; a version refers to earlier ones only; *)
(* a copy and a rollback have the contents of the version they name.       *)
(***************************************************************************)
EXTENDS Naturals, Sequences

CONSTANTS Plans,    \* documents whose versions have parents
          Catalogs, \* templates and rule sets, whose versions have none
          Bodies    \* contents of a version

VARIABLE history    \* history[d]: the versions of document d, by number

\* of: the version a copy or a rollback was made from, or a parent that was asked for
Version == [no : Nat, op : {"create", "write", "copy", "rollback", "publish"},
            parent : Nat, of : Nat, body : Bodies]

Init == history = [d \in Plans \cup Catalogs |-> <<>>]

Latest(d) == Len(history[d])

Grow(d, op, parent, of, body) ==
  history' = [history EXCEPT ![d] =
    Append(@, [no |-> Latest(d) + 1, op |-> op, parent |-> parent, of |-> of, body |-> body])]

Create(d) == /\ Latest(d) = 0
             /\ \E b \in Bodies : Grow(d, "create", 0, 0, b)

Publish(d) == /\ Latest(d) > 0
              /\ \E b \in Bodies : Grow(d, "publish", 0, 0, b)

\* A new version follows the latest one, unless another parent was asked for.
Write(d) == /\ Latest(d) > 0
            /\ \E b \in Bodies :
                 \/ Grow(d, "write", Latest(d), 0, b)
                 \/ \E n \in 1 .. Latest(d) : Grow(d, "write", n, n, b)

Copy(d) == \E n \in 1 .. Latest(d) : Grow(d, "copy", n, n, history[d][n].body)

\* A rollback does not rewrite history: it follows the latest version.
RollBack(d) ==
  \E n \in 1 .. Latest(d) : Grow(d, "rollback", Latest(d), n, history[d][n].body)

Next == \/ \E d \in Plans \cup Catalogs : Create(d)
        \/ \E d \in Catalogs : Publish(d)
        \/ \E d \in Plans : Write(d) \/ Copy(d) \/ RollBack(d)

Spec == Init /\ [][Next]_history
=============================================================================
