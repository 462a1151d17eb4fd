-------------------------------- MODULE Owners --------------------------------
(* Who holds the Owner permission of a company, and the requests by which     *)
(* administrators take it away: an account or an employee is disabled, the    *)
(* assignment of the Owner role is withdrawn, the role itself is changed, or  *)
(* a direct Deny override is added (backend/apps/rbac, accounts and           *)
(* organization).  Each runs in one transaction that locks only the row it    *)
(* changes; the other owners are read without a lock, so requests about       *)
(* different rows overlap.                                                    *)
EXTENDS FiniteSets

CONSTANT Account    \* the accounts that have an employee of the company

VARIABLES
    access,     \* what decides who is an owner, as committed
    request     \* account -> the checked, not yet committed change it asks for

vars == <<access, request>>

-------------------------------------------------------------------------------
\* enabled: User.is_active; assigned: the users with an active assignment of
\* the Owner role; granting: is the role active, with the permission?  denied:
\* the users with an active Deny override.
OwnersOf(a) == IF a.granting THEN (a.enabled \cap a.assigned) \ a.denied ELSE {}

\* The changes that may take the permission away, and the row each locks.
Kinds == {"disable login", "disable employee", "withdraw role", "change role",
          "edit override", "create override"}
Change == [kind : Kinds, target : Account]
Row(c) == IF c.kind = "change role" THEN <<c.kind>> ELSE <<c.kind, c.target>>
None == [kind |-> "none"]

After(a, c) ==
    CASE c.kind \in {"disable login", "disable employee"} ->
             [a EXCEPT !.enabled = @ \ {c.target}]
      [] c.kind = "withdraw role" -> [a EXCEPT !.assigned = @ \ {c.target}]
      [] c.kind = "change role" -> [a EXCEPT !.granting = FALSE]
      [] c.kind \in {"edit override", "create override"} ->
             [a EXCEPT !.denied = @ \cup {c.target}]

\* What each request makes sure of before it commits.  Disabling is refused
\* for oneself and for the final owner; the other updates look again once they
\* have saved; creating an override looks at nothing.
EnsuresContinuity(by, c) ==
    LET owners == OwnersOf(access) IN
    CASE c.kind \in {"disable login", "disable employee"} ->
             c.target # by /\ owners # {c.target}
      [] c.kind \in {"withdraw role", "change role", "edit override"} ->
             owners # {} => OwnersOf(After(access, c)) # {}
      [] c.kind = "create override" -> TRUE

-------------------------------------------------------------------------------
Init ==
    /\ access \in [enabled : {Account}, assigned : SUBSET Account \ {{}},
                   granting : {TRUE}, denied : {{}}]
    /\ request = [u \in Account |-> None]

\* A request of somebody who may manage access is checked, its row locked.
Check(by, c) ==
    /\ by \in OwnersOf(access)
    /\ request[by] = None
    /\ \A u \in Account : request[u] # None => Row(request[u]) # Row(c)
    /\ EnsuresContinuity(by, c)
    /\ request' = [request EXCEPT ![by] = c]
    /\ UNCHANGED access

\* It is saved and committed, whatever was committed since it was checked.
Commit(by) ==
    /\ request[by] # None
    /\ access' = After(access, request[by])
    /\ request' = [request EXCEPT ![by] = None]

\* Access comes back: an account enabled, the role assigned or an override
\* withdrawn.  Only an owner may grant what makes an owner.
Restore(by, u) ==
    /\ by \in OwnersOf(access)
    /\ \/ access' = [access EXCEPT !.enabled = @ \cup {u}]
       \/ access' = [access EXCEPT !.assigned = @ \cup {u}]
       \/ access' = [access EXCEPT !.denied = @ \ {u}]
    /\ UNCHANGED request

Next ==
    \E by \in Account :
        \/ \E c \in Change : Check(by, c)
        \/ Commit(by)
        \/ \E u \in Account : Restore(by, u)

Spec == Init /\ [][Next]_vars

-------------------------------------------------------------------------------
\* "The final active business Owner cannot be disabled or stripped through
\* normal role, assignment, override, user, or employee lifecycle APIs": a
\* company that has an owner keeps one.
AnOwnerRemains == OwnersOf(access) # {}
===============================================================================
