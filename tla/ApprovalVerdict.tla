--------------------------- MODULE ApprovalVerdict ---------------------------
(***************************************************************************)
(* What a quotation, a sales order or an estimate relies on when it asks   *)
(* for approval: a request is open until it is decided, once, or withdrawn,*)
(* and nothing undoes either.  ApprovalEngine implements this, and those   *)
(* who ask make no other use of a request than this allows.                *)
(***************************************************************************)
CONSTANTS Request, Verdict

VARIABLE outcome  \* "NONE" until somebody asks

Init == outcome = [a \in Request |-> "NONE"]

Ask(a) ==
    /\ outcome[a] = "NONE"
    /\ outcome' = [outcome EXCEPT ![a] = "OPEN"]

Decide(a, verdict) ==
    /\ outcome[a] = "OPEN"
    /\ outcome' = [outcome EXCEPT ![a] = verdict]

Withdraw(a) ==
    /\ outcome[a] = "OPEN"
    /\ outcome' = [outcome EXCEPT ![a] = "CANCELLED"]

Next ==
    \E a \in Request :
        \/ Ask(a)
        \/ \E verdict \in Verdict : Decide(a, verdict)
        \/ Withdraw(a)

Spec == Init /\ [][Next]_outcome

=============================================================================
