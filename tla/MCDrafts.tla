------------------------------ MODULE MCDrafts ------------------------------
EXTENDS Drafts, TLC

CONSTANTS asha, ravi
MCEditors == {asha, ravi}
Interchangeable == Permutations(MCEditors)

ResourceForm == [refills |-> "never", mounts |-> "once", marks |-> TRUE,
                 sends |-> "filled", closes |-> TRUE]
EmployeeForm == [ResourceForm EXCEPT !.sends = "shown"]
UnversionedForm == [ResourceForm EXCEPT !.sends = "none"]
OrderAndHandoffDraft == [ResourceForm EXCEPT !.refills = "always", !.closes = FALSE]
PricingPanel == [UnversionedForm EXCEPT !.mounts = "per version", !.closes = FALSE]
QuotationBuilder == [refills |-> "when clean", mounts |-> "per revision", marks |-> FALSE,
                     sends |-> "filled", closes |-> FALSE]

MCForms ==
    "quotation" :> QuotationBuilder @@ "order or handoff" :> OrderAndHandoffDraft @@
    "pricing" :> PricingPanel @@ "register" :> ResourceForm @@
    "employee" :> EmployeeForm @@ "customer" :> UnversionedForm

MCDropping ==
    {"order or handoff", "pricing"} \X Loss
    \cup {"quotation"} \X {"another revision", "unmarked"}
=============================================================================
