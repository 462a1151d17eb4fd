SPECIFICATION Spec
CONSTANT Account = {"asha", "ravi"}
INVARIANT AnOwnerRemains
