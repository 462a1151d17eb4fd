SPECIFICATION Spec
CONSTANTS
  asha = asha
  ravi = ravi
  Editors <- MCEditors
  Forms <- MCForms
  Overwriting = {"employee", "customer", "pricing"}
  Dropping <- MCDropping
  MaxVersion = 3
SYMMETRY Interchangeable
INVARIANT TypeOK
PROPERTY NoSilentOverwrite
PROPERTY UnsavedTextKept
