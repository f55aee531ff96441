SPECIFICATION Spec
CONSTANTS
  Order <- MCOrder
  Values <- MCValues
INVARIANTS
  TypeOK
  AppliedWhenSettled
  SavedWhenSettled
PROPERTIES
  ChangesTakeEffect
