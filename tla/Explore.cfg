CONSTANTS
  Narrowing = 2
  MaxReorderLeaves = 4
  Calls <- AllCalls
SPECIFICATION Spec
CHECK_DEADLOCK FALSE
INVARIANTS
  TypeOK
  ExploredMemo
  ConjunctsAppliedOnce
  AssociationsAgree
  WrittenTreeOffered
  SharedIfSame
  CountersAgree
  RowsAgree
