SPECIFICATION FairSpec
CONSTANTS
  Thread <- MCThread
  NoThread = NoThread
  Budgets <- MCBudgets
INVARIANTS
  ProcessTypeOK
  CallbacksAreSafe
  OnlyHandlersDeadlock
PROPERTIES
  TermEnds
CHECK_DEADLOCK FALSE
