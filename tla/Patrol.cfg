SPECIFICATION Spec
CONSTANTS
  MaxTasks = 2
  OperatorStatuses = {"pulled", "running", "cancelled"}
INVARIANT TypeOK
INVARIANT CancelledNeverRuns
INVARIANT TimesTell
PROPERTY FinalStays
PROPERTY Dispatch
