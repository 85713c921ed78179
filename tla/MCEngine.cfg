SPECIFICATION Spec
CHECK_DEADLOCK FALSE
CONSTANTS
  n1 = n1
  n2 = n2
  Nodes = {n1, n2}
  NumTasks = 2
  Lambdas <- MCLambdas
  Staleness = 0
INVARIANTS
  TasksSound
  EarlierTasksVisible
  StopLosesNothing
PROPERTY
  EveryNodeStops
