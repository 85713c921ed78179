SPECIFICATION PartSpec
CONSTANTS
  Nodes = {1, 2}
  Tables = {1, 2}
  MaxIds = 4
  Programs <- MCPrograms
INVARIANTS
  NodesAgree
  ValuesInPlace
  ReadsBack
  LearningRight
