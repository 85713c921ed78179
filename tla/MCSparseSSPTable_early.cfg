SPECIFICATION Spec
CONSTANTS
  w1 = w1
  w2 = w2
  w3 = w3
  s1 = s1
  s2 = s2
  Workers = {w1, w2, w3}
  Servers = {s1, s2}
  Keys = {1, 2, 3}
  num_versions = 7
  Tasks <- EarlyTasks
  RecorderTypes = {"Map", "Vector"}
INVARIANTS
  AnswersFresh
