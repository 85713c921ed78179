SPECIFICATION Spec
CONSTANTS
  w1 = w1
  w2 = w2
  s1 = s1
  s2 = s2
  k1 = k1
  k2 = k2
  Workers = {w1, w2}
  Servers = {s1, s2}
  Keys = {k1, k2}
  Owner <- MCOwner
  GetKeys <- MCGetKeys
  AddKeys <- MCAddKeys
  MaxClock = 2
  Staleness = 1
SYMMETRY MCSymmetry
INVARIANTS
  TypeOK
  MinClockExact
  ChannelsTellTime
  AnswersFreshEnough
  AnswersHoldOwnAdds
  NoStrandedGet
  SlicesComplete
PROPERTY
  KeepsPromise
