SPECIFICATION BarriersSpec
CONSTANTS
  n1 = n1
  n2 = n2
  n3 = n3
  Nodes = {n1, n2, n3}
  MaxBarriers = 3
  MaxData = 1
SYMMETRY MCSymmetry
INVARIANTS
  BarriersSound
  StopLosesNothing
PROPERTY
  IsBarrier
