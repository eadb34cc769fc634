CONSTANTS
  x = x
  y = y
  w = w
  c1 = c1
  RunId <- New
  MaxActive = 2
  MaxRetained = 2
  MaxRecords = 2
  MaxEvents = 1
  Workers = 1
  Client = {c1}
  MaxSeq = 4
  MaxFaults = 1
  Narrow = TRUE
SPECIFICATION Spec
SYMMETRY Symmetry
INVARIANTS
  TypeOK
  
  EveryRunHasAnEnd
  ReadersAreServed
