SPECIFICATION Spec
CONSTANTS
  Contents = {a, b}
  Empty = Empty
  Scraps = {}
  Undeliverable = {}
  ByIdentity = FALSE
  Filed = {}
  Twins = {}
  Passes = {p1}
  BatchSize = 1
  MaxSourceUid = 2
  MaxValidity = 2
  MaxFaults = 0
  Faults = {}
INVARIANTS
  RescanSkipsNothing
SYMMETRY Symmetry
