SPECIFICATION Spec
CONSTANTS
  Contents = {a, b}
  Empty = Empty
  Scraps = {}
  Undeliverable = {b}
  ByIdentity = FALSE
  Filed = {}
  Twins = {}
  Passes = {p1}
  BatchSize = 2
  MaxSourceUid = 2
  MaxValidity = 1
  MaxFaults = 1
  Faults = {"short"}
INVARIANTS
  GapsRecorded
SYMMETRY Symmetry
