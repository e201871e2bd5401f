SPECIFICATION Spec
CONSTANTS
  Contents = {a, b}
  Empty = Empty
  Scraps = {}
  Undeliverable = {}
  ByIdentity = TRUE
  Filed = {a, b}
  Twins = {}
  Passes = {p1, p2}
  BatchSize = 1
  MaxSourceUid = 2
  MaxValidity = 2
  MaxFaults = 1
  Faults = {"retry", "abandon", "short", "omit"}
INVARIANTS
  TypeOK
  IndexBacked
  NeverSkipped
PROPERTIES
  WatermarkForward
SYMMETRY SameForAll
CONSTRAINT FewAtOnce
