SPECIFICATION FairSpec
CONSTANTS
  Contents = {a, b}
  Empty = Empty
  Scraps = {scrap}
  Undeliverable = {b}
  ByIdentity = TRUE
  Filed = {a}
  Twins = {a, b, scrap}
  Passes = {p1}
  BatchSize = 2
  MaxSourceUid = 3
  MaxValidity = 1
  MaxFaults = 1
  Faults = {"retry", "abandon", "short", "omit"}
PROPERTIES
  EventuallyArchived
