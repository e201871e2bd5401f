SPECIFICATION Spec
CONSTANTS
  a = a
  b = b
  c = c
  inbox = inbox
  sent = sent
  Empty = Empty
  Search = Search
  Folders = {inbox, sent}
  Excluded = {}
  Contents <- MCContents
  Date <- MCDate
  Initial <- MCInitial
  Found = {a, b}
  Limit = 1
  MaxUid = 3
  MaxRequests = 4
INVARIANTS
  TypeOK
  NothingTwice
  NewestFirst
  ReachesAll
  MoreComes
