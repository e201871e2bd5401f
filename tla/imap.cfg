SPECIFICATION Spec
CONSTANTS
  a = a
  b = b
  x = x
  y = y
  dot = dot
  slash = slash
  ann = ann
  bob = bob
  Empty = Empty
  Unknown = Unknown
  Chars = {"p", "q", "r", "w", ".", "/"}
  OURS = "/"
  NoUser = NoUser
  NoFolder = NoFolder
  Inbox = Inbox
  Folders = {x, y}
  Contents = {a, b}
  Users = {ann, bob}
  Accounts = {dot, slash}
  UserOf <- MCUserOf
  Label <- MCLabel
  AccountOf <- MCAccountOf
  Source <- MCSource
  Delimiters <- MCDelimiters
  NoSuchName <- MCNoSuchName
  Legacy <- MCLegacy
  Asked <- MCAsked
  Backwards = TRUE
  MaxUid = 2
SYMMETRY MCSymmetry
INVARIANTS
  SelectionAgrees
  ExistsCovers
  SequenceHolds
  NoHoles
  NothingMissed
  NeverWrong
  ListedOpens
