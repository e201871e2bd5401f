SPECIFICATION Spec
CONSTANTS
  f1 = f1
  f2 = f2
  a = a
  Folders <- MCFolders
  Contents <- MCContents
  Empty = Empty
  SourceUids <- MCSourceUids
  NoSource = NoSource
  Tasks = {t1, t2}
  Repairer = Repairer
  MaxUid = 2
  Legacy <- MCLegacy
  LegacyNext <- MCLegacyNext
INVARIANTS
  GaplessUids
  NothingDangles
  NoLockCycle
PROPERTIES
  SourceUidKept
  ImplementsUidLog
SYMMETRY Symmetry
