SPECIFICATION Spec
CONSTANTS
  a = a
  b = b
  Contents <- MCContents
  Empty = Empty
  SourceUids = {s1}
  NoSource = NoSource
  Unknown = Unknown
  Legacy <- MCLegacy
  MaxVersions = 3
  MaxCrashes = 1
  SeenAtSource = {FALSE}
INVARIANTS
  ManifestsKept
  RebuildReproduces
  VerdictTrue
PROPERTIES
  ImplementsUidLog
