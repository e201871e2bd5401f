SPECIFICATION MCSpec
CONSTANTS
  ken = ken
  jaqui = jaqui
  first = first
  second = second
  free = free
  secret = secret
  Buckets = {ken, jaqui}
  Addresses = {first, second, free}
  Passwords = {secret}
  Nobody = Nobody
  Unset = Unset
  Commands = {c1}
  MaxChanges = 3
  Tabs = {t1, t2}
  Peer = Peer
  Typed = {secret, typo}
  MaxFailures = 2
INVARIANTS
  Addressable
  FailuresBounded
  SessionsEarned
  SignedOutStays
PROPERTIES
  BlockEnds
  BlockFades
