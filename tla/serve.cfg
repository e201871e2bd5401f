SPECIFICATION MCSpec
CONSTANTS
  gone = gone
  well = well
  inbox = inbox
  sent = sent
  odd = odd
  Accounts <- MCAccounts
  FoldersOf <- MCFoldersOf
  Inbox = inbox
  FullEvery = 3
  MaxAttempts = 3
  Dead = {gone}
  Broken <- MCBroken
  Silent = {"tcp", "tls", "login"}
  MaxFaults = 2
  MaxRenewals = 2
  MaxRestarts = 1
INVARIANTS
  StampHonest
PROPERTIES
  SweepEnds
  EveryFolderSwept
  RenewalNoticed
