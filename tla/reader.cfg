CONSTANTS
  both = both
  only = only
  all = all
  few = few
  None = None
  Segments = {"work", "INBOX", "old"}
  Folders <- MCFolders
  Placed <- MCPlaced
  Searches = {all, few}
  Hits <- MCHits
  Html = {both, only}
  HtmlOnly = {only}
  Tracking = {both, only}
  MaxMarks = 1
SPECIFICATION MCSpec
INVARIANTS TypeOK NothingConcealed ReaderShows GreyHonest
