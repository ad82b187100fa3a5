SPECIFICATION Spec
CONSTANTS
  None = None
  Absent = Absent
  Unreadable = Unreadable
  Junk = Junk
  h1 = h1
  h2 = h2
  Kinds = {"bureau", "checkouts", "storage", "axis", "repo", "map", "head"}
  Limit <- MCLimit
  Settings <- MCSettings
  Second = 1
  Promises = {1, 3}
  Commits = {h1, h2}
  MaxTime = 3
  Faults = {"kind", "record", "empty", "unavailable"}
  MaxChanges = 1
INVARIANTS TypeOK ShownWasSo ReceiptWasSo 
