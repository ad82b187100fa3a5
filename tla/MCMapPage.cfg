SPECIFICATION Spec
CONSTANTS
  None = None
  Absent = Absent
  Malformed = Malformed
  c1 = c1
  c2 = c2
  c3 = c3
  side = side
  m1 = m1
  m2 = m2
  r1 = r1
  mapFile = mapFile
  nodes = nodes
  n1 = n1
  n2 = n2
  x = x
  y = y
  Commits = {c1, c2, c3, side}
  Contents = {m1, m2, r1}
  Artifacts = {mapFile, nodes}
  MapRole = mapFile
  NodesRole = nodes
  MaxChanges = 2
  Tree <- MCTree
  Ancestors <- MCAncestors
  Size <- MCSize
  Lines <- MCLines
  Registry <- MCRegistry
  LinkFiles <- MCLinkFiles
INVARIANTS TypeOK FreshIsCanonical LinksNameTheirNode NoFalseAlarm
