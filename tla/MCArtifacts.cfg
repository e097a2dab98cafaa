SPECIFICATION FairSpec
CONSTANTS
  Processes = {p1, p2}
  Curls = {c1, c2}
  Inodes = {i1, i2, i3}
  Size = 2
  MaxAged = 1
  None = None
INVARIANTS TypeOK StampIsTrue PublishedIsGood PartialIsPrefix
PROPERTY Published
