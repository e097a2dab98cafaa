SPECIFICATION FairSpec
CONSTANTS
  Launcher = {l1, l2}
  Planner = {p1}
INVARIANT ComposeIsLocked
PROPERTY QuickPublicationEnds
