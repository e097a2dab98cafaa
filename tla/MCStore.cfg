SPECIFICATION StoreSpec
CONSTANTS
  Proc = {p1, p2}
  MaxTx = 2
  Fetches = 1
  Begun <- Operation
SYMMETRY Symmetry
INVARIANTS TypeOK StoreInv WorkIsAuthorized CaptureIsQuiescent JournalFollowsPlan
PROPERTIES TerminalIsFinal LedgerSpec
