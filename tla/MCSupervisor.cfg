SPECIFICATION FairSpec
CONSTANTS
  AlertAfter = 2
  MaxTroubles = 2
  MaxCommands = 2
INVARIANTS TypeOK ScriptWorksAlone
PROPERTIES ClosedIsRestored Settles TroubleIsAlerted
CHECK_DEADLOCK FALSE
