SPECIFICATION FairSpec
CONSTANTS
  Rounds = 2
  ForeignSets <- MCForeignSets
CHECK_DEADLOCK FALSE
INVARIANTS
  TypeOK
  Connected
  Fresh
  LoadedFirst
PROPERTIES
  EveryoneReady
