SPECIFICATION Spec
CONSTANTS
  NULL = NULL
  Targets = {0, 5, 10, 12, 13, 16}
  MaxKills = 1
INVARIANTS TypeOK HeadIsDeclared 
PROPERTIES  UpgradeReachesHead
