CONSTANTS
  Configurations <- MCConfigurations
  FixLimit = 1
SPECIFICATION SpecFixes
CHECK_DEADLOCK FALSE
INVARIANT InterfacesAreJudgedByTheirFeatures
