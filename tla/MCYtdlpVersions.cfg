SPECIFICATION YtdlpSpec
CONSTANTS
    v1 = v1
    v2 = v2
    v3 = v3
    NoVersion = NoVersion
    Versions <- MCVersions
    Keep = 1
    MaxCommands = 4
    MaxCrashes = 1
    MaxDecays = 1
CHECK_DEADLOCK FALSE
INVARIANTS
  ActiveIsCurrent
PROPERTIES
  PriorSurvivesPrune
  UpdateEnds
