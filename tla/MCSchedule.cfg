SPECIFICATION ScheduleFairSpec
CONSTANTS
    P1 = P1
    M1 = M1
    Unset = Unset
    PlaylistJobs = {P1}
    MaintenanceJobs = {M1}
    DownloadJobs = {P1}
    Crons <- TwoCrons
    Default <- Often
    Phases <- BothSides
    Grace = 1
    Day = 4
    Windows <- OverMidnight
    MaxTime = 3
    MaxEdits = 1
    MaxRestarts = 1
CHECK_DEADLOCK FALSE
INVARIANTS
  DueTimesAreServed
PROPERTIES
  WindowIsRespected
  Converges
