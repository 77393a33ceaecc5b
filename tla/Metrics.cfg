SPECIFICATION Spec
CONSTANTS
    None = None
    Interval = 60
    Skew = 1
    SnapshotWindow = 2
    LatestWindow = 4
    LiveWindow = 2
    Servers = {"lin", "win"}
    Machine <- MCMachine
    Works <- MCWorks
    FirstWork <- Quiet
    Inventoried = {"lin"}
    Boot <- MCBoot
    Base <- MCBase
    StartTime = 10
    MaxTicks = 3
    MaxFaults = 1
    TimeRange = 3
    Width = 2
INVARIANTS
    SharesAddUp
    ChartsInventNoLoad
    ChartsShowWhatHappened
    FleetMatchesServers
    SnapshotMatchesCharts
    ErrorsAgree
    PagesStopOnlyAtAGap
CHECK_DEADLOCK FALSE
