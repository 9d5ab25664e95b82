SPECIFICATION BackupsSpec
CONSTANTS
    s1 = s1
    s2 = s2
    MaxRuns = 3
    MaxDay = 4
    MaxDrills = 1
    MonthDays = 2
    RetentionDays = 1
    MonthlyKeep = 1
    Sweepers <- MCSweepers
SYMMETRY MCSymmetry
INVARIANTS BackupsTypeOK HistoryKept
PROPERTIES RecentKept
CHECK_DEADLOCK FALSE
