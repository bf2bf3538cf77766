\* Collections edited over and over; queries fail but do not break off.
SPECIFICATION FairSpec
CONSTANTS
    Names = {c1, c2}
    Metrics = {m1, m2}
    Labels = {l1, l2}
    Helps = {h}
    m1 = m1
    m2 = m2
    l1 = l1
    l2 = l2
    h = h
    Absent = Absent
    NoRow = NoRow
    NoJob = NoJob
    Configs <- MCConfigs
    Faults = {"error"}
    MaxUpdates = 3
INVARIANTS
    ScheduledIsCurrent
    SeriesMatchCollectors
PROPERTIES
    UnchangedKeepsRunning
    FollowsStore
    Converges
