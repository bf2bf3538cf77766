\* One refresh at a time, and scanners that open their file before they may be
\* stopped.
SPECIFICATION FairSpec
CONSTANTS
    Names = {s1, s2}
    Patterns = {p, bad}
    BadPatterns = {bad}
    Lists = {{}, {p}, {p, bad}}
    NoRow = NoRow
    None = None
    Threads = {t1}
    Scanners = {i1, i2, i3}
    PromptStart = TRUE
    Faults = {"error", "names"}
    MaxUpdates = 2
INVARIANTS ScannersOnRecord ScheduledIsCurrent
PROPERTIES FollowsStore Converges
