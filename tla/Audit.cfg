SPECIFICATION FairSpec
CONSTANTS
    b1 = b1
    b2 = b2
    r1 = r1
    r2 = r2
    p1 = p1
    None = None
    Bypasses = {b1, b2}
    Edits = {}
    Passes = {r1, r2}
    Boards = {r1}
    Covering = {r2}
    MaxAttempts = 1
    MaxFaults = 2
    Shell <- OneShell
CONSTRAINT
    OneAtATime
INVARIANTS
    RetainedRecorded
    ImportedOnce
    CleanPassRecordsAll
PROPERTIES
    MarkersDrain
