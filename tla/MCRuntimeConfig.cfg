CONSTANTS
    Threads = {t1, t2}
    Readers = {r1}
    Patches <- MCPatches
    Edits <- MCEdits
    MaxRevisions = 2
    MaxValidated = 3
    MaxFaults = 2
    MaxEdits = 1
SPECIFICATION RuntimeSpec
SYMMETRY MCSymmetry
PROPERTY AppliedIsServed
PROPERTY RecoveryTellsTruth
CHECK_DEADLOCK FALSE
