\* Three starts within the limit, the timeouts and resets of the code, four
\* faults or commands in any order.
SPECIFICATION FrameSpec
CONSTANTS
    Page <- MCPage
    Frame <- MCFrame
    BigSlots <- MCBigSlots
    SmallSlots <- MCSmallSlots
    MaxTimeouts = 5
    HwResets = 2
    Burst = 3
    MaxFaults = 4
INVARIANT FramesWhole
PROPERTY MuxRecovers
CHECK_DEADLOCK FALSE
