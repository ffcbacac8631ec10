SPECIFICATION Spec
CONSTRAINT FollowedOrArchived
CONSTANTS
    Widths = {3}
    MaxPrinted = 6
    Maximum = 4
    SegmentBytes = 2
    MaxRead = 2
    FirstOffsets = {2}
    Others = {o1}
INVARIANTS TextIsUnbroken TextIsWhole ReadsSucceed LossIsReported ArchiveIsASnapshot
CHECK_DEADLOCK FALSE
