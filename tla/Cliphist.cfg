SPECIFICATION Spec
CONSTANTS
    Copyable = {a, b, x}
    Ignored = {x}
    Asked = {b}
    Garbage = garbage
    NoText = none
    Self = self
    Dangling = dangling
    KeepSizes = {1, 2}
    MaxReplies = 1
    MaxDialogs = 1
INVARIANTS
    TypeOK
    CountersAgree
    RoomForNew
    OfferedIsNewest
PROPERTIES
    LockedStay
    Restored
\* The user may leave the program for good.
CHECK_DEADLOCK FALSE
