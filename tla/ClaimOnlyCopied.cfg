SPECIFICATION Spec
CONSTANTS
    Copyable = {a, b}
    Ignored = {}
    Asked = {a}
    Garbage = garbage
    NoText = none
    Self = self
    Dangling = dangling
    KeepSizes = {2}
    MaxReplies = 1
    MaxDialogs = 1
INVARIANT OnlyCopied
CHECK_DEADLOCK FALSE
