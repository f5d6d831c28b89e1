SPECIFICATION ConsoleFairSpec
CONSTANTS
    Typed = {"letter", "digit", "lshift", "rshift", "caps", "escape"}
    Sent = {"x", "tab", "backspace", "enter", "escape"}
    EventBound = 4
CHECK_DEADLOCK FALSE
INVARIANTS
    LineIsEdited
    ShiftNotStuck
PROPERTY SerialEscapeCancels
