SPECIFICATION ConsoleFairSpec
CONSTANTS
    Typed = {"escape"}
    Sent = {"enter"}
    EventBound = 2
CHECK_DEADLOCK FALSE
PROPERTY KeyEscapeCancels
