CONSTANTS
    Clock = 1600000000
    Misread = 0
    FirstDays = {10926, 11292}
    Window = 101
    MaxTokens = 8
SPECIFICATION Spec
INVARIANTS DatesAgree UserIdRead
CHECK_DEADLOCK FALSE
