\* One page of a job whose connection fails, with a back-off below the interval of polls.
CONSTANTS
    MaxEvents = 1
    WindowKept = 1
    MinBackoff = 1
    MaxBackoff = 2
    PollEvery = 2
    PollSlots = {"p1"}
    MaxItems = 1
    NoCursor = NoCursor
SPECIFICATION StreamLiveSpec
PROPERTIES
    FallsBackToPolling
CHECK_DEADLOCK FALSE
