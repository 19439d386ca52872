CONSTANTS
    a = a
    b = b
    k1 = k1
    k2 = k2
    Ends = {a, b}
    Calls = {k1, k2}
    Caller <- MCCaller
    FrameSize <- MCFrameSize
    Packet = 2
    Window = 2
    Answers <- MCAnswers
    Closers = {a}
    MaxFaults = 1
SPECIFICATION Spec
INVARIANT CreditKept
INVARIANT AnswersBelong
INVARIANT NothingLeaks
PROPERTY ChannelsAreStreams
INVARIANT CallsSettle
CHECK_DEADLOCK FALSE
