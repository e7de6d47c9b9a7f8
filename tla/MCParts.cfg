SPECIFICATION PartsSpec
CONSTANTS
    Chosen = {"reader", "keepalive", "stores", "codec", "validate", "names", "limit", "pingpong"}
    Messages = {m1}
    Bad = Bad
    MaxConns = 2
    MaxSent = 2
    T = 6
    Delay = 3
    Stall = 2
    MaxUnread = 2
    Keys = {k1, k2}
    Entries = {m1, bad}
    Unparsable = {bad}
    Nil = Nil
    MaxId = 3
    Unset = Unset
    MaxArrays = 4
    MaxLen = 4
    MaxLine = 6
    MaxMessageLen = 7
    FromServer <- MCFromServer
    FromClient <- MCFromClient
    MaxText = 6
    MaxMask = 3
    Ordinary = {"a"}
    MaxQuota = 2
    MaxMessages = 6
    MaxTicks = 3
CHECK_DEADLOCK FALSE
INVARIANT TypeOK
INVARIANT OneConnection
INVARIANT AnswererKept
INVARIANT SilenceEnds
INVARIANT ParsedFaithfully
INVARIANT WrittenLength
INVARIANT ParamsSuffice
INVARIANT ParsedIDFaithful
INVARIANT RegexpIsMask
INVARIANT RateBounded
INVARIANT ClosedWhenCopied
INVARIANT TimerRuns
INVARIANT PongPreventsTimeout
PROPERTY ImplementsLink
PROPERTY NoGoroutineLeaks
PROPERTY LeavingIsNoticed
PROPERTY ImplementsStore
PROPERTY MemoryImplementsStore
PROPERTY ClosesInTheEnd
PROPERTY CancelEndsBoth
