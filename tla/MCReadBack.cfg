SPECIFICATION PartsSpec
CONSTANTS
    Chosen = {"codec"}
    Messages = {m1}
    Bad = Bad
    MaxConns = 2
    MaxSent = 2
    T = 6
    Delay = 3
    Stall = 2
    MaxUnread = 2
    Keys = {k1, k2}
    Entries = {m1, bad}
    Unparsable = {bad}
    Nil = Nil
    MaxId = 3
    Unset = Unset
    MaxArrays = 4
    MaxLen = 4
    MaxLine = 6
    MaxMessageLen = 7
    FromServer <- MCFromServer
    FromClient <- MCFromClient
    MaxText = 6
    MaxMask = 3
    Ordinary = {"a"}
    MaxQuota = 2
    MaxMessages = 6
    MaxTicks = 3
CHECK_DEADLOCK FALSE
INVARIANT ReadBackSame
