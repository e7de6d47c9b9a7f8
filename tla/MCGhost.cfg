SPECIFICATION NetSpec
CONSTANTS
    me = me
    bob = bob
    chan = chan
    t1 = t1
    None = None
    Nicks <- TwoNicks
    Channels <- OneChannel
    Topics <- Nothing
    Texts <- Nothing
    ServerMsgs <- NetMessages
    ClientMsgs <- LoginAndJoin
    Others <- Bob
    OtherEvents <- Comings
    Hurried <- Nothing
    WriteErrors = TRUE
    StoreMayFail = FALSE
    Faults <- ClientDrops
    MaxLog = 1
    MaxInbox = 1
INVARIANT NoGhosts
