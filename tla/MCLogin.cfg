SPECIFICATION NetFairSpec
CONSTANTS
    me = me
    bob = bob
    chan = chan
    t1 = t1
    None = None
    Nicks <- TwoNicks
    Channels <- OneChannel
    Topics <- Nothing
    Texts <- Nothing
    ServerMsgs <- NetMessages
    ClientMsgs <- TwoLogins
    Others <- Bob
    OtherEvents <- NotKicked
    Hurried <- Reconnects
    WriteErrors = TRUE
    StoreMayFail = FALSE
    Faults <- ClientDrops
    MaxLog = 1
    MaxInbox = 1
INVARIANT ServerViewExact
INVARIANT RegisteredMeansDone
PROPERTY LoginCompletes
PROPERTY HandlersReturn
