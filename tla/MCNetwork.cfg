SPECIFICATION NetSpec
CONSTANTS
    me = me
    bob = bob
    chan = chan
    t1 = t1
    None = None
    Nicks <- TwoNicks
    Channels <- OneChannel
    Topics <- Nothing
    Texts <- OneText
    ServerMsgs <- NetMessages
    ClientMsgs <- AllCommands
    Others <- Bob
    OtherEvents <- AllEvents
    Hurried <- AllHurries
    WriteErrors = TRUE
    StoreMayFail = FALSE
    Faults <- ClientDrops
    MaxLog = 1
    MaxInbox = 1
PROPERTY NeverLoggedOut
