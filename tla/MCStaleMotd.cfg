SPECIFICATION NetSpec
CONSTANTS
    me = me
    bob = bob
    chan = chan
    t1 = t1
    None = None
    Nicks <- TwoNicks
    Channels <- OneChannel
    Topics <- Nothing
    Texts <- Nothing
    ServerMsgs <- NetMessages
    ClientMsgs <- LoginOnly
    Others <- Bob
    OtherEvents <- Nothing
    Hurried <- AllHurries
    WriteErrors = TRUE
    StoreMayFail = FALSE
    Faults <- ClientDrops
    MaxLog = 1
    MaxInbox = 1
INVARIANT DoneMeansWelcomed
