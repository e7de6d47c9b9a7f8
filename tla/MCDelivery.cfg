SPECIFICATION MCSpec
CONSTANTS
    me = me
    bob = bob
    chan = chan
    topic = topic
    t1 = t1
    t2 = t2
    Scopes = {"texts", "links"}
    None = None
    Nicks <- MCNicks
    Channels <- MCChannels
    Topics <- MCTopics
    Texts <- TwoTexts
    ClientMsgs <- AllFromClient
    ServerMsgs <- AllFromServer
    WriteErrors = TRUE
    StoreMayFail = TRUE
    Faults <- AllFaults
    MaxLog = 2
SYMMETRY Symmetry
INVARIANT TypeOK
INVARIANT NoMessageLost
INVARIANT NoDuplicates
INVARIANT ServerOutlivesClient
INVARIANT HandshakeAgreement
INVARIANT PingedBeforeDrop
PROPERTY UsesStore
PROPERTY StaysLoggedIn
