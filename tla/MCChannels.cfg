SPECIFICATION MCSpec
CONSTANTS
    me = me
    bob = bob
    chan = chan
    topic = topic
    t1 = t1
    t2 = t2
    Scopes = {"texts", "channels"}
    None = None
    Nicks <- MCNicks
    Channels <- MCChannels
    Topics <- MCTopics
    Texts <- OneText
    ClientMsgs <- AllFromClient
    ServerMsgs <- AllFromServer
    WriteErrors = FALSE
    StoreMayFail = FALSE
    Faults <- ClientDrops
    MaxLog = 1
INVARIANT PreLogCoversClient
INVARIANT TextsAccounted
