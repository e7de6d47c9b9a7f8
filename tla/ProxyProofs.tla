---------------------------- MODULE ProxyProofs ----------------------------
(***************************************************************************)
(* Theorems about the proxy, for every set of nicks, channels and messages, *)
(* every choice of faults, and both kinds of writer.                       *)
(***************************************************************************)
EXTENDS Proxy, SequenceTheorems, TLAPS

-----------------------------------------------------------------------------
(* Messages and sessions                                                   *)

\* The parameters that the handlers read have the types they are used at.
LEMMA MessageFields ==
    ASSUME NEW m \in ServerMessages
    PROVE  /\ m.prefix \in Names
           /\ m.target \in Targets
           /\ m.cmd \in {"KICK", "PART", "JOIN", "RPL_TOPIC", "RPL_NAMEREPLY",
                         "RPL_ENDOFNAMES"} => m.target \in Channels
           /\ m.cmd = "RPL_NAMEREPLY" => m.arg \in Names
           /\ m.cmd = "RPL_TOPIC" => m.arg \in Topics \cup {None}
           /\ m.cmd = "NICK" => m.target \in Nicks
           /\ m.cmd = "RPL_WELCOME" => m.arg \in Names
           /\ m.cmd \in TextCmds => m.arg \in Texts
  BY DEF ServerMessages, TextCmds, BareCmds, NickErrors, MotdEnds, InfoCmds, Names, Targets

\* Session.UpdateFromServer's channel part returns channel states.
LEMMA ChannelsFromServerType ==
    ASSUME NEW chs \in [Channels -> ChannelState], NEW m \in ServerMessages
    PROVE  ChannelsFromServer(chs, m) \in [Channels -> ChannelState]
  <1>1. \A us \in SUBSET Names : UsersFromServer(us, m) \in SUBSET Names
    BY MessageFields DEF UsersFromServer, Names
  <1>2. \A ch \in ChannelState : Got(ch) \in ChannelState
    BY DEF Got, ChannelState, NewChannelState
  <1>3. \A ch \in ChannelState : ChannelFromServer(ch, m) \in ChannelState
    BY <1>1 DEF ChannelFromServer, ChannelState
  <1>4. CASE m.cmd \in {"KICK", "PART", "JOIN", "RPL_NAMEREPLY"}
    BY <1>2, <1>3, <1>4 DEF ChannelsFromServer
  <1>5. CASE m.cmd = "RPL_TOPIC"
    <2>1. \A ch \in ChannelState : [Got(ch) EXCEPT !.topic = m.arg] \in ChannelState
      BY <1>2, <1>5, MessageFields DEF ChannelState
    <2> QED BY <2>1, <1>5 DEF ChannelsFromServer
  <1>6. CASE m.cmd \in {"NICK", "QUIT"}
    BY <1>3, <1>6 DEF ChannelsFromServer
  <1>7. CASE m.cmd \notin {"KICK", "PART", "JOIN", "RPL_NAMEREPLY", "RPL_TOPIC", "NICK", "QUIT"}
    BY <1>7 DEF ChannelsFromServer
  <1> QED BY <1>4, <1>5, <1>6, <1>7

\* A fresh session is a session.
LEMMA NewSessionType == NewSession \in Session
  BY DEF NewSession, Session, NoChannel, ChannelState, Names

\* Messages of the client keep a session a session.
LEMMA UpdateFromClientType ==
    ASSUME NEW s \in Session, NEW m
    PROVE  UpdateFromClient(s, m) \in Session
  BY DEF UpdateFromClient, HandshakeFromClient, Session

\* Messages of the server keep a session a session.
LEMMA UpdateFromServerType ==
    ASSUME NEW s \in Session, NEW m \in ServerMessages
    PROVE  UpdateFromServer(s, m) \in Session
  <1> DEFINE h == HandshakeFromServer(s, m)
             k == [h EXCEPT !.channels = ChannelsFromServer(@, m)]
  <1>1. h \in Session
    BY DEF HandshakeFromServer, Session
  <1>2. k \in Session
    BY <1>1, ChannelsFromServerType DEF Session
  <1>3. AboutMe(k, m) \in Session
    <2> HIDE DEF k
    <2>1. NoChannel \in ChannelState
      BY DEF NoChannel, ChannelState
    <2>2. \A c : DeleteChannel(k, c) \in Session
      BY <1>2, <2>1 DEF DeleteChannel, Session
    <2>3. m.cmd = "NICK" => [k EXCEPT !.nick = m.target] \in Session
      BY <1>2, MessageFields DEF Session, Names
    <2> QED BY <1>2, <2>2, <2>3 DEF AboutMe
  <1> QED BY <1>3 DEF UpdateFromServer

-----------------------------------------------------------------------------
(* Connections and the Proxy struct                                        *)

\* The operations on one connection keep its type.
LEMMA ConnectionTypes ==
    /\ emptyConnection \in Connection
    /\ \A c \in Connection : /\ updateDeadlines(c) \in Connection
                             /\ setup(c) \in Connection
                             /\ shutdown(c) \in Connection
                             /\ WriteOk(c) \in BOOLEAN
  <1>1. emptyConnection \in Connection
    BY NewSessionType DEF emptyConnection, Connection
  <1>2. \A c \in Connection : updateDeadlines(c) \in Connection
    BY DEF updateDeadlines, Connection
  <1>3. \A c \in Connection : setup(c) \in Connection
    BY NewSessionType DEF setup, updateDeadlines, Connection
  <1>4. \A c \in Connection : shutdown(c) \in Connection
    BY <1>1 DEF shutdown
  <1>5. \A c \in Connection : WriteOk(c) \in BOOLEAN
    BY DEF WriteOk
  <1> QED BY <1>1, <1>2, <1>3, <1>4, <1>5

\* The methods of the Proxy struct keep its type.
LEMMA ProxyTypes ==
    ASSUME NEW q \in ProxyStruct
    PROVE  /\ dropClient(q) \in ProxyStruct
           /\ reset(q) \in ProxyStruct
           /\ \A m : sendServer(q, m) \in ProxyStruct
           /\ \A m : fromClient(q, m) \in ProxyStruct
           /\ \A m \in ServerMessages : sendClient(q, m) \in ProxyStruct
           /\ \A m \in ServerMessages : fromServer(q, m) \in ProxyStruct
  <1>1. dropClient(q) \in ProxyStruct
    BY ConnectionTypes DEF dropClient, ProxyStruct
  <1>2. reset(q) \in ProxyStruct
    BY ConnectionTypes DEF reset, ProxyStruct
  <1>3. \A m : sendServer(q, m) \in ProxyStruct
    BY <1>2, UpdateFromClientType DEF sendServer, ProxyStruct, Connection
  <1>4. \A m : fromClient(q, m) \in ProxyStruct
    BY UpdateFromClientType DEF fromClient, clientHeard, updateDeadlines, ProxyStruct, Connection
  <1>5. \A m \in ServerMessages : sendClient(q, m) \in ProxyStruct
    BY <1>1, UpdateFromServerType DEF sendClient, ProxyStruct, Connection
  <1>6. \A m \in ServerMessages : fromServer(q, m) \in ProxyStruct
    BY UpdateFromServerType DEF fromServer, serverHeard, updateDeadlines, ProxyStruct, Connection
  <1> QED BY <1>1, <1>2, <1>3, <1>4, <1>5, <1>6

\* So do checkTimeout's two uses.
LEMMA CheckTimeoutTypes ==
    ASSUME NEW q \in ProxyStruct
    PROVE  checkServer(checkClient(q)) \in ProxyStruct
  <1>1. Bare("PING") \in ServerMessages
    BY DEF Bare, Msg, ServerMessages, BareCmds
  <1>2. checkClient(q) \in ProxyStruct
    <2> DEFINE r == sendClient(q, Bare("PING"))
    <2>1. r \in ProxyStruct
      BY <1>1, ProxyTypes
    <2>2. WriteOk(q.client) \in BOOLEAN
      BY ConnectionTypes DEF ProxyStruct
    <2> HIDE DEF r
    <2>3. [r EXCEPT !.client.pingSent = TRUE, !.client.overdue = FALSE,
                    !.client.pinged = WriteOk(q.client)] \in ProxyStruct
      BY <2>1, <2>2 DEF ProxyStruct, Connection
    <2> QED BY <2>3, ProxyTypes DEF checkClient, r
  <1> SUFFICES ASSUME NEW k \in ProxyStruct PROVE checkServer(k) \in ProxyStruct
    BY <1>2
  <1> DEFINE r == sendServer(k, Bare("PING"))
  <1>3. r \in ProxyStruct
    BY ProxyTypes
  <1>4. WriteOk(k.server) \in BOOLEAN
    BY ConnectionTypes DEF ProxyStruct
  <1> HIDE DEF r
  <1>5. [r EXCEPT !.server.pingSent = TRUE, !.server.overdue = FALSE,
                  !.server.pinged = WriteOk(k.server)] \in ProxyStruct
    BY <1>3, <1>4 DEF ProxyStruct, Connection
  <1> QED BY <1>5, ProxyTypes DEF checkServer, r

-----------------------------------------------------------------------------
(* Type correctness                                                        *)

\* The struct that NewProxy returns, and the task of Run's select.
LEMMA InitialTypes == NewProxy \in ProxyStruct /\ Select \in Tasks
  BY ConnectionTypes, NewSessionType DEF NewProxy, ProxyStruct, Select, Tasks

\* Messages that the proxy makes up are messages a server could send.
LEMMA OwnMessages ==
    /\ Bare("PONG") \in ServerMessages
    /\ Bare("OTHER") \in ServerMessages
    /\ \A n \in Names, c \in Channels : Msg("JOIN", n, c, None) \in ServerMessages
    /\ \A c \in Channels : Msg("RPL_ENDOFNAMES", None, c, None) \in ServerMessages
  BY DEF Bare, Msg, ServerMessages, BareCmds

\* The texts a replay has sent are texts.
LEMMA ReplayedTexts ==
    ASSUME TypeOK
    PROVE  Replayed \subseteq Texts
  <1>1. \A m \in ServerMessages : TextOf(m) \subseteq Texts
    BY MessageFields DEF TextOf
  <1>2. task.at = "replay" => /\ task.name \in Targets
                              /\ logs[task.name] \in Seq(LoggedMessages)
    BY DEF TypeOK, Tasks
  <1>3. task.at = "replay" => \A i \in DOMAIN logs[task.name] :
                                 logs[task.name][i] \in ServerMessages
    BY <1>2, ElementOfSeq DEF LoggedMessages
  <1> QED BY <1>1, <1>3 DEF Replayed

\* The message under a replay's cursor is one that was logged.
LEMMA CurrentMessage ==
    ASSUME TypeOK, task.at = "replay", task.next <= Len(Log)
    PROVE  /\ Log \in Seq(LoggedMessages)
           /\ task.next \in 1..Len(Log)
           /\ Log[task.next] \in ServerMessages
           /\ Log[task.next].cmd \in LoggedCmds
  <1>1. task.name \in Targets /\ task.next \in Nat \ {0}
    BY DEF TypeOK, Tasks
  <1>2. Log \in Seq(LoggedMessages)
    BY <1>1 DEF Log, TypeOK
  <1>3. task.next \in 1..Len(Log)
    BY <1>1, <1>2, LenProperties
  <1> QED BY <1>2, <1>3, ElementOfSeq DEF LoggedMessages

\* Logging a message keeps the types of the logs.
LEMMA LogMessageTypes ==
    ASSUME TypeOK, NEW m \in ServerMessages, logMessage(m)
    PROVE  logs' \in [Targets -> Seq(LoggedMessages)] /\ unstored' \subseteq Texts
  <1>1. m.target \in Targets /\ TextOf(m) \subseteq Texts
    BY MessageFields DEF TextOf
  <1>2. m.cmd \in LoggedCmds => Append(logs[m.target], m) \in Seq(LoggedMessages)
    BY <1>1, AppendProperties DEF TypeOK, LoggedMessages
  <1> QED BY <1>1, <1>2 DEF logMessage, TypeOK

\* A step of the proxy on whatever a server could send, with logs of any length:
\* what Next allows, and what happens in any network that the proxy is part of.
AnyStep ==
    \/ Lifecycle \/ ClientEvent \/ HandlerStep \/ Environment
    \/ \E m \in ServerMessages : handleServerEvent(m)

LEMMA NextIsAnyStep ==
    ASSUME [Next]_vars
    PROVE  [AnyStep]_vars
  BY MessagesAssumption DEF Next, AnyStep, ServerEvent

\* Every step keeps the types.
LEMMA TypeStep ==
    ASSUME TypeOK, [AnyStep]_vars
    PROVE  TypeOK'
  <1> USE MessagesAssumption
  <1>0. /\ p \in ProxyStruct /\ task \in Tasks
        /\ p.client \in Connection /\ p.server \in Connection
    BY DEF TypeOK, ProxyStruct
  \* Most actions change the struct and nothing else.
  <1>p. ASSUME p' \in ProxyStruct, UNCHANGED <<task, logs, history>>
        PROVE  TypeOK'
    BY <1>p DEF TypeOK, history
  <1>pt. ASSUME p' \in ProxyStruct, task' \in Tasks, UNCHANGED <<logs, history>>
         PROVE  TypeOK'
    BY <1>pt DEF TypeOK, history
  <1>1. CASE Accept
    <2> DEFINE d == dropClient(p)
               q == [d EXCEPT !.client = setup(@)]
    <2>1. d \in ProxyStruct
      BY <1>0, ProxyTypes
    <2> HIDE DEF d
    <2>2. q \in ProxyStruct
      BY <2>1, ConnectionTypes DEF ProxyStruct
    <2> HIDE DEF q
    <2>3. [q EXCEPT !.server = setup(@)] \in ProxyStruct /\ dropClient(q) \in ProxyStruct
      BY <2>2, ConnectionTypes, ProxyTypes DEF ProxyStruct
    <2>4. p' \in ProxyStruct
      BY <1>1, <2>2, <2>3 DEF Accept, q, d
    <2> QED BY <2>4, <1>1, <1>p DEF Accept
  <1>2. CASE ClientGone
    BY <1>2, <1>0, <1>p, ProxyTypes DEF ClientGone
  <1>3. CASE ServerGone
    BY <1>3, <1>0, <1>p, ProxyTypes DEF ServerGone
  <1>4. CASE Tick
    BY <1>4, <1>0, <1>p, CheckTimeoutTypes DEF Tick
  <1>5. CASE Stop
    <2>1. [Select EXCEPT !.at = "stopped"] \in Tasks
      BY DEF Select, Tasks
    <2> QED BY <2>1, <1>5, <1>0, <1>pt, ProxyTypes DEF Stop
  <1>6. CASE Restart
    BY <1>6, InitialTypes, ReplayedTexts DEF Restart, TypeOK
  <1>7. ASSUME NEW m \in ClientMsgs, ClientInvalid(m)
        PROVE  TypeOK'
    BY <1>7, <1>0, <1>p, OwnMessages, ProxyTypes DEF ClientInvalid
  <1>8. ASSUME NEW m \in ClientMsgs, ClientIdles(m)
        PROVE  TypeOK'
    BY <1>8, <1>0, <1>p, ProxyTypes DEF ClientIdles
  <1>9. ASSUME NEW m \in ClientMsgs, ClientRegisters(m)
        PROVE  TypeOK'
    BY <1>9, <1>0, <1>p, ProxyTypes DEF ClientRegisters
  <1>10. ASSUME NEW m \in ClientMsgs, ClientReturns(m)
         PROVE  TypeOK'
    <2> DEFINE q == fromClient(p, m)
    <2>1. q \in ProxyStruct
      BY <1>0, ProxyTypes
    <2> HIDE DEF q
    <2>2. [q EXCEPT !.client.session.nick = q.server.session.nick] \in ProxyStruct
      BY <2>1 DEF ProxyStruct, Connection, Session
    <2>3. p' \in ProxyStruct
      BY <1>10, <2>1, <2>2, ProxyTypes DEF ClientReturns, q
    <2> QED BY <2>3, <1>10, <1>p DEF ClientReturns
  <1>11. ASSUME NEW m \in ClientMsgs, ClientCommand(m)
         PROVE  TypeOK'
    <2>1. fromClient(p, m) \in ProxyStruct
      BY <1>0, ProxyTypes
    <2>2. p' \in ProxyStruct
      BY <1>11, <2>1, ProxyTypes, OwnMessages DEF ClientCommand
    <2> QED BY <2>2, <1>11, <1>p DEF ClientCommand
  <1>12. ASSUME NEW m \in ClientMsgs, ClientJoin(m)
         PROVE  TypeOK'
    BY <1>12, <1>0, <1>p, ProxyTypes DEF ClientJoin
  <1>13. ASSUME NEW m \in ClientMsgs, ClientRejoin(m)
         PROVE  TypeOK'
    <2> DEFINE q == fromClient(p, m)
               r == [q EXCEPT !.preLogSession = GetChannel(@, m.target)]
    <2>1. q \in ProxyStruct
      BY <1>0, ProxyTypes
    <2>2. m.target \in Channels
      BY <1>13 DEF ClientRejoin, HaveChannel
    <2> HIDE DEF q
    <2>3. \A s \in Session : GetChannel(s, m.target) \in Session
      BY <2>2 DEF GetChannel, Got, NewChannelState, Session, ChannelState
    <2>4. r \in ProxyStruct
      BY <2>1, <2>3 DEF ProxyStruct
    <2>5. q.client.session.nick \in Names
      BY <2>1 DEF ProxyStruct, Connection, Session
    <2> HIDE DEF r
    <2>6. sendClient(r, Msg("JOIN", q.client.session.nick, m.target, None)) \in ProxyStruct
      BY <2>2, <2>4, <2>5, OwnMessages, ProxyTypes
    <2>7. [at |-> "names", name |-> m.target, next |-> 0] \in Tasks
      BY <2>2 DEF Tasks
    <2> QED BY <1>13, <1>pt, <2>6, <2>7, InitialTypes DEF ClientRejoin, q, r
  <1>14. ASSUME NEW m \in ServerMessages, ServerInvalid(m)
         PROVE  TypeOK'
    BY <1>14, <1>0, <1>p, ProxyTypes DEF ServerInvalid
  <1>15. ASSUME NEW m \in ServerMessages, ServerKeepalive(m)
         PROVE  TypeOK'
    BY <1>15, <1>0, <1>p, ProxyTypes DEF ServerKeepalive
  <1>16. ASSUME NEW m \in ServerMessages, ServerForward(m)
         PROVE  TypeOK'
    BY <1>16, <1>0, <1>p, ProxyTypes DEF ServerForward
  <1>17. ASSUME NEW m \in ServerMessages, ServerWelcome(m)
         PROVE  TypeOK'
    <2> DEFINE q == fromServer(p, m)
               r == [q EXCEPT !.server.session.nick = m.arg]
               s == sendClient(r, m)
    <2>1. q \in ProxyStruct
      BY <1>0, ProxyTypes
    <2>2. m.arg \in Names
      BY <1>17, MessageFields DEF ServerWelcome
    <2> HIDE DEF q
    <2>3. r \in ProxyStruct
      BY <2>1, <2>2 DEF ProxyStruct, Connection, Session
    <2> HIDE DEF r
    <2>4. s \in ProxyStruct
      BY <2>3, ProxyTypes
    <2> HIDE DEF s
    <2>5. [s EXCEPT !.client.session.nick = m.arg] \in ProxyStruct
      BY <2>2, <2>4 DEF ProxyStruct, Connection, Session
    <2>6. p' \in ProxyStruct
      BY <1>17, <2>1, <2>4, <2>5, ProxyTypes DEF ServerWelcome, q, r, s
    <2> QED BY <1>17, <2>6, <1>p DEF ServerWelcome
  <1>18. ASSUME NEW m \in ServerMessages, ServerInfo(m)
         PROVE  TypeOK'
    <2> DEFINE f == fromServer(p, m)
               q == [f EXCEPT !.msgCache = @ \cup {m.cmd}]
               s == sendClient(q, m)
    <2>1. f \in ProxyStruct
      BY <1>0, ProxyTypes
    <2> HIDE DEF f
    <2>2. q \in ProxyStruct
      BY <1>18, <2>1 DEF ProxyStruct, ServerInfo
    <2> HIDE DEF q
    <2>3. s \in ProxyStruct
      BY <2>2, ProxyTypes
    <2> HIDE DEF s
    <2>4. [s EXCEPT !.haveMsgCache = @ \/ m.cmd = "RPL_MYINFO"] \in ProxyStruct
      BY <2>3 DEF ProxyStruct
    <2> QED BY <1>18, <2>4, <1>p DEF ServerInfo, f, q, s
  <1>19. ASSUME NEW m \in ServerMessages, ServerEndOfMotd(m)
         PROVE  TypeOK'
    <2>1. p' \in ProxyStruct
      BY <1>19, <1>0, ProxyTypes DEF ServerEndOfMotd
    <2>2. p'.client.session.nick \in Targets
      BY <2>1 DEF ProxyStruct, Connection, Session, Targets, Names
    <2>3. task' \in Tasks
      BY <1>19, <2>2 DEF ServerEndOfMotd, replayLog, Tasks
    <2> QED BY <1>19, <2>1, <2>3, <1>pt DEF ServerEndOfMotd
  <1>20. ASSUME NEW m \in ServerMessages, ServerEndOfNames(m)
         PROVE  TypeOK'
    <2>1. p' \in ProxyStruct
      BY <1>20, <1>0, ProxyTypes DEF ServerEndOfNames
    <2>2. task' \in Tasks
      BY <1>20, MessageFields DEF ServerEndOfNames, replayLog, Tasks
    <2> QED BY <1>20, <2>1, <2>2, <1>pt DEF ServerEndOfNames
  <1>21. ASSUME NEW m \in ServerMessages, ServerText(m)
         PROVE  TypeOK'
    <2>1. p' \in ProxyStruct
      BY <1>21, <1>0, ProxyTypes DEF ServerText
    <2>2. TextOf(m) \subseteq Texts /\ m.arg \in Texts
      BY <1>21, MessageFields DEF TextOf, ServerText
    <2>3. logs' \in [Targets -> Seq(LoggedMessages)] /\ unstored' \subseteq Texts
      BY <1>21, LogMessageTypes DEF ServerText, TypeOK
    <2>4. delivered' \subseteq Texts /\ resent' \subseteq Texts /\ swallowed' \subseteq Texts
      BY <1>21, <2>2 DEF ServerText, Written, TypeOK
    <2> QED BY <1>21, <2>1, <2>2, <2>3, <2>4 DEF ServerText, TypeOK
  <1>22. ASSUME NEW m \in ServerMessages, ServerMembership(m)
         PROVE  TypeOK'
    <2>1. p' \in ProxyStruct
      BY <1>22, <1>0, ProxyTypes DEF ServerMembership
    <2>2. logs' \in [Targets -> Seq(LoggedMessages)] /\ unstored' \subseteq Texts
      BY <1>22, LogMessageTypes DEF ServerMembership, TypeOK
    <2> QED BY <1>22, <2>1, <2>2 DEF ServerMembership, TypeOK
  <1>23. CASE rejoinChannel
    <2>1. task.name \in Channels
      BY <1>23, <1>0 DEF rejoinChannel, Tasks
    <2>2. \A ch, before \in ChannelState : Told(Got(ch), before) \in ChannelState
      BY DEF Told, Got, NewChannelState, ChannelState
    <2>3. [p EXCEPT !.client.session.channels[task.name] =
               Told(Got(@), p.preLogSession.channels[task.name])] \in ProxyStruct
      BY <1>0, <2>1, <2>2 DEF ProxyStruct, Connection, Session
    <2>4. p' \in ProxyStruct
      BY <1>23, <1>0, <2>1, <2>3, OwnMessages, ProxyTypes DEF rejoinChannel
    <2>5. replayLog(task.name) \in Tasks
      BY <2>1 DEF replayLog, Tasks, Targets
    <2> QED BY <1>23, <2>4, <2>5, <1>pt, InitialTypes DEF rejoinChannel
  <1>24. CASE ReplaySend
    <2>1. p' \in ProxyStruct
      BY <1>0, <1>24, CurrentMessage, ProxyTypes DEF ReplaySend
    <2>2. TextOf(Log[task.next]) \subseteq Texts
      BY <1>24, CurrentMessage, MessageFields DEF TextOf, ReplaySend
    <2>3. delivered' \subseteq Texts /\ resent' \subseteq Texts /\ swallowed' \subseteq Texts
      BY <1>24, <2>2 DEF ReplaySend, Written, TypeOK
    <2>4. task' \in Tasks
      BY <1>0, <1>24 DEF ReplaySend, Tasks
    <2> QED BY <1>24, <2>1, <2>3, <2>4 DEF ReplaySend, TypeOK
  <1>25. CASE ReplayAborts
    <2>1. p' \in ProxyStruct
      BY <1>0, <1>25, CurrentMessage, ProxyTypes DEF ReplayAborts
    <2> QED BY <1>25, <2>1, InitialTypes, ReplayedTexts DEF ReplayAborts, TypeOK
  <1>26. CASE ReplayFails
    BY <1>26, InitialTypes, ReplayedTexts DEF ReplayFails, TypeOK
  <1>27. CASE ReplayEnds
    <2>1. <<>> \in Seq(LoggedMessages)
      OBVIOUS
    <2>2. logs' \in [Targets -> Seq(LoggedMessages)] /\ cut' \subseteq Texts
      BY <1>27, <2>1, ReplayedTexts DEF ReplayEnds, TypeOK
    <2> QED BY <1>27, <2>2, InitialTypes DEF ReplayEnds, TypeOK
  <1>28. CASE ClientDies
    BY <1>28, <1>0, <1>p DEF ClientDies, ProxyStruct, Connection
  <1>29. CASE ServerDies
    BY <1>29, <1>0, <1>p DEF ServerDies, ProxyStruct, Connection
  <1>30. CASE ClientDeadline
    BY <1>30, <1>0, <1>p DEF ClientDeadline, ProxyStruct, Connection
  <1>31. CASE ServerDeadline
    BY <1>31, <1>0, <1>p DEF ServerDeadline, ProxyStruct, Connection
  <1>32. CASE UNCHANGED vars
    BY <1>32 DEF vars, history, TypeOK
  <1> QED
    BY <1>1, <1>2, <1>3, <1>4, <1>5, <1>6, <1>7, <1>8, <1>9, <1>10, <1>11, <1>12, <1>13,
       <1>14, <1>15, <1>16, <1>17, <1>18, <1>19, <1>20, <1>21, <1>22, <1>23, <1>24,
       <1>25, <1>26, <1>27, <1>28, <1>29, <1>30, <1>31, <1>32
       DEF AnyStep, Lifecycle, ClientEvent, handleClientEvent, handleServerEvent,
           HandlerStep, Environment

\* The program never leaves the types: the maps, flags, cursors and logs that
\* the handlers of proxy.go pass to each other stay what they are declared to be.
THEOREM TypeCorrect == Spec => []TypeOK
  <1>1. Init => TypeOK
    <2>1. <<>> \in Seq(LoggedMessages)
      OBVIOUS
    <2> QED BY <2>1, InitialTypes DEF Init, TypeOK
  <1>2. TypeOK /\ [Next]_vars => TypeOK'
    BY TypeStep, NextIsAnyStep
  <1> QED BY <1>1, <1>2, PTL DEF Spec

=============================================================================
