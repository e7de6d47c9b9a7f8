------------------------------- MODULE Proxy -------------------------------
(***************************************************************************)
(* The proxy daemon (proxy/proxy.go): the goroutine that runs Proxy.Run    *)
(* between one IRC client, which comes and goes, and one IRC server.       *)
(*                                                                         *)
(* One action is one turn of Run's select loop, except that the two        *)
(* handlers that write many messages, rejoinChannel and replayLog, take a  *)
(* step per write, because a peer can go away or the process can be killed *)
(* between two writes.  The peers are unconstrained: any message of        *)
(* ServerMsgs and ClientMsgs may arrive at any time, in any order, so what *)
(* is proved here holds whatever the peers send.                           *)
(***************************************************************************)
EXTENDS Session, Naturals, Sequences

CONSTANTS
    ServerMsgs,     \* the messages the server may send
    ClientMsgs,     \* the messages the client may send
    WriteErrors,    \* WriteMessage reports a write to a dead peer as an error
    StoreMayFail,   \* operations of the message store may return errors
    Faults,         \* which of FaultKinds happen
    MaxLog          \* bound on the length of a message log

FaultKinds == {"clientDies", "serverDies", "deadlinePasses", "kill"}

ASSUME MessagesAssumption ==
    /\ ServerMsgs \subseteq ServerMessages
    /\ ClientMsgs \subseteq ClientMessages

ASSUME SettingsAssumption ==
    /\ WriteErrors \in BOOLEAN
    /\ StoreMayFail \in BOOLEAN
    /\ Faults \subseteq FaultKinds
    /\ MaxLog \in Nat

VARIABLES
    p,          \* the Proxy struct
    task,       \* where Run is: in its select, in a handler's loop, or returned
    logs,       \* the message store: for every channel or nick, its log
    received,   \* history: texts whose handler has run
    delivered,  \* history: texts that reached a client
    resent,     \* history: texts that reached a client more than once
    cut,        \* history: texts sent by a replay that did not clear its log
    unstored,   \* history: texts the store refused to log
    swallowed   \* history: texts that were written, without an error, to a dead client

history == <<received, delivered, resent, cut, unstored, swallowed>>
vars == <<p, task, logs, history>>

Targets == Nicks \cup Channels \cup {None}

-----------------------------------------------------------------------------
(* Connections.  "open" is the negation of IsClosed, "overdue" says that   *)
(* the deadline that PingSent selects has passed.  "alive" is the state of *)
(* the peer, which the proxy cannot see, and "pinged" the history of this  *)
(* connection: a PING was written since the last message from the peer.    *)

Connection == [open : BOOLEAN, alive : BOOLEAN, pingSent : BOOLEAN,
               overdue : BOOLEAN, pinged : BOOLEAN, session : Session]

emptyConnection == [open |-> FALSE, alive |-> FALSE, pingSent |-> FALSE,
                    overdue |-> FALSE, pinged |-> FALSE, session |-> NewSession]

updateDeadlines(c) == [c EXCEPT !.pingSent = FALSE, !.overdue = FALSE, !.pinged = FALSE]

\* Mutant: the deadlines are left as the last connection had them.
setupKeepsDeadlines(c) == [c EXCEPT !.open = TRUE, !.alive = TRUE, !.session = NewSession]

setup(c) ==
    updateDeadlines([c EXCEPT !.open = TRUE, !.alive = TRUE, !.session = NewSession])

shutdown(c) == IF c.open THEN emptyConnection ELSE c

\* Whether WriteMessage(c) returns nil, and whether its message gets through.
WriteOk(c) == c.open /\ (WriteErrors => c.alive)
Reaches(c) == c.open /\ c.alive

-----------------------------------------------------------------------------
(* The Proxy struct, and its methods as functions from struct to struct.   *)

ProxyStruct == [client : Connection, server : Connection, preLogSession : Session,
                msgCache : SUBSET InfoCmds, haveMsgCache : BOOLEAN]

NewProxy == [client |-> emptyConnection, server |-> emptyConnection,
             preLogSession |-> NewSession, msgCache |-> {}, haveMsgCache |-> FALSE]

\* Mutant: the server is kept whatever the state of its handshake.
dropClientOnly(q) == [q EXCEPT !.client = shutdown(@)]

\* Mutant: whenever the client goes, the server goes with it.
dropClientAndServer(q) == [q EXCEPT !.client = shutdown(@), !.server = shutdown(@)]

dropClient(q) ==
    [q EXCEPT !.client = shutdown(@),
              !.server = IF Done(@.session) THEN @ ELSE shutdown(@)]

reset(q) == [q EXCEPT !.client = shutdown(@), !.server = shutdown(@)]

\* Mutant: a failed write is reported but the connections are kept.
sendServerKeeps(q, m) ==
    IF WriteOk(q.server)
      THEN [q EXCEPT !.server.session = UpdateFromClient(@, m)]
      ELSE q

sendServer(q, m) ==
    IF WriteOk(q.server)
      THEN [q EXCEPT !.server.session = UpdateFromClient(@, m)]
      ELSE IF q.server.open THEN reset(q) ELSE q

\* Mutant: preLogSession does not follow what the client is told.
sendClientNoPreLog(q, m) ==
    IF WriteOk(q.client)
      THEN [q EXCEPT !.client.session = UpdateFromServer(@, m)]
      ELSE IF q.client.open THEN dropClient(q) ELSE q

sendClient(q, m) ==
    IF WriteOk(q.client)
      THEN [q EXCEPT !.client.session = UpdateFromServer(@, m),
                     !.preLogSession = UpdateFromServer(@, m)]
      ELSE IF q.client.open THEN dropClient(q) ELSE q

\* checkTimeout for each connection.  When the PING cannot be written the
\* connection is emptied first and PingSent is set on the empty one.
checkClient(q) ==
    IF ~(q.client.open /\ q.client.overdue) THEN q
    ELSE IF q.client.pingSent THEN dropClient(q)
    ELSE [sendClient(q, Bare("PING")) EXCEPT !.client.pingSent = TRUE,
              !.client.overdue = FALSE, !.client.pinged = WriteOk(q.client)]

checkServer(q) ==
    IF ~(q.server.open /\ q.server.overdue) THEN q
    ELSE IF q.server.pingSent THEN reset(q)
    ELSE [sendServer(q, Bare("PING")) EXCEPT !.server.pingSent = TRUE,
              !.server.overdue = FALSE, !.server.pinged = WriteOk(q.server)]

\* The first lines of the two event handlers, which every message passes.
clientHeard(c, m) == [updateDeadlines(c) EXCEPT !.session = UpdateFromClient(@, m)]
serverHeard(c, m) == [updateDeadlines(c) EXCEPT !.session = UpdateFromServer(@, m)]

fromClient(q, m) == [q EXCEPT !.client = clientHeard(@, m)]
fromServer(q, m) == [q EXCEPT !.server = serverHeard(@, m)]

-----------------------------------------------------------------------------
(* Where Run is, and the message logs.                                     *)

Tasks == [at : {"select", "stopped"}, name : {None}, next : {0}]
         \cup [at : {"names"}, name : Channels, next : {0}]
         \cup [at : {"replay"}, name : Targets, next : Nat \ {0}]

Select == [at |-> "select", name |-> None, next |-> 0]

InSelect == task.at = "select"

\* Mutant: the cursor starts before the log's first message.
replayLogFromZero(name) == [at |-> "replay", name |-> name, next |-> 0]

\* Mutant: the replay starts after the log's first message.
replayLogFromSecond(name) == [at |-> "replay", name |-> name, next |-> 2]

replayLog(name) == [at |-> "replay", name |-> name, next |-> 1]

LoggedCmds == {"PRIVMSG", "NOTICE", "JOIN", "KICK", "PART", "NICK"}

\* What a log can hold.
LoggedMessages == {m \in ServerMessages : m.cmd \in LoggedCmds}

TextOf(m) == IF m.cmd \in TextCmds THEN {m.arg} ELSE {}

TextsOf(log) == UNION {TextOf(log[i]) : i \in DOMAIN log}

\* The texts the replay in progress, if any, has sent.
Replayed == IF task.at = "replay"
              THEN UNION {TextOf(logs[task.name][i]) :
                            i \in {j \in DOMAIN logs[task.name] : j < task.next}}
              ELSE {}

logMessage(m) ==
    \/ /\ m.cmd \in LoggedCmds
       /\ logs' = [logs EXCEPT ![m.target] = Append(@, m)]
       /\ UNCHANGED unstored
    \/ /\ m.cmd \in LoggedCmds => StoreMayFail
       /\ unstored' = unstored \cup (IF m.cmd \in LoggedCmds THEN TextOf(m) ELSE {})
       /\ UNCHANGED logs

\* History of a message that was written to the client c without an error: it
\* reaches the client, or nobody.
Written(c, m) ==
    /\ swallowed' = IF Reaches(c) THEN swallowed ELSE swallowed \cup TextOf(m)
    /\ delivered' = IF Reaches(c) THEN delivered \cup TextOf(m) ELSE delivered
    /\ resent' = IF Reaches(c) THEN resent \cup (TextOf(m) \cap delivered) ELSE resent

-----------------------------------------------------------------------------
(* Connections come and go.                                                *)

\* A client connects.  The old one is booted; the server is connected to
\* unless there already is a connection.
Accept ==
    /\ InSelect
    /\ LET q == [dropClient(p) EXCEPT !.client = setup(@)] IN
         \/ /\ q.server.open
            /\ p' = q
         \/ /\ ~q.server.open
            /\ p' \in {dropClient(q), [q EXCEPT !.server = setup(@)]}
    /\ UNCHANGED <<task, logs, history>>

\* End of input from a peer that has gone away.
ClientGone ==
    /\ InSelect
    /\ p.client.open /\ ~p.client.alive
    /\ p' = dropClient(p)
    /\ UNCHANGED <<task, logs, history>>

ServerGone ==
    /\ InSelect
    /\ p.server.open /\ ~p.server.alive
    /\ p' = reset(p)
    /\ UNCHANGED <<task, logs, history>>

\* The ticker fires: both connections are checked.
Tick ==
    /\ InSelect
    /\ p' = checkServer(checkClient(p))
    /\ UNCHANGED <<task, logs, history>>

Stop ==
    /\ InSelect
    /\ p' = reset(p)
    /\ task' = [Select EXCEPT !.at = "stopped"]
    /\ UNCHANGED <<logs, history>>

\* A new daemon on the same store: after Stop, or after the process was
\* killed, possibly in the middle of a replay.
Restart ==
    /\ task.at = "stopped" \/ "kill" \in Faults
    /\ p' = NewProxy
    /\ task' = Select
    /\ cut' = cut \cup Replayed
    /\ UNCHANGED <<logs, received, delivered, resent, unstored, swallowed>>

-----------------------------------------------------------------------------
(* handleClientEvent                                                       *)

ClientReads == InSelect /\ p.client.open

\* A message that Validate rejects: the client is told and dropped.
ClientInvalid(m) ==
    /\ ClientReads
    /\ m.cmd = "INVALID"
    /\ p' = dropClient(sendClient(p, Bare("OTHER")))
    /\ UNCHANGED <<task, logs, history>>

HandshakeCmds == {"PASS", "USER", "NICK"}

\* Nothing to do for a message of the client's handshake: not a handshake
\* command, or one that leaves the reconnecting client's handshake unfinished.
ClientIdles(m) ==
    LET q == fromClient(p, m) IN
      /\ ClientReads
      /\ m.cmd # "INVALID"
      /\ ~Done(q.client.session)
      /\ \/ m.cmd \notin HandshakeCmds
         \/ Done(q.server.session) /\ ~WantsWelcome(q.client.session)
      /\ p' = q
      /\ UNCHANGED <<task, logs, history>>

\* The server has not completed its handshake either: pass the message on.
ClientRegisters(m) ==
    LET q == fromClient(p, m) IN
      /\ ClientReads
      /\ ~Done(q.client.session)
      /\ m.cmd \in HandshakeCmds
      /\ ~Done(q.server.session)
      /\ p' = sendServer(q, m)
      /\ UNCHANGED <<task, logs, history>>

\* The server believes that we are logged in, so the welcome sequence is sent
\* from the cache and the server is asked for the MOTD.  The four welcome
\* messages change no session, so a write that fails after some of them has
\* the effect of one that fails on the first.
ClientReturns(m) ==
    LET q == fromClient(p, m) IN
      /\ ClientReads
      /\ WantsWelcome(q.client.session)
      /\ m.cmd \in HandshakeCmds
      /\ Done(q.server.session)
      /\ p' = IF ~q.haveMsgCache THEN reset(q)
              ELSE IF ~WriteOk(q.client) THEN dropClient(q)
              ELSE sendServer([q EXCEPT !.client.session.nick = q.server.session.nick],
                              Bare("MOTD"))
      /\ UNCHANGED <<task, logs, history>>

\* Every command but JOIN, once the client's handshake is done.
ClientCommand(m) ==
    LET q == fromClient(p, m) IN
      /\ ClientReads
      /\ Done(q.client.session)
      /\ m.cmd \notin {"JOIN", "INVALID"}
      /\ p' = CASE m.cmd = "PING" -> sendClient(q, Bare("PONG"))
                [] m.cmd = "PONG" -> q
                [] m.cmd = "QUIT" -> dropClient(q)
                [] OTHER -> sendServer(q, m)
      /\ UNCHANGED <<task, logs, history>>

\* JOIN of a channel that the client is in (ignored) or that neither the
\* client nor the server's session is in (passed on).
ClientJoin(m) ==
    LET q == fromClient(p, m) IN
      /\ ClientReads
      /\ Done(q.client.session)
      /\ m.cmd = "JOIN"
      /\ \/ /\ HaveChannel(q.client.session, m.target)
            /\ p' = q
         \/ /\ ~HaveChannel(q.client.session, m.target)
            /\ ~HaveChannel(q.server.session, m.target)
            /\ p' = sendServer(q, m)
      /\ UNCHANGED <<task, logs, history>>

\* JOIN of a channel that we never left on the server: the first write of
\* rejoinChannel, the client's own JOIN.
ClientRejoin(m) ==
    LET q == fromClient(p, m) IN
      /\ ClientReads
      /\ Done(q.client.session)
      /\ m.cmd = "JOIN"
      /\ ~HaveChannel(q.client.session, m.target)
      /\ HaveChannel(q.server.session, m.target)
      /\ p' = sendClient([q EXCEPT !.preLogSession = GetChannel(@, m.target)],
                         Msg("JOIN", q.client.session.nick, m.target, None))
      /\ task' = IF WriteOk(q.client)
                   THEN [at |-> "names", name |-> m.target, next |-> 0]
                   ELSE Select
      /\ UNCHANGED <<logs, history>>

\* The channel ch of the client after the topic and names replies that
\* rejoinChannel makes from before, the channel in preLogSession.
Told(ch, before) ==
    [ch EXCEPT !.users = @ \cup before.users,
               !.topic = IF before.topic # None THEN before.topic ELSE @]

\* The rest of rejoinChannel: topic, users and end of names as preLogSession
\* has them.  These messages leave preLogSession as it is, so the writes
\* before one that fails have no lasting effect: the client is emptied.
rejoinChannel ==
    /\ task.at = "names"
    /\ p' = IF ~WriteOk(p.client)
              THEN sendClient(p, Msg("RPL_ENDOFNAMES", None, task.name, None))
              ELSE [p EXCEPT !.client.session.channels[task.name] =
                               Told(Got(@), p.preLogSession.channels[task.name])]
    /\ task' = IF WriteOk(p.client) THEN replayLog(task.name) ELSE Select
    /\ UNCHANGED <<logs, history>>

-----------------------------------------------------------------------------
(* handleServerEvent                                                       *)

ServerReads == InSelect /\ p.server.open

ServerInvalid(m) ==
    /\ ServerReads
    /\ m.cmd = "INVALID"
    /\ p' = reset(p)
    /\ UNCHANGED <<task, logs, history>>

ForwardedCmds == NickErrors \cup {"RPL_MOTDSTART", "RPL_MOTD", "RPL_NAMEREPLY", "RPL_TOPIC"}

\* PING is answered; PONG needs nothing but the new deadlines.
ServerKeepalive(m) ==
    LET q == fromServer(p, m) IN
      /\ ServerReads
      /\ m.cmd \in {"PING", "PONG"}
      /\ p' = IF m.cmd = "PING" THEN sendServer(q, Bare("PONG")) ELSE q
      /\ UNCHANGED <<task, logs, history>>

\* What is passed on and, for the commands of the default case, not logged.
ServerForward(m) ==
    /\ ServerReads
    /\ m.cmd \in ForwardedCmds \cup {"OTHER"}
    /\ p' = sendClient(fromServer(p, m), m)
    /\ UNCHANGED <<task, logs, history>>

ServerWelcome(m) ==
    LET q == fromServer(p, m)
        r == [q EXCEPT !.server.session.nick = m.arg]
        s == sendClient(r, m)
    IN
      /\ ServerReads
      /\ m.cmd = "RPL_WELCOME"
      /\ p' = IF m.arg = None THEN reset(q)
              ELSE IF WriteOk(r.client) THEN [s EXCEPT !.client.session.nick = m.arg]
              ELSE s
      /\ UNCHANGED <<task, logs, history>>

\* Mutant: RPL_CREATED is taken for the end of the cached messages.
ServerInfoAtCreated(m) ==
    LET q == [fromServer(p, m) EXCEPT !.msgCache = @ \cup {m.cmd}] IN
      /\ ServerReads
      /\ m.cmd \in InfoCmds
      /\ p' = [sendClient(q, m) EXCEPT !.haveMsgCache = @ \/ m.cmd = "RPL_CREATED"]
      /\ UNCHANGED <<task, logs, history>>

ServerInfo(m) ==
    LET q == [fromServer(p, m) EXCEPT !.msgCache = @ \cup {m.cmd}] IN
      /\ ServerReads
      /\ m.cmd \in InfoCmds
      /\ p' = [sendClient(q, m) EXCEPT !.haveMsgCache = @ \/ m.cmd = "RPL_MYINFO"]
      /\ UNCHANGED <<task, logs, history>>

\* The log of the client's nick is replayed.  When the write failed the
\* client is empty, its nick is "", and so is that log.
ServerEndOfMotd(m) ==
    /\ ServerReads
    /\ m.cmd \in MotdEnds
    /\ p' = sendClient(fromServer(p, m), m)
    /\ task' = replayLog(p'.client.session.nick)
    /\ UNCHANGED <<logs, history>>

ServerEndOfNames(m) ==
    /\ ServerReads
    /\ m.cmd = "RPL_ENDOFNAMES"
    /\ p' = sendClient(fromServer(p, m), m)
    /\ task' = replayLog(m.target)
    /\ UNCHANGED <<logs, history>>

\* Whether a PRIVMSG or NOTICE is for the connected client.
ForClient(q, m) ==
    HaveChannel(q.client.session, m.target) \/ IsMe(q.client.session, m.target)

\* The history variables follow the text.
ServerText(m) ==
    LET q == fromServer(p, m) IN
      /\ ServerReads
      /\ m.cmd \in TextCmds
      /\ m.arg \notin received
      /\ received' = received \cup {m.arg}
      /\ IF ForClient(q, m) /\ WriteOk(q.client)
           THEN Written(q.client, m) /\ UNCHANGED <<logs, unstored>>
           ELSE logMessage(m) /\ UNCHANGED <<delivered, resent, swallowed>>
      /\ p' = IF ForClient(q, m) THEN sendClient(q, m) ELSE q
      /\ UNCHANGED <<task, cut>>

MembershipCmds == {"JOIN", "KICK", "PART", "QUIT", "NICK"}

ServerMembership(m) ==
    LET q == fromServer(p, m) IN
      /\ ServerReads
      /\ m.cmd \in MembershipCmds
      /\ IF Done(q.client.session) /\ WriteOk(q.client)
           THEN UNCHANGED <<logs, unstored>>
           ELSE logMessage(m)
      /\ p' = IF Done(q.client.session) THEN sendClient(q, m) ELSE q
      /\ UNCHANGED <<task, received, delivered, resent, cut, swallowed>>

-----------------------------------------------------------------------------
(* replayLog: the cursor is at message task.next of the log.               *)

Log == logs[task.name]

\* Mutant: the cursor is not advanced.
ReplaySendStays ==
    /\ task.at = "replay"
    /\ task.next <= Len(Log)
    /\ WriteOk(p.client)
    /\ p' = sendClient(p, Log[task.next])
    /\ Written(p.client, Log[task.next])
    /\ UNCHANGED <<task, logs, received, cut, unstored>>

ReplaySend ==
    /\ task.at = "replay"
    /\ task.next <= Len(Log)
    /\ WriteOk(p.client)
    /\ p' = sendClient(p, Log[task.next])
    /\ Written(p.client, Log[task.next])
    /\ task' = [task EXCEPT !.next = @ + 1]
    /\ UNCHANGED <<logs, received, cut, unstored>>

\* Mutant: the log is cleared although the client has not had all of it.
ReplayAbortsClearing ==
    /\ task.at = "replay"
    /\ task.next <= Len(Log)
    /\ ~WriteOk(p.client)
    /\ p' = sendClient(p, Log[task.next])
    /\ task' = Select
    /\ logs' = [logs EXCEPT ![task.name] = <<>>]
    /\ UNCHANGED history

\* The client cannot be written to: the log stays.
ReplayAborts ==
    /\ task.at = "replay"
    /\ task.next <= Len(Log)
    /\ ~WriteOk(p.client)
    /\ p' = sendClient(p, Log[task.next])
    /\ task' = Select
    /\ cut' = cut \cup Replayed
    /\ UNCHANGED <<logs, received, delivered, resent, unstored, swallowed>>

\* GetChannel, Replay or the cursor returns an error: the log stays.
ReplayFails ==
    /\ StoreMayFail
    /\ task.at = "replay"
    /\ task' = Select
    /\ cut' = cut \cup Replayed
    /\ UNCHANGED <<p, logs, received, delivered, resent, unstored, swallowed>>

\* Mutant: the replayed log is not cleared.
ReplayEndsKeepingLog ==
    /\ task.at = "replay"
    /\ task.next > Len(Log)
    /\ task' = Select
    /\ UNCHANGED <<p, logs, history>>

\* The end of the log: it is cleared, unless Clear returns an error, which
\* nobody looks at.
ReplayEnds ==
    /\ task.at = "replay"
    /\ task.next > Len(Log)
    /\ task' = Select
    /\ \/ /\ logs' = [logs EXCEPT ![task.name] = <<>>]
          /\ UNCHANGED cut
       \/ /\ StoreMayFail
          /\ cut' = cut \cup Replayed
          /\ UNCHANGED logs
    /\ UNCHANGED <<p, received, delivered, resent, unstored, swallowed>>

-----------------------------------------------------------------------------
(* The environment: links die without the proxy noticing, time passes.     *)

ClientDies ==
    /\ "clientDies" \in Faults
    /\ p.client.alive
    /\ p' = [p EXCEPT !.client.alive = FALSE]
    /\ UNCHANGED <<task, logs, history>>

ServerDies ==
    /\ "serverDies" \in Faults
    /\ p.server.alive
    /\ p' = [p EXCEPT !.server.alive = FALSE]
    /\ UNCHANGED <<task, logs, history>>

ClientDeadline ==
    /\ "deadlinePasses" \in Faults
    /\ p.client.open /\ ~p.client.overdue
    /\ p' = [p EXCEPT !.client.overdue = TRUE]
    /\ UNCHANGED <<task, logs, history>>

ServerDeadline ==
    /\ "deadlinePasses" \in Faults
    /\ p.server.open /\ ~p.server.overdue
    /\ p' = [p EXCEPT !.server.overdue = TRUE]
    /\ UNCHANGED <<task, logs, history>>

-----------------------------------------------------------------------------

Init ==
    /\ p = NewProxy
    /\ task = Select
    /\ logs = [t \in Targets |-> <<>>]
    /\ received = {} /\ delivered = {} /\ resent = {}
    /\ cut = {} /\ unstored = {} /\ swallowed = {}

\* A message that may have to be logged arrives only if its log has room.
RoomFor(m) == m.cmd \in LoggedCmds => Len(logs[m.target]) < MaxLog

Lifecycle == Accept \/ ClientGone \/ ServerGone \/ Tick \/ Stop \/ Restart

handleClientEvent(m) ==
    \/ ClientInvalid(m) \/ ClientIdles(m) \/ ClientRegisters(m) \/ ClientReturns(m)
    \/ ClientCommand(m) \/ ClientJoin(m) \/ ClientRejoin(m)

handleServerEvent(m) ==
    \/ ServerInvalid(m) \/ ServerKeepalive(m) \/ ServerForward(m)
    \/ ServerWelcome(m) \/ ServerInfo(m)
    \/ ServerEndOfMotd(m) \/ ServerEndOfNames(m)
    \/ ServerText(m) \/ ServerMembership(m)

ClientEvent == \E m \in ClientMsgs : handleClientEvent(m)

ServerEvent == \E m \in ServerMsgs : RoomFor(m) /\ handleServerEvent(m)

\* The steps of a handler that has not returned to Run's loop.
HandlerStep == rejoinChannel \/ ReplaySend \/ ReplayAborts \/ ReplayFails \/ ReplayEnds

Environment == ClientDies \/ ServerDies \/ ClientDeadline \/ ServerDeadline

Next == Lifecycle \/ ClientEvent \/ ServerEvent \/ HandlerStep \/ Environment

Spec == Init /\ [][Next]_vars

-----------------------------------------------------------------------------
(* Properties                                                              *)

\* Every variable has its type.
TypeOK ==
    /\ p \in ProxyStruct
    /\ task \in Tasks
    /\ logs \in [Targets -> Seq(LoggedMessages)]
    /\ received \subseteq Texts /\ delivered \subseteq Texts /\ resent \subseteq Texts
    /\ cut \subseteq Texts /\ unstored \subseteq Texts /\ swallowed \subseteq Texts

\* There is never a client without a server, and the server is kept without a
\* client only when its handshake is done (dropClient, reset, Run's accept
\* case), so a half-registered server connection never waits for nobody.
ServerOutlivesClient ==
    /\ p.client.open => p.server.open
    /\ p.server.open /\ ~p.client.open => Done(p.server.session)

\* Until the server's handshake is done, client and server agree on it: the
\* claim that handleHandshakeMessage rests on when it passes messages through
\* ("Client and server agree on the handshake state").
HandshakeAgreement ==
    p.server.open /\ ~Done(p.server.session) =>
        /\ p.client.session.haveNick = p.server.session.haveNick
        /\ p.client.session.haveUser = p.server.session.haveUser
        /\ p.client.session.haveMOTD = p.server.session.haveMOTD

LoggedTexts == UNION {TextsOf(logs[t]) : t \in Targets}

\* Whatever the writer, the peers, the store or the process do: a text that the
\* proxy has handled has reached a client, is still in a log, was refused by the
\* store, or was written without an error to a client that was gone.  sendClient,
\* logMessage and replayLog never drop one between them.
TextsAccounted == received \subseteq delivered \cup LoggedTexts \cup unstored \cup swallowed

\* What is meant: handleServerEvent logs a text that it cannot send ("Can't send the
\* message to the client, so log it."), so that nothing is swallowed.
NoMessageLost == received \subseteq delivered \cup LoggedTexts \cup unstored

\* A text reaches a client twice only when a replay that sent it ended without
\* clearing the log, the one case replayLog warns of ("this may result in
\* duplicate messages").
NoDuplicates == resent \subseteq cut

\* What a connected client has been told of a channel, preLogSession knows too:
\* a later rejoin that starts from preLogSession tells the client no less.
PreLogCoversClient ==
    \A c \in Channels :
        LET told   == p.client.session.channels[c]
            before == p.preLogSession.channels[c]
        IN told.joined => /\ before.joined
                          /\ told.users \subseteq before.users
                          /\ told.topic \in {None, before.topic}

\* PingSent is true of a connection only if a PING was written to this very
\* connection and nothing has been read from it since, so that checkTimeout
\* drops nobody who was not asked.
PingedBeforeDrop ==
    /\ p.client.open /\ p.client.pingSent => p.client.pinged
    /\ p.server.open /\ p.server.pingSent => p.server.pinged

\* What costs nobody the session: clients that come, speak and go, the clock, the
\* links, the rest of a handler, and the messages of a server that neither Validate
\* nor the handler of RPL_WELCOME rejects.  The other steps are a message that they
\* reject, and the end of the daemon or of the process.
Accepted(m) == m.cmd # "INVALID" /\ (m.cmd = "RPL_WELCOME" => m.arg # None)

Harmless ==
    \/ Accept \/ ClientGone \/ ServerGone \/ Tick \/ ClientEvent \/ HandlerStep \/ Environment
    \/ \E m \in ServerMsgs : RoomFor(m) /\ Accepted(m) /\ handleServerEvent(m)

\* The connection to a server that is up and has completed the handshake goes.
SessionEnds ==
    /\ p.server.open /\ Done(p.server.session) /\ p.server.alive
    /\ ~(p'.server.open /\ Done(p'.server.session))

\* No step of a client, or of its absence, costs the user the session on the
\* server, nor does the clock if the server answers PINGs in time: once the welcome
\* sequence is cached, a step that ends the session is none of the harmless ones.
StaysLoggedIn ==
    [][ SessionEnds /\ p.haveMsgCache /\ ~(p.server.pingSent /\ p.server.overdue)
        => ~Harmless ]_vars

\* A handler that has started to write a channel's state or its log returns to
\* Run's loop: a replay ends however long the log is.
HandlersReturn == task.at \in {"names", "replay"} ~> task.at \in {"select", "stopped"}

=============================================================================
