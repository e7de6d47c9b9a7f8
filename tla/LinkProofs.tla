---------------------------- MODULE LinkProofs -----------------------------
(***************************************************************************)
(* Theorems about the two connections: which of them may be open without   *)
(* the other, what they agree on, when they may be dropped, and what the   *)
(* proxy remembers of what it told the client.                             *)
(***************************************************************************)
EXTENDS ProxyProofs

-----------------------------------------------------------------------------
(* The handshake flags                                                     *)

SameHandshake(s, t) ==
    /\ s.haveNick = t.haveNick
    /\ s.haveUser = t.haveUser
    /\ s.haveMOTD = t.haveMOTD

\* A message of the server changes the flags of a session as a function of the
\* flags and the command, never takes a finished handshake back, and leaves the
\* flags alone unless it rejects a nick or ends the MOTD.
LEMMA FlagsFromServer ==
    ASSUME NEW s \in Session, NEW m \in ServerMessages
    PROVE  /\ SameHandshake(UpdateFromServer(s, m), HandshakeFromServer(s, m))
           /\ Done(s) => Done(UpdateFromServer(s, m))
           /\ m.cmd \notin NickErrors \cup MotdEnds => SameHandshake(UpdateFromServer(s, m), s)
           /\ \A t \in Session : SameHandshake(s, t) =>
                 SameHandshake(UpdateFromServer(s, m), UpdateFromServer(t, m))
  <1>1. \A u \in Session : SameHandshake(UpdateFromServer(u, m), HandshakeFromServer(u, m))
    <2> SUFFICES ASSUME NEW u \in Session
                 PROVE  SameHandshake(UpdateFromServer(u, m), HandshakeFromServer(u, m))
      OBVIOUS
    <2> DEFINE h == HandshakeFromServer(u, m)
               k == [h EXCEPT !.channels = ChannelsFromServer(@, m)]
    <2>1. h \in Session
      BY DEF HandshakeFromServer, Session
    <2>2. k \in Session
      BY <2>1, ChannelsFromServerType DEF Session
    <2>3. SameHandshake(k, h)
      BY <2>1, <2>2 DEF SameHandshake, Session
    <2> HIDE DEF k
    <2>4. SameHandshake(AboutMe(k, m), k)
      BY <2>2 DEF SameHandshake, AboutMe, DeleteChannel, Session
    <2> QED BY <2>3, <2>4 DEF UpdateFromServer, SameHandshake, k
  <1>2. Done(s) => Done(UpdateFromServer(s, m))
    BY <1>1 DEF SameHandshake, HandshakeFromServer, Done
  <1>3. m.cmd \notin NickErrors \cup MotdEnds => SameHandshake(UpdateFromServer(s, m), s)
    BY <1>1 DEF SameHandshake, HandshakeFromServer
  <1>4. \A t \in Session : SameHandshake(s, t) =>
            SameHandshake(UpdateFromServer(s, m), UpdateFromServer(t, m))
    <2>1. \A u \in Session :
             LET h == HandshakeFromServer(u, m) IN
               /\ h.haveUser = u.haveUser
               /\ h.haveNick = IF ~Done(u) /\ m.cmd \in NickErrors THEN FALSE ELSE u.haveNick
               /\ h.haveMOTD = IF ~Done(u) /\ m.cmd \in MotdEnds THEN TRUE ELSE u.haveMOTD
      BY DEF HandshakeFromServer, Session, NickErrors, MotdEnds
    <2>2. \A t \in Session : SameHandshake(s, t) => Done(s) = Done(t)
      BY DEF SameHandshake, Done
    <2>3. \A t \in Session : SameHandshake(s, t) =>
              SameHandshake(HandshakeFromServer(s, m), HandshakeFromServer(t, m))
      BY <2>1, <2>2 DEF SameHandshake
    <2> QED BY <1>1, <2>3 DEF SameHandshake
  <1> QED BY <1>1, <1>2, <1>3, <1>4

\* The same of a message of the client, which only NICK and USER concern.
LEMMA FlagsFromClient ==
    ASSUME NEW s \in Session, NEW m
    PROVE  /\ Done(s) => Done(UpdateFromClient(s, m))
           /\ m.cmd \notin {"USER", "NICK"} => UpdateFromClient(s, m) = s
           /\ \A t \in Session : SameHandshake(s, t) =>
                 SameHandshake(UpdateFromClient(s, m), UpdateFromClient(t, m))
  <1>1. Done(s) => Done(UpdateFromClient(s, m))
    BY DEF UpdateFromClient, HandshakeFromClient
  <1>2. m.cmd \notin {"USER", "NICK"} => UpdateFromClient(s, m) = s
    BY DEF UpdateFromClient, HandshakeFromClient
  <1>3. \A t \in Session : SameHandshake(s, t) =>
            SameHandshake(UpdateFromClient(s, m), UpdateFromClient(t, m))
    BY DEF SameHandshake, UpdateFromClient, HandshakeFromClient, Done, Session
  <1> QED BY <1>1, <1>2, <1>3

-----------------------------------------------------------------------------
(* Which connection outlives which, and what they agree on                 *)

OutlivesOK(q) ==
    /\ q.client.open => q.server.open
    /\ q.server.open /\ ~q.client.open => Done(q.server.session)

\* The two invariants, of any Proxy struct.
LinksOK(q) ==
    /\ OutlivesOK(q)
    /\ q.server.open /\ ~Done(q.server.session) =>
           SameHandshake(q.client.session, q.server.session)

\* Dropping the client, or both, always leaves the connections in order.
LEMMA DropLinks ==
    ASSUME NEW q \in ProxyStruct
    PROVE  LinksOK(dropClient(q)) /\ LinksOK(reset(q))
  <1>1. /\ q.client \in Connection /\ q.server \in Connection
        /\ ~shutdown(q.client).open /\ ~shutdown(q.server).open
    BY DEF ProxyStruct, shutdown, emptyConnection
  <1>2. /\ dropClient(q).client = shutdown(q.client)
        /\ dropClient(q).server = IF Done(q.server.session) THEN q.server
                                                            ELSE shutdown(q.server)
        /\ reset(q).client = shutdown(q.client)
        /\ reset(q).server = shutdown(q.server)
    BY DEF ProxyStruct, dropClient, reset
  <1> QED BY <1>1, <1>2 DEF LinksOK, OutlivesOK

\* sendClient keeps them in order if the server's session has already seen
\* what the client's is about to see.
LEMMA SendClientLinks ==
    ASSUME NEW q \in ProxyStruct, NEW m \in ServerMessages, OutlivesOK(q),
           q.server.open /\ ~Done(q.server.session) =>
               SameHandshake(UpdateFromServer(q.client.session, m), q.server.session)
    PROVE  LinksOK(sendClient(q, m))
  <1>1. CASE WriteOk(q.client)
    <2>1. /\ sendClient(q, m).client.open = q.client.open
          /\ sendClient(q, m).client.session = UpdateFromServer(q.client.session, m)
          /\ sendClient(q, m).server = q.server
      BY <1>1 DEF sendClient, ProxyStruct, Connection
    <2> QED BY <2>1 DEF LinksOK, OutlivesOK
  <1>2. CASE ~WriteOk(q.client) /\ q.client.open
    BY <1>2, DropLinks DEF sendClient
  <1>3. CASE ~q.client.open
    BY <1>3 DEF sendClient, WriteOk, LinksOK, OutlivesOK
  <1> QED BY <1>1, <1>2, <1>3

\* The same of sendServer, where the client's session is ahead.
LEMMA SendServerLinks ==
    ASSUME NEW q \in ProxyStruct, NEW m, OutlivesOK(q),
           q.server.open /\ ~Done(UpdateFromClient(q.server.session, m)) =>
               SameHandshake(q.client.session, UpdateFromClient(q.server.session, m))
    PROVE  LinksOK(sendServer(q, m))
  <1>1. CASE WriteOk(q.server)
    <2>1. /\ sendServer(q, m).server.open = q.server.open
          /\ sendServer(q, m).server.session = UpdateFromClient(q.server.session, m)
          /\ sendServer(q, m).client = q.client
      BY <1>1 DEF sendServer, ProxyStruct, Connection
    <2>2. Done(q.server.session) => Done(UpdateFromClient(q.server.session, m))
      BY FlagsFromClient DEF ProxyStruct, Connection
    <2> QED BY <2>1, <2>2 DEF LinksOK, OutlivesOK
  <1>2. CASE ~WriteOk(q.server) /\ q.server.open
    BY <1>2, DropLinks DEF sendServer
  <1>3. CASE ~q.server.open
    BY <1>3 DEF sendServer, WriteOk, LinksOK, OutlivesOK
  <1> QED BY <1>1, <1>2, <1>3

\* What the first lines of the two handlers change.
LEMMA HeardFields ==
    ASSUME NEW q \in ProxyStruct, NEW m
    PROVE  /\ fromClient(q, m).server = q.server
           /\ fromClient(q, m).client.open = q.client.open
           /\ fromClient(q, m).client.session = UpdateFromClient(q.client.session, m)
           /\ fromServer(q, m).client = q.client
           /\ fromServer(q, m).server.open = q.server.open
           /\ fromServer(q, m).server.session = UpdateFromServer(q.server.session, m)
  BY DEF fromClient, fromServer, clientHeard, serverHeard, updateDeadlines,
         ProxyStruct, Connection

\* A message of the server that is passed on to the client.
LEMMA ForwardLinks ==
    ASSUME NEW q \in ProxyStruct, NEW m \in ServerMessages, LinksOK(q)
    PROVE  LinksOK(sendClient(fromServer(q, m), m))
  <1> DEFINE r == fromServer(q, m)
  <1>1. r \in ProxyStruct /\ q.client.session \in Session /\ q.server.session \in Session
    BY ProxyTypes DEF ProxyStruct, Connection
  <1>2. OutlivesOK(r)
    BY <1>1, HeardFields, FlagsFromServer DEF LinksOK, OutlivesOK
  <1>3. r.server.open /\ ~Done(r.server.session) =>
            SameHandshake(UpdateFromServer(r.client.session, m), r.server.session)
    BY <1>1, HeardFields, FlagsFromServer DEF LinksOK
  <1> QED BY <1>1, <1>2, <1>3, SendClientLinks

\* A message of the client that is passed on to the server.
LEMMA BackwardLinks ==
    ASSUME NEW q \in ProxyStruct, NEW m, LinksOK(q)
    PROVE  LinksOK(sendServer(fromClient(q, m), m))
  <1> DEFINE r == fromClient(q, m)
  <1>1. r \in ProxyStruct /\ q.client.session \in Session /\ q.server.session \in Session
    BY ProxyTypes DEF ProxyStruct, Connection
  <1>2. OutlivesOK(r)
    BY HeardFields DEF LinksOK, OutlivesOK
  <1>3. Done(q.server.session) => Done(UpdateFromClient(q.server.session, m))
    BY <1>1, FlagsFromClient
  <1>4. r.server.open /\ ~Done(UpdateFromClient(r.server.session, m)) =>
            SameHandshake(r.client.session, UpdateFromClient(r.server.session, m))
    BY <1>1, <1>3, HeardFields, FlagsFromClient DEF LinksOK
  <1> QED BY <1>1, <1>2, <1>4, SendServerLinks

\* Messages that do not concern the handshake, in either direction, and
\* messages of the client when the server's handshake is done.
LEMMA QuietLinks ==
    ASSUME NEW q \in ProxyStruct, LinksOK(q)
    PROVE  /\ \A m \in ServerMessages : m.cmd \notin NickErrors \cup MotdEnds =>
                  LinksOK(fromServer(q, m)) /\ LinksOK(sendClient(q, m))
           /\ \A m : m.cmd \notin {"USER", "NICK"} =>
                  LinksOK(fromClient(q, m)) /\ LinksOK(sendServer(q, m))
           /\ \A m : Done(q.server.session) => LinksOK(fromClient(q, m))
  <1>1. q.client.session \in Session /\ q.server.session \in Session
    BY DEF ProxyStruct, Connection
  <1>2. ASSUME NEW m \in ServerMessages, m.cmd \notin NickErrors \cup MotdEnds
        PROVE  LinksOK(fromServer(q, m)) /\ LinksOK(sendClient(q, m))
    <2>1. /\ SameHandshake(UpdateFromServer(q.server.session, m), q.server.session)
          /\ SameHandshake(UpdateFromServer(q.client.session, m), q.client.session)
      BY <1>1, <1>2, FlagsFromServer
    <2>2. LinksOK(fromServer(q, m))
      BY <2>1, HeardFields DEF LinksOK, OutlivesOK, SameHandshake, Done
    <2>3. LinksOK(sendClient(q, m))
      BY <2>1, SendClientLinks DEF LinksOK, SameHandshake
    <2> QED BY <2>2, <2>3
  <1>3. ASSUME NEW m, m.cmd \notin {"USER", "NICK"}
        PROVE  LinksOK(fromClient(q, m)) /\ LinksOK(sendServer(q, m))
    <2>1. /\ UpdateFromClient(q.server.session, m) = q.server.session
          /\ UpdateFromClient(q.client.session, m) = q.client.session
      BY <1>1, <1>3, FlagsFromClient
    <2>2. LinksOK(fromClient(q, m))
      BY <2>1, HeardFields DEF LinksOK, OutlivesOK
    <2>3. LinksOK(sendServer(q, m))
      BY <2>1, SendServerLinks DEF LinksOK
    <2> QED BY <2>2, <2>3
  <1>4. ASSUME NEW m, Done(q.server.session)
        PROVE  LinksOK(fromClient(q, m))
    BY <1>4, HeardFields DEF LinksOK, OutlivesOK
  <1> QED BY <1>2, <1>3, <1>4

\* Only whether connections are open and their flags matter.
LEMMA SameLinks ==
    ASSUME NEW q, NEW r, LinksOK(q),
           r.client.open = q.client.open, r.server.open = q.server.open,
           SameHandshake(r.client.session, q.client.session),
           SameHandshake(r.server.session, q.server.session)
    PROVE  LinksOK(r)
  BY DEF LinksOK, OutlivesOK, SameHandshake, Done

\* checkTimeout keeps the connections in order.
LEMMA CheckTimeoutLinks ==
    ASSUME NEW q \in ProxyStruct, LinksOK(q)
    PROVE  LinksOK(checkServer(checkClient(q)))
  <1>1. /\ Bare("PING") \in ServerMessages
        /\ Bare("PING").cmd \notin NickErrors \cup MotdEnds \cup {"USER", "NICK"}
    BY DEF Bare, Msg, ServerMessages, BareCmds, NickErrors, MotdEnds
  <1>2. LinksOK(checkClient(q)) /\ checkClient(q) \in ProxyStruct
    <2> DEFINE s == sendClient(q, Bare("PING"))
               r == [s EXCEPT !.client.pingSent = TRUE, !.client.overdue = FALSE,
                              !.client.pinged = WriteOk(q.client)]
    <2>1. s \in ProxyStruct /\ LinksOK(s)
      BY <1>1, ProxyTypes, QuietLinks
    <2>2. WriteOk(q.client) \in BOOLEAN
      BY ConnectionTypes DEF ProxyStruct
    <2> HIDE DEF s
    <2>3. /\ r \in ProxyStruct
          /\ r.client.open = s.client.open /\ r.client.session = s.client.session
          /\ r.server = s.server
      BY <2>1, <2>2 DEF ProxyStruct, Connection
    <2>4. LinksOK(r)
      BY <2>1, <2>3 DEF LinksOK, OutlivesOK
    <2> QED BY <2>3, <2>4, ProxyTypes, DropLinks DEF checkClient, s
  <1> SUFFICES ASSUME NEW k \in ProxyStruct, LinksOK(k) PROVE LinksOK(checkServer(k))
    BY <1>2
  <1> DEFINE s == sendServer(k, Bare("PING"))
             r == [s EXCEPT !.server.pingSent = TRUE, !.server.overdue = FALSE,
                            !.server.pinged = WriteOk(k.server)]
  <1>3. s \in ProxyStruct /\ LinksOK(s)
    BY <1>1, ProxyTypes, QuietLinks
  <1> HIDE DEF s
  <1>4. /\ r.server.open = s.server.open /\ r.server.session = s.server.session
        /\ r.client = s.client
    BY <1>3 DEF ProxyStruct, Connection
  <1>5. LinksOK(r)
    BY <1>3, <1>4 DEF LinksOK, OutlivesOK
  <1> QED BY <1>5, DropLinks DEF checkServer, s

\* Every step keeps the connections in order.
LEMMA LinkStep ==
    ASSUME TypeOK, LinksOK(p), [AnyStep]_vars
    PROVE  LinksOK(p')
  <1> USE MessagesAssumption
  <1>0. p \in ProxyStruct
    BY DEF TypeOK
  <1>1. CASE Accept
    <2> DEFINE d == dropClient(p)
               q == [d EXCEPT !.client = setup(@)]
    <2>1. d \in ProxyStruct /\ LinksOK(d)
      BY <1>0, ProxyTypes, DropLinks
    <2>2. ~d.client.open
      BY <1>0 DEF dropClient, shutdown, emptyConnection, ProxyStruct
    <2> HIDE DEF d
    <2>3. q \in ProxyStruct /\ q.server = d.server
      BY <2>1, ConnectionTypes DEF ProxyStruct
    <2>4. q.client.session = NewSession /\ q.client.open
      BY <2>1 DEF ProxyStruct, Connection, setup, updateDeadlines
    <2> HIDE DEF q
    <2>5. CASE q.server.open /\ p' = q
      BY <2>1, <2>2, <2>3, <2>4, <2>5 DEF LinksOK, OutlivesOK
    <2>6. CASE p' = dropClient(q)
      BY <2>3, <2>6, DropLinks
    <2>7. CASE p' = [q EXCEPT !.server = setup(@)]
      <3>1. /\ p'.server.open /\ p'.server.session = NewSession
            /\ p'.client = q.client
        BY <2>3, <2>7 DEF ProxyStruct, Connection, setup, updateDeadlines
      <3> QED BY <2>4, <3>1 DEF LinksOK, OutlivesOK, SameHandshake
    <2> QED BY <1>1, <2>5, <2>6, <2>7 DEF Accept, q, d
  <1>2. CASE ClientGone \/ ServerGone \/ Stop
    BY <1>0, <1>2, DropLinks DEF ClientGone, ServerGone, Stop
  <1>3. CASE Tick
    BY <1>0, <1>3, CheckTimeoutLinks DEF Tick
  <1>4. CASE Restart
    BY <1>4 DEF Restart, NewProxy, emptyConnection, LinksOK, OutlivesOK
  <1>5. ASSUME NEW m \in ClientMsgs, ClientInvalid(m)
        PROVE  LinksOK(p')
    BY <1>0, <1>5, OwnMessages, ProxyTypes, DropLinks DEF ClientInvalid
  <1>6. ASSUME NEW m \in ClientMsgs, ClientIdles(m)
        PROVE  LinksOK(p')
    BY <1>0, <1>6, QuietLinks, HeardFields DEF ClientIdles, HandshakeCmds
  <1>7. ASSUME NEW m \in ClientMsgs, ClientRegisters(m)
        PROVE  LinksOK(p')
    BY <1>0, <1>7, BackwardLinks DEF ClientRegisters
  <1>8. ASSUME NEW m \in ClientMsgs, ClientReturns(m)
        PROVE  LinksOK(p')
    <2> DEFINE q == fromClient(p, m)
               r == [q EXCEPT !.client.session.nick = q.server.session.nick]
    <2>1. q \in ProxyStruct /\ Done(q.server.session) /\ LinksOK(q)
      BY <1>0, <1>8, ProxyTypes, QuietLinks, HeardFields DEF ClientReturns
    <2> HIDE DEF q
    <2>2. /\ r \in ProxyStruct
          /\ r.server = q.server
          /\ r.client.open = q.client.open
          /\ SameHandshake(r.client.session, q.client.session)
      BY <2>1 DEF ProxyStruct, Connection, Session, SameHandshake
    <2>3. LinksOK(r)
      BY <2>1, <2>2, SameLinks DEF SameHandshake
    <2> HIDE DEF r
    <2>4. LinksOK(sendServer(r, Bare("MOTD")))
      BY <2>2, <2>3, QuietLinks DEF Bare, Msg
    <2> QED BY <1>8, <2>1, <2>4, DropLinks DEF ClientReturns, q, r
  <1>9. ASSUME NEW m \in ClientMsgs, ClientCommand(m)
        PROVE  LinksOK(p')
    <2> DEFINE q == fromClient(p, m)
    <2>1. q \in ProxyStruct /\ LinksOK(sendServer(q, m))
      BY <1>0, ProxyTypes, BackwardLinks
    <2>2. m.cmd \in {"PING", "PONG", "QUIT"} => LinksOK(q)
      BY <1>0, QuietLinks
    <2>3. Bare("PONG").cmd \notin NickErrors \cup MotdEnds
      BY DEF Bare, Msg, NickErrors, MotdEnds
    <2>4. m.cmd = "PING" => LinksOK(sendClient(q, Bare("PONG")))
      BY <2>1, <2>2, <2>3, OwnMessages, QuietLinks
    <2> QED BY <1>9, <2>1, <2>2, <2>4, DropLinks DEF ClientCommand
  <1>10. ASSUME NEW m \in ClientMsgs, ClientJoin(m)
         PROVE  LinksOK(p')
    BY <1>0, <1>10, QuietLinks, BackwardLinks DEF ClientJoin
  <1>11. ASSUME NEW m \in ClientMsgs, ClientRejoin(m)
         PROVE  LinksOK(p')
    <2> DEFINE q == fromClient(p, m)
               r == [q EXCEPT !.preLogSession = GetChannel(@, m.target)]
               j == Msg("JOIN", q.client.session.nick, m.target, None)
    <2>1. q \in ProxyStruct /\ LinksOK(q)
      BY <1>0, <1>11, ProxyTypes, QuietLinks DEF ClientRejoin
    <2>2. m.target \in Channels
      BY <1>11 DEF ClientRejoin, HaveChannel
    <2> HIDE DEF q
    <2>3. r \in ProxyStruct
      BY <2>1, <2>2 DEF ProxyStruct, GetChannel, Got, NewChannelState, Session, ChannelState
    <2>4. r.client = q.client /\ r.server = q.server
      BY <2>1 DEF ProxyStruct
    <2>5. LinksOK(r)
      BY <2>1, <2>4 DEF LinksOK, OutlivesOK
    <2>6. j \in ServerMessages
      BY <2>1, <2>2, OwnMessages DEF ProxyStruct, Connection, Session
    <2>7. j.cmd \notin NickErrors \cup MotdEnds
      BY DEF Msg, NickErrors, MotdEnds
    <2> HIDE DEF r, j
    <2>8. LinksOK(sendClient(r, j))
      BY <2>3, <2>5, <2>6, <2>7, QuietLinks
    <2> QED BY <1>11, <2>8 DEF ClientRejoin, q, r, j
  <1>12. ASSUME NEW m \in ServerMessages, ServerInvalid(m)
         PROVE  LinksOK(p')
    BY <1>0, <1>12, DropLinks DEF ServerInvalid
  <1>13. ASSUME NEW m \in ServerMessages, ServerKeepalive(m)
         PROVE  LinksOK(p')
    <2>1. LinksOK(fromServer(p, m)) /\ fromServer(p, m) \in ProxyStruct
      BY <1>0, <1>13, QuietLinks, ProxyTypes DEF ServerKeepalive, NickErrors, MotdEnds
    <2> QED BY <1>13, <2>1, QuietLinks DEF ServerKeepalive, Bare, Msg
  <1>14. ASSUME NEW m \in ServerMessages,
                ServerForward(m) \/ ServerEndOfMotd(m) \/ ServerEndOfNames(m)
         PROVE  LinksOK(p')
    BY <1>0, <1>14, ForwardLinks DEF ServerForward, ServerEndOfMotd, ServerEndOfNames
  <1>15. ASSUME NEW m \in ServerMessages, ServerWelcome(m)
         PROVE  LinksOK(p')
    <2> DEFINE q == fromServer(p, m)
               r == [q EXCEPT !.server.session.nick = m.arg]
               s == sendClient(r, m)
               t == [s EXCEPT !.client.session.nick = m.arg]
    <2>1. q \in ProxyStruct /\ LinksOK(q)
      BY <1>0, <1>15, ProxyTypes, QuietLinks DEF ServerWelcome, NickErrors, MotdEnds
    <2>2. m.arg \in Names
      BY <1>15, MessageFields DEF ServerWelcome
    <2> HIDE DEF q
    <2>3. /\ r \in ProxyStruct
          /\ r.client = q.client
          /\ r.server.open = q.server.open
          /\ SameHandshake(r.server.session, q.server.session)
      BY <2>1, <2>2 DEF ProxyStruct, Connection, Session, SameHandshake
    <2>4. LinksOK(r)
      BY <2>1, <2>3, SameLinks DEF SameHandshake
    <2> HIDE DEF r
    <2>5. s \in ProxyStruct /\ LinksOK(s)
      BY <1>15, <2>3, <2>4, ProxyTypes, QuietLinks DEF ServerWelcome, NickErrors, MotdEnds
    <2> HIDE DEF s
    <2>6. /\ t.server = s.server
          /\ t.client.open = s.client.open
          /\ SameHandshake(t.client.session, s.client.session)
      BY <2>5 DEF ProxyStruct, Connection, Session, SameHandshake
    <2>7. LinksOK(t)
      BY <2>5, <2>6, SameLinks DEF SameHandshake
    <2> QED BY <1>15, <2>1, <2>5, <2>7, DropLinks DEF ServerWelcome, q, r, s
  <1>16. ASSUME NEW m \in ServerMessages, ServerInfo(m)
         PROVE  LinksOK(p')
    <2> DEFINE f == fromServer(p, m)
               q == [f EXCEPT !.msgCache = @ \cup {m.cmd}]
               s == sendClient(q, m)
    <2>0. m.cmd \in InfoCmds /\ m.cmd \notin NickErrors \cup MotdEnds
      BY <1>16 DEF ServerInfo, InfoCmds, NickErrors, MotdEnds
    <2>1. f \in ProxyStruct /\ LinksOK(f)
      BY <1>0, <2>0, ProxyTypes, QuietLinks
    <2> HIDE DEF f
    <2>2. q \in ProxyStruct /\ q.client = f.client /\ q.server = f.server
      BY <2>0, <2>1 DEF ProxyStruct
    <2>3. LinksOK(q)
      BY <2>1, <2>2 DEF LinksOK, OutlivesOK
    <2> HIDE DEF q
    <2>4. s \in ProxyStruct /\ LinksOK(s)
      BY <2>0, <2>2, <2>3, ProxyTypes, QuietLinks
    <2> HIDE DEF s
    <2>5. p' = [s EXCEPT !.haveMsgCache = @ \/ m.cmd = "RPL_MYINFO"]
      BY <1>16 DEF ServerInfo, f, q, s
    <2>6. p'.client = s.client /\ p'.server = s.server
      BY <2>4, <2>5 DEF ProxyStruct
    <2> QED BY <2>4, <2>6 DEF LinksOK, OutlivesOK
  <1>17. ASSUME NEW m \in ServerMessages, ServerText(m) \/ ServerMembership(m)
         PROVE  LinksOK(p')
    <2>1. m.cmd \notin NickErrors \cup MotdEnds
      BY <1>17 DEF ServerText, ServerMembership, TextCmds, MembershipCmds, NickErrors, MotdEnds
    <2>2. LinksOK(fromServer(p, m))
      BY <1>0, <2>1, QuietLinks
    <2> QED BY <1>0, <1>17, <2>2, ForwardLinks DEF ServerText, ServerMembership
  <1>18. CASE rejoinChannel
    <2>1. CASE ~WriteOk(p.client)
      <3> DEFINE m == Msg("RPL_ENDOFNAMES", None, task.name, None)
      <3>1. m \in ServerMessages
        BY <1>18, OwnMessages DEF rejoinChannel, TypeOK, Tasks
      <3>2. m.cmd \notin NickErrors \cup MotdEnds
        BY DEF Msg, NickErrors, MotdEnds
      <3> QED BY <1>0, <1>18, <2>1, <3>1, <3>2, QuietLinks DEF rejoinChannel
    <2>2. CASE WriteOk(p.client)
      <3>1. p' = [p EXCEPT !.client.session.channels[task.name] =
                               Told(Got(@), p.preLogSession.channels[task.name])]
        BY <1>18, <2>2 DEF rejoinChannel
      <3>2. /\ p'.server = p.server /\ p'.client.open = p.client.open
            /\ SameHandshake(p'.client.session, p.client.session)
        BY <1>0, <3>1 DEF ProxyStruct, Connection, Session, SameHandshake
      <3> QED BY <3>2, SameLinks DEF SameHandshake
    <2> QED BY <2>1, <2>2
  <1>19. CASE ReplaySend \/ ReplayAborts
    <2>1. Log[task.next] \in ServerMessages /\ Log[task.next].cmd \in LoggedCmds
      BY <1>19, CurrentMessage DEF ReplaySend, ReplayAborts
    <2>2. Log[task.next].cmd \notin NickErrors \cup MotdEnds
      BY <2>1 DEF LoggedCmds, NickErrors, MotdEnds
    <2> QED BY <1>0, <1>19, <2>1, <2>2, QuietLinks DEF ReplaySend, ReplayAborts
  <1>20. CASE ReplayFails \/ ReplayEnds \/ UNCHANGED vars
    BY <1>20 DEF ReplayFails, ReplayEnds, vars
  <1>21. CASE ClientDies \/ ServerDies \/ ClientDeadline \/ ServerDeadline
    <2>1. /\ p'.client.open = p.client.open /\ p'.client.session = p.client.session
          /\ p'.server.open = p.server.open /\ p'.server.session = p.server.session
      BY <1>0, <1>21 DEF ClientDies, ServerDies, ClientDeadline, ServerDeadline,
                         ProxyStruct, Connection
    <2> QED BY <2>1 DEF LinksOK, OutlivesOK
  <1> QED
    BY <1>1, <1>2, <1>3, <1>4, <1>5, <1>6, <1>7, <1>8, <1>9, <1>10, <1>11, <1>12, <1>13,
       <1>14, <1>15, <1>16, <1>17, <1>18, <1>19, <1>20, <1>21
       DEF AnyStep, Lifecycle, ClientEvent, handleClientEvent, handleServerEvent,
           HandlerStep, Environment

\* The inductive invariant of the two connections.
LinkInv == LinksOK(p)

\* It holds in every reachable state.
LEMMA LinkInvariant == Spec => []LinkInv
  <1>1. Init => LinkInv
    BY DEF Init, NewProxy, emptyConnection, LinkInv, LinksOK, OutlivesOK
  <1>2. TypeOK /\ LinkInv /\ [Next]_vars => LinkInv'
    BY LinkStep, NextIsAnyStep DEF LinkInv, LinksOK, OutlivesOK, SameHandshake, Done
  <1> QED BY <1>1, <1>2, TypeCorrect, PTL DEF Spec

\* Whatever the peers send and whichever writes fail, a client never stays
\* without a server, and a server connection that waits without a client has
\* completed its handshake (dropClient, reset and Run's accept case).
THEOREM OutlivesTheorem == Spec => []ServerOutlivesClient
  <1>1. LinkInv => ServerOutlivesClient
    BY DEF LinkInv, LinksOK, OutlivesOK, ServerOutlivesClient
  <1> QED BY <1>1, LinkInvariant, PTL

\* handleHandshakeMessage's comment is true: as long as the server's handshake
\* is not done, client and server agree on the handshake state.
THEOREM AgreementTheorem == Spec => []HandshakeAgreement
  <1>1. LinkInv => HandshakeAgreement
    BY DEF LinkInv, LinksOK, SameHandshake, HandshakeAgreement
  <1> QED BY <1>1, LinkInvariant, PTL

-----------------------------------------------------------------------------
(* A client never costs the session on the server                          *)

\* Logged in to a server that is up.
Steady(q) == q.server.open /\ q.server.alive /\ Done(q.server.session)

\* None of the proxy's methods but reset takes a steady server away.
LEMMA SteadyMethods ==
    ASSUME NEW q \in ProxyStruct, Steady(q)
    PROVE  /\ dropClient(q).server = q.server
           /\ \A m \in ServerMessages : sendClient(q, m).server = q.server
           /\ \A m : fromClient(q, m).server = q.server
           /\ \A m : Steady(sendServer(q, m))
           /\ \A m \in ServerMessages : Steady(fromServer(q, m))
  <1>1. dropClient(q).server = q.server
    BY DEF dropClient, ProxyStruct, Steady
  <1>2. \A m \in ServerMessages : sendClient(q, m).server = q.server
    BY <1>1 DEF sendClient, ProxyStruct
  <1>3. \A m : fromClient(q, m).server = q.server
    BY HeardFields
  <1>4. ASSUME NEW m PROVE Steady(sendServer(q, m))
    <2>1. sendServer(q, m) = [q EXCEPT !.server.session = UpdateFromClient(@, m)]
      BY DEF sendServer, WriteOk, Steady
    <2>2. Done(UpdateFromClient(q.server.session, m))
      BY FlagsFromClient DEF Steady, ProxyStruct, Connection
    <2> QED BY <2>1, <2>2 DEF Steady, ProxyStruct, Connection
  <1>5. ASSUME NEW m \in ServerMessages PROVE Steady(fromServer(q, m))
    <2>1. Done(UpdateFromServer(q.server.session, m))
      BY FlagsFromServer DEF Steady, ProxyStruct, Connection
    <2>2. fromServer(q, m).server.alive = q.server.alive
      BY DEF fromServer, serverHeard, updateDeadlines, ProxyStruct, Connection
    <2> QED BY <2>1, <2>2, HeardFields DEF Steady
  <1> QED BY <1>1, <1>2, <1>3, <1>4, <1>5

\* checkTimeout drops a server only after an unanswered PING.
LEMMA SteadyTimeout ==
    ASSUME NEW q \in ProxyStruct, Steady(q), ~(q.server.pingSent /\ q.server.overdue)
    PROVE  Steady(checkServer(checkClient(q)))
  <1>1. Bare("PING") \in ServerMessages
    BY DEF Bare, Msg, ServerMessages, BareCmds
  <1>2. checkClient(q) \in ProxyStruct /\ checkClient(q).server = q.server
    <2> DEFINE s == sendClient(q, Bare("PING"))
               r == [s EXCEPT !.client.pingSent = TRUE, !.client.overdue = FALSE,
                              !.client.pinged = WriteOk(q.client)]
    <2>1. s \in ProxyStruct /\ s.server = q.server
      BY <1>1, ProxyTypes, SteadyMethods
    <2>2. WriteOk(q.client) \in BOOLEAN
      BY ConnectionTypes DEF ProxyStruct
    <2> HIDE DEF s
    <2>3. r \in ProxyStruct /\ r.server = s.server
      BY <2>1, <2>2 DEF ProxyStruct, Connection
    <2> QED BY <2>1, <2>3, ProxyTypes, SteadyMethods DEF checkClient, s
  <1> SUFFICES ASSUME NEW k \in ProxyStruct, Steady(k), ~(k.server.pingSent /\ k.server.overdue)
               PROVE  Steady(checkServer(k))
    BY <1>2 DEF Steady
  <1> DEFINE s == sendServer(k, Bare("PING"))
             r == [s EXCEPT !.server.pingSent = TRUE, !.server.overdue = FALSE,
                            !.server.pinged = WriteOk(k.server)]
  <1>3. s \in ProxyStruct /\ Steady(s)
    BY ProxyTypes, SteadyMethods
  <1> HIDE DEF s
  <1>4. Steady(r)
    BY <1>3 DEF Steady, ProxyStruct, Connection
  <1> QED BY <1>4 DEF checkServer, s

\* A message of a client does not take a steady server away, once the welcome
\* sequence is cached.
LEMMA SteadyClient ==
    ASSUME TypeOK, Steady(p), p.haveMsgCache, NEW m \in ClientMsgs, handleClientEvent(m)
    PROVE  p'.server.open /\ Done(p'.server.session)
  <1>0. p \in ProxyStruct /\ p.client \in Connection
    BY DEF TypeOK, ProxyStruct
  <1>1. /\ fromClient(p, m) \in ProxyStruct
        /\ fromClient(p, m).server = p.server
        /\ Steady(fromClient(p, m))
    BY <1>0, ProxyTypes, SteadyMethods DEF Steady
  <1>2. CASE ClientInvalid(m)
    <2> DEFINE s == sendClient(p, Bare("OTHER"))
    <2>1. s \in ProxyStruct /\ s.server = p.server
      BY <1>0, OwnMessages, ProxyTypes, SteadyMethods
    <2>2. Steady(s)
      BY <2>1 DEF Steady
    <2> HIDE DEF s
    <2>3. dropClient(s).server = s.server
      BY <2>1, <2>2, SteadyMethods
    <2> QED BY <1>2, <2>1, <2>3 DEF ClientInvalid, Steady, s
  <1>3. CASE ClientIdles(m) \/ ClientRegisters(m) \/ ClientJoin(m)
    <2>1. Steady(sendServer(fromClient(p, m), m))
      BY <1>1, SteadyMethods
    <2> QED BY <1>1, <1>3, <2>1 DEF ClientIdles, ClientRegisters, ClientJoin, Steady
  <1>4. CASE ClientReturns(m)
    <2> DEFINE q == fromClient(p, m)
               r == [q EXCEPT !.client.session.nick = q.server.session.nick]
    <2>1. q \in ProxyStruct /\ Steady(q) /\ q.haveMsgCache
      BY <1>0, <1>1 DEF fromClient, ProxyStruct
    <2> HIDE DEF q
    <2>2. r \in ProxyStruct /\ Steady(r)
      BY <2>1 DEF ProxyStruct, Connection, Session, Steady
    <2> HIDE DEF r
    <2>3. Steady(sendServer(r, Bare("MOTD"))) /\ Steady(dropClient(q))
      BY <2>1, <2>2, SteadyMethods DEF Steady
    <2> QED BY <1>4, <2>1, <2>3 DEF ClientReturns, Steady, q, r
  <1>5. CASE ClientCommand(m)
    <2> DEFINE q == fromClient(p, m)
    <2>1. /\ Steady(q) /\ Steady(sendServer(q, m)) /\ Steady(dropClient(q))
          /\ Steady(sendClient(q, Bare("PONG")))
      BY <1>1, OwnMessages, SteadyMethods DEF Steady
    <2> HIDE DEF q
    <2> QED BY <1>5, <2>1 DEF ClientCommand, Steady, q
  <1>6. CASE ClientRejoin(m)
    <2> DEFINE q == fromClient(p, m)
               r == [q EXCEPT !.preLogSession = GetChannel(@, m.target)]
               j == Msg("JOIN", q.client.session.nick, m.target, None)
    <2>1. q \in ProxyStruct /\ q.server = p.server /\ m.target \in Channels
      BY <1>1, <1>6 DEF ClientRejoin, HaveChannel
    <2> HIDE DEF q
    <2>2. r \in ProxyStruct
      BY <2>1 DEF ProxyStruct, GetChannel, Got, NewChannelState, Session, ChannelState
    <2>3. r.server = p.server
      BY <2>1 DEF ProxyStruct
    <2>4. j \in ServerMessages
      BY <2>1, OwnMessages DEF ProxyStruct, Connection, Session
    <2> HIDE DEF r, j
    <2>5. sendClient(r, j).server = p.server
      BY <2>2, <2>3, <2>4, SteadyMethods DEF Steady
    <2> QED BY <1>6, <2>5 DEF ClientRejoin, Steady, q, r, j
  <1> QED BY <1>2, <1>3, <1>4, <1>5, <1>6 DEF handleClientEvent

\* Nor does a message of the server that Validate and the handler of RPL_WELCOME
\* accept.
LEMMA SteadyServer ==
    ASSUME TypeOK, Steady(p), NEW m \in ServerMessages, handleServerEvent(m),
           m.cmd # "INVALID", m.cmd = "RPL_WELCOME" => m.arg # None
    PROVE  p'.server.open /\ Done(p'.server.session)
  <1>0. p \in ProxyStruct /\ p.client \in Connection
    BY DEF TypeOK, ProxyStruct
  <1>1. /\ fromServer(p, m) \in ProxyStruct
        /\ Steady(fromServer(p, m))
        /\ Steady(sendClient(fromServer(p, m), m))
    BY <1>0, ProxyTypes, SteadyMethods DEF Steady
  <1>2. CASE ServerKeepalive(m)
    BY <1>1, <1>2, SteadyMethods DEF ServerKeepalive, Steady
  <1>3. CASE \/ ServerForward(m) \/ ServerEndOfMotd(m) \/ ServerEndOfNames(m)
             \/ ServerText(m) \/ ServerMembership(m)
    BY <1>1, <1>3 DEF ServerForward, ServerEndOfMotd, ServerEndOfNames, ServerText,
                        ServerMembership, Steady
  <1>4. CASE ServerWelcome(m)
    <2> DEFINE q == fromServer(p, m)
               r == [q EXCEPT !.server.session.nick = m.arg]
               s == sendClient(r, m)
    <2>0. m.arg # None
      BY <1>4 DEF ServerWelcome
    <2>1. q \in ProxyStruct /\ Steady(q) /\ m.arg \in Names
      BY <1>1, <1>4, MessageFields DEF ServerWelcome
    <2> HIDE DEF q
    <2>2. r \in ProxyStruct /\ Steady(r)
      BY <2>1 DEF ProxyStruct, Connection, Session, Steady, Done
    <2> HIDE DEF r
    <2>3. s \in ProxyStruct /\ Steady(s)
      BY <2>2, ProxyTypes, SteadyMethods DEF Steady
    <2> HIDE DEF s
    <2>4. [s EXCEPT !.client.session.nick = m.arg].server = s.server
      BY <2>3 DEF ProxyStruct
    <2> QED BY <1>4, <2>0, <2>1, <2>3, <2>4 DEF ServerWelcome, Steady, q, r, s
  <1>5. CASE ServerInfo(m)
    <2> DEFINE f == fromServer(p, m)
               q == [f EXCEPT !.msgCache = @ \cup {m.cmd}]
               s == sendClient(q, m)
    <2>1. f \in ProxyStruct /\ Steady(f) /\ m.cmd \in InfoCmds
      BY <1>1, <1>5 DEF ServerInfo
    <2> HIDE DEF f
    <2>2. q \in ProxyStruct /\ Steady(q)
      BY <2>1 DEF ProxyStruct, Steady
    <2> HIDE DEF q
    <2>3. s \in ProxyStruct /\ Steady(s)
      BY <2>2, ProxyTypes, SteadyMethods DEF Steady
    <2> HIDE DEF s
    <2>4. [s EXCEPT !.haveMsgCache = @ \/ m.cmd = "RPL_MYINFO"].server = s.server
      BY <2>3 DEF ProxyStruct
    <2> QED BY <1>5, <2>3, <2>4 DEF ServerInfo, Steady, f, q, s
  <1>6. ~ServerInvalid(m)
    BY DEF ServerInvalid
  <1> QED BY <1>2, <1>3, <1>4, <1>5, <1>6 DEF handleServerEvent

\* Nor do clients that come and go, the rest of a handler, or the links.
LEMMA SteadyRest ==
    ASSUME TypeOK, Steady(p),
           Accept \/ ClientGone \/ ServerGone \/ HandlerStep \/ Environment
    PROVE  p'.server.open /\ Done(p'.server.session)
  <1>0. p \in ProxyStruct /\ p.client \in Connection
    BY DEF TypeOK, ProxyStruct
  <1>1. CASE Accept
    <2> DEFINE d == dropClient(p)
               q == [d EXCEPT !.client = setup(@)]
    <2>1. d \in ProxyStruct /\ d.server = p.server
      BY <1>0, ProxyTypes, SteadyMethods
    <2> HIDE DEF d
    <2>2. q.server = p.server
      BY <2>1 DEF ProxyStruct
    <2>3. p' = q
      BY <1>1, <2>2 DEF Accept, d, Steady
    <2> QED BY <2>2, <2>3 DEF Steady
  <1>2. CASE ClientGone
    BY <1>0, <1>2, SteadyMethods DEF ClientGone, Steady
  <1>3. CASE ServerGone
    BY <1>3 DEF ServerGone, Steady
  <1>4. CASE rejoinChannel
    <2>1. CASE ~WriteOk(p.client)
      <3>1. Msg("RPL_ENDOFNAMES", None, task.name, None) \in ServerMessages
        BY <1>4, OwnMessages DEF rejoinChannel, TypeOK, Tasks
      <3> QED BY <1>0, <1>4, <2>1, <3>1, SteadyMethods DEF rejoinChannel, Steady
    <2>2. CASE WriteOk(p.client)
      <3>1. p'.server = p.server
        BY <1>0, <1>4, <2>2 DEF rejoinChannel, ProxyStruct
      <3> QED BY <3>1 DEF Steady
    <2> QED BY <2>1, <2>2
  <1>5. CASE ReplaySend \/ ReplayAborts
    <2>1. Log[task.next] \in ServerMessages
      BY <1>5, CurrentMessage DEF ReplaySend, ReplayAborts
    <2> QED BY <1>0, <1>5, <2>1, SteadyMethods DEF ReplaySend, ReplayAborts, Steady
  <1>6. CASE ReplayFails \/ ReplayEnds
    BY <1>6 DEF ReplayFails, ReplayEnds, Steady
  <1>7. CASE Environment
    BY <1>0, <1>7 DEF Environment, ClientDies, ServerDies, ClientDeadline, ServerDeadline,
                       ProxyStruct, Connection, Steady
  <1> QED BY <1>1, <1>2, <1>3, <1>4, <1>5, <1>6, <1>7 DEF HandlerStep

\* None of the harmless steps takes a steady server away.
LEMMA SteadyStep ==
    ASSUME TypeOK, Harmless, Steady(p), p.haveMsgCache,
           ~(p.server.pingSent /\ p.server.overdue)
    PROVE  p'.server.open /\ Done(p'.server.session)
  <1>1. CASE Accept \/ ClientGone \/ ServerGone \/ HandlerStep \/ Environment
    BY <1>1, SteadyRest
  <1>2. CASE Tick
    BY <1>2, SteadyTimeout DEF Tick, TypeOK, Steady
  <1>3. CASE ClientEvent
    BY <1>3, SteadyClient DEF ClientEvent
  <1>4. CASE \E m \in ServerMsgs : RoomFor(m) /\ Accepted(m) /\ handleServerEvent(m)
    BY <1>4, SteadyServer, MessagesAssumption DEF Accepted
  <1> QED BY <1>1, <1>2, <1>3, <1>4 DEF Harmless

\* The promise of an idler: with a server that is up, sends valid messages and
\* answers PINGs, no step of any client, of its link, of the store or of the
\* clock ends the session that has been registered with the server.
THEOREM StaysLoggedInTheorem == Spec => StaysLoggedIn
  <1> DEFINE Kept == SessionEnds /\ p.haveMsgCache /\ ~(p.server.pingSent /\ p.server.overdue)
                     => ~Harmless
  <1>1. TypeOK /\ [Next]_vars => [Kept]_vars
    BY SteadyStep DEF SessionEnds, Steady
  <1>2. Spec => [][Kept]_vars
    <2> HIDE DEF Kept
    <2> QED BY <1>1, TypeCorrect, PTL DEF Spec
  <1> QED BY <1>2 DEF StaysLoggedIn

-----------------------------------------------------------------------------
(* Nobody is dropped who was not asked                                     *)

\* PingedBeforeDrop, of one connection and of any Proxy struct.
PingedConn(c) == c.open /\ c.pingSent => c.pinged

PingedOK(q) == PingedConn(q.client) /\ PingedConn(q.server)

\* A connection that is emptied or heard has no PING outstanding; its session
\* does not matter.
LEMMA PingedConnections ==
    ASSUME NEW c \in Connection, PingedConn(c)
    PROVE  /\ PingedConn(shutdown(c))
           /\ PingedConn(setup(c))
           /\ \A s : PingedConn([c EXCEPT !.session = s])
           /\ \A m : PingedConn(clientHeard(c, m)) /\ PingedConn(serverHeard(c, m))
  <1>1. PingedConn(shutdown(c)) /\ PingedConn(setup(c))
    BY DEF PingedConn, shutdown, setup, emptyConnection, updateDeadlines, Connection
  <1>2. \A s : PingedConn([c EXCEPT !.session = s])
    BY DEF PingedConn, Connection
  <1>3. \A m : PingedConn(clientHeard(c, m)) /\ PingedConn(serverHeard(c, m))
    BY DEF PingedConn, clientHeard, serverHeard, updateDeadlines, Connection
  <1> QED BY <1>1, <1>2, <1>3

\* So the methods of the Proxy struct make no PING out of nothing.
LEMMA PingedMethods ==
    ASSUME NEW q \in ProxyStruct, PingedOK(q)
    PROVE  /\ PingedOK(dropClient(q)) /\ PingedOK(reset(q))
           /\ \A m : PingedOK(sendServer(q, m)) /\ PingedOK(sendClient(q, m))
           /\ \A m : PingedOK(fromClient(q, m)) /\ PingedOK(fromServer(q, m))
  <1>0. q.client \in Connection /\ q.server \in Connection
    BY DEF ProxyStruct
  <1>1. PingedOK(dropClient(q)) /\ PingedOK(reset(q))
    BY <1>0, PingedConnections DEF PingedOK, dropClient, reset, ProxyStruct
  <1>2. \A m : PingedOK(sendServer(q, m))
    <2>1. \A s : PingedOK([q EXCEPT !.server.session = s])
      BY <1>0 DEF PingedOK, PingedConn, ProxyStruct, Connection
    <2> QED BY <1>1, <2>1 DEF sendServer
  <1>3. \A m : PingedOK(sendClient(q, m))
    <2>1. \A s, t : PingedOK([q EXCEPT !.client.session = s, !.preLogSession = t])
      BY <1>0 DEF PingedOK, PingedConn, ProxyStruct, Connection
    <2> QED BY <1>1, <2>1 DEF sendClient
  <1>4. \A m : PingedOK(fromClient(q, m)) /\ PingedOK(fromServer(q, m))
    BY <1>0, PingedConnections DEF PingedOK, fromClient, fromServer, ProxyStruct
  <1> QED BY <1>1, <1>2, <1>3, <1>4

\* checkTimeout sets PingSent with the PING, and on an empty connection if the
\* write fails.
LEMMA PingedTimeout ==
    ASSUME NEW q \in ProxyStruct, PingedOK(q)
    PROVE  PingedOK(checkServer(checkClient(q)))
  <1>1. Bare("PING") \in ServerMessages
    BY DEF Bare, Msg, ServerMessages, BareCmds
  <1>2. checkClient(q) \in ProxyStruct /\ PingedOK(checkClient(q))
    <2> DEFINE s == sendClient(q, Bare("PING"))
               r == [s EXCEPT !.client.pingSent = TRUE, !.client.overdue = FALSE,
                              !.client.pinged = WriteOk(q.client)]
    <2>1. s \in ProxyStruct /\ PingedOK(s)
      BY <1>1, ProxyTypes, PingedMethods
    <2>2. WriteOk(q.client) \in BOOLEAN
      BY ConnectionTypes DEF ProxyStruct
    <2>3. q.client.open /\ ~WriteOk(q.client) => ~s.client.open
      BY DEF sendClient, dropClient, shutdown, emptyConnection, ProxyStruct
    <2> HIDE DEF s
    <2>4. r \in ProxyStruct /\ (q.client.open => PingedOK(r))
      BY <2>1, <2>2, <2>3 DEF PingedOK, PingedConn, ProxyStruct, Connection
    <2> QED BY <2>4, ProxyTypes, PingedMethods DEF checkClient, s
  <1> SUFFICES ASSUME NEW k \in ProxyStruct, PingedOK(k) PROVE PingedOK(checkServer(k))
    BY <1>2
  <1> DEFINE s == sendServer(k, Bare("PING"))
             r == [s EXCEPT !.server.pingSent = TRUE, !.server.overdue = FALSE,
                            !.server.pinged = WriteOk(k.server)]
  <1>3. s \in ProxyStruct /\ PingedOK(s)
    BY ProxyTypes, PingedMethods
  <1>4. WriteOk(k.server) \in BOOLEAN
    BY ConnectionTypes DEF ProxyStruct
  <1>5. k.server.open /\ ~WriteOk(k.server) => ~s.server.open
    BY DEF sendServer, reset, shutdown, emptyConnection, ProxyStruct
  <1> HIDE DEF s
  <1>6. k.server.open => PingedOK(r)
    BY <1>3, <1>4, <1>5 DEF PingedOK, PingedConn, ProxyStruct, Connection
  <1> QED BY <1>6, PingedMethods DEF checkServer, s

\* Every step keeps the invariant.
LEMMA PingedStep ==
    ASSUME TypeOK, PingedOK(p), [Next]_vars
    PROVE  PingedOK(p')
  <1> USE MessagesAssumption
  <1>0. p \in ProxyStruct
    BY DEF TypeOK
  \* Only what is open and asked matters.
  <1>s. ASSUME NEW q, NEW r, PingedOK(q),
               r.client.open = q.client.open, r.client.pingSent = q.client.pingSent,
               r.client.pinged = q.client.pinged, r.server.open = q.server.open,
               r.server.pingSent = q.server.pingSent, r.server.pinged = q.server.pinged
        PROVE  PingedOK(r)
    BY <1>s DEF PingedOK, PingedConn
  <1>1. CASE Accept
    <2> DEFINE d == dropClient(p)
               q == [d EXCEPT !.client = setup(@)]
    <2>1. d \in ProxyStruct /\ PingedOK(d)
      BY <1>0, ProxyTypes, PingedMethods
    <2> HIDE DEF d
    <2>2. q \in ProxyStruct /\ PingedOK(q)
      BY <2>1, ConnectionTypes, PingedConnections DEF ProxyStruct, PingedOK
    <2> HIDE DEF q
    <2>3. PingedOK([q EXCEPT !.server = setup(@)]) /\ PingedOK(dropClient(q))
      BY <2>2, PingedConnections, PingedMethods DEF ProxyStruct, PingedOK
    <2> QED BY <1>1, <2>2, <2>3 DEF Accept, q, d
  <1>2. CASE ClientGone \/ ServerGone \/ Stop
    BY <1>0, <1>2, PingedMethods DEF ClientGone, ServerGone, Stop
  <1>3. CASE Tick
    BY <1>0, <1>3, PingedTimeout DEF Tick
  <1>4. CASE Restart
    BY <1>4 DEF Restart, NewProxy, emptyConnection, PingedOK, PingedConn
  <1>5. ASSUME NEW m
        PROVE  /\ fromClient(p, m) \in ProxyStruct /\ PingedOK(fromClient(p, m))
               /\ PingedOK(sendServer(fromClient(p, m), m))
               /\ PingedOK(dropClient(fromClient(p, m)))
               /\ PingedOK(reset(fromClient(p, m)))
               /\ PingedOK(sendClient(fromClient(p, m), Bare("PONG")))
    BY <1>0, ProxyTypes, PingedMethods
  <1>6. ASSUME NEW m \in ClientMsgs, ClientInvalid(m)
        PROVE  PingedOK(p')
    BY <1>0, <1>6, OwnMessages, ProxyTypes, PingedMethods DEF ClientInvalid
  <1>7. ASSUME NEW m \in ClientMsgs,
               ClientIdles(m) \/ ClientRegisters(m) \/ ClientCommand(m) \/ ClientJoin(m)
        PROVE  PingedOK(p')
    BY <1>5, <1>7 DEF ClientIdles, ClientRegisters, ClientCommand, ClientJoin
  <1>8. ASSUME NEW m \in ClientMsgs, ClientReturns(m)
        PROVE  PingedOK(p')
    <2> DEFINE q == fromClient(p, m)
               r == [q EXCEPT !.client.session.nick = q.server.session.nick]
    <2>1. q \in ProxyStruct /\ PingedOK(q)
      BY <1>5
    <2>2. PingedOK(reset(q)) /\ PingedOK(dropClient(q))
      BY <1>5
    <2> HIDE DEF q
    <2>3. r \in ProxyStruct /\ PingedOK(r)
      BY <2>1, <1>s DEF ProxyStruct, Connection, Session
    <2> HIDE DEF r
    <2>4. PingedOK(sendServer(r, Bare("MOTD")))
      BY <2>3, PingedMethods
    <2> QED BY <1>8, <2>2, <2>4 DEF ClientReturns, q, r
  <1>9. ASSUME NEW m \in ClientMsgs, ClientRejoin(m)
        PROVE  PingedOK(p')
    <2> DEFINE q == fromClient(p, m)
               r == [q EXCEPT !.preLogSession = GetChannel(@, m.target)]
    <2>1. q \in ProxyStruct /\ PingedOK(q) /\ m.target \in Channels
      BY <1>5, <1>9 DEF ClientRejoin, HaveChannel
    <2> HIDE DEF q
    <2>2. r \in ProxyStruct /\ PingedOK(r)
      BY <2>1, <1>s DEF ProxyStruct, GetChannel, Got, NewChannelState, Session, ChannelState
    <2> HIDE DEF r
    <2>3. PingedOK(sendClient(r, Msg("JOIN", q.client.session.nick, m.target, None)))
      BY <2>2, PingedMethods
    <2> QED BY <1>9, <2>3 DEF ClientRejoin, q, r
  <1>10. ASSUME NEW m \in ServerMsgs
         PROVE  /\ fromServer(p, m) \in ProxyStruct /\ PingedOK(fromServer(p, m))
                /\ PingedOK(sendServer(fromServer(p, m), Bare("PONG")))
                /\ PingedOK(sendClient(fromServer(p, m), m))
                /\ PingedOK(reset(fromServer(p, m)))
    BY <1>0, ProxyTypes, PingedMethods
  <1>11. ASSUME NEW m \in ServerMsgs,
                \/ ServerKeepalive(m) \/ ServerForward(m) \/ ServerEndOfMotd(m)
                \/ ServerEndOfNames(m) \/ ServerText(m) \/ ServerMembership(m)
         PROVE  PingedOK(p')
    BY <1>10, <1>11 DEF ServerKeepalive, ServerForward, ServerEndOfMotd, ServerEndOfNames,
                        ServerText, ServerMembership
  <1>12. ASSUME NEW m \in ServerMsgs, ServerInvalid(m)
         PROVE  PingedOK(p')
    BY <1>0, <1>12, PingedMethods DEF ServerInvalid
  <1>13. ASSUME NEW m \in ServerMsgs, ServerWelcome(m)
         PROVE  PingedOK(p')
    <2> DEFINE q == fromServer(p, m)
               r == [q EXCEPT !.server.session.nick = m.arg]
               s == sendClient(r, m)
    <2>1. q \in ProxyStruct /\ PingedOK(q) /\ PingedOK(reset(q))
      BY <1>10
    <2>2. m.arg \in Names
      BY <1>13, MessageFields DEF ServerWelcome
    <2> HIDE DEF q
    <2>3. r \in ProxyStruct /\ PingedOK(r)
      BY <2>1, <2>2, <1>s DEF ProxyStruct, Connection, Session
    <2> HIDE DEF r
    <2>4. s \in ProxyStruct /\ PingedOK(s)
      BY <2>3, ProxyTypes, PingedMethods
    <2> HIDE DEF s
    <2>5. PingedOK([s EXCEPT !.client.session.nick = m.arg])
      BY <2>4, <1>s DEF ProxyStruct, Connection, Session
    <2> QED BY <1>13, <2>1, <2>4, <2>5 DEF ServerWelcome, q, r, s
  <1>14. ASSUME NEW m \in ServerMsgs, ServerInfo(m)
         PROVE  PingedOK(p')
    <2> DEFINE f == fromServer(p, m)
               q == [f EXCEPT !.msgCache = @ \cup {m.cmd}]
               s == sendClient(q, m)
    <2>1. f \in ProxyStruct /\ PingedOK(f)
      BY <1>10
    <2> HIDE DEF f
    <2>2. q \in ProxyStruct /\ PingedOK(q)
      BY <1>14, <2>1, <1>s DEF ProxyStruct, ServerInfo
    <2> HIDE DEF q
    <2>3. s \in ProxyStruct /\ PingedOK(s)
      BY <2>2, ProxyTypes, PingedMethods
    <2> HIDE DEF s
    <2>4. PingedOK([s EXCEPT !.haveMsgCache = @ \/ m.cmd = "RPL_MYINFO"])
      BY <2>3, <1>s DEF ProxyStruct
    <2> QED BY <1>14, <2>4 DEF ServerInfo, f, q, s
  <1>15. CASE rejoinChannel
    <2>1. PingedOK([p EXCEPT !.client.session.channels[task.name] =
                        Told(Got(@), p.preLogSession.channels[task.name])])
      BY <1>0, <1>s DEF ProxyStruct, Connection
    <2> QED BY <1>0, <1>15, <2>1, PingedMethods DEF rejoinChannel
  <1>16. CASE ReplaySend \/ ReplayAborts
    BY <1>0, <1>16, PingedMethods DEF ReplaySend, ReplayAborts
  <1>17. CASE ReplayFails \/ ReplayEnds \/ UNCHANGED vars
    BY <1>17 DEF ReplayFails, ReplayEnds, vars
  <1>18. CASE ClientDies \/ ServerDies \/ ClientDeadline \/ ServerDeadline
    BY <1>0, <1>18, <1>s DEF ClientDies, ServerDies, ClientDeadline, ServerDeadline,
                             ProxyStruct, Connection
  <1> QED
    BY <1>1, <1>2, <1>3, <1>4, <1>6, <1>7, <1>8, <1>9, <1>11, <1>12, <1>13, <1>14, <1>15,
       <1>16, <1>17, <1>18
       DEF Next, Lifecycle, ClientEvent, ServerEvent, handleClientEvent, handleServerEvent,
           HandlerStep, Environment

\* checkTimeout drops nobody who was not asked: a PingSent that is left over from
\* an earlier connection, or set by a write that failed, is never acted upon.
THEOREM PingedTheorem == Spec => []PingedBeforeDrop
  <1>1. Init => PingedOK(p)
    BY DEF Init, NewProxy, emptyConnection, PingedOK, PingedConn
  <1>2. TypeOK /\ PingedOK(p) /\ [Next]_vars => PingedOK(p)'
    BY PingedStep DEF PingedOK, PingedConn
  <1>3. PingedOK(p) => PingedBeforeDrop
    BY DEF PingedOK, PingedConn, PingedBeforeDrop
  <1> QED BY <1>1, <1>2, <1>3, TypeCorrect, PTL DEF Spec

-----------------------------------------------------------------------------
(* preLogSession covers what the client was told                           *)

\* PreLogCoversClient, of two channel states and of two sessions.  The session
\* before the logs never learns our nick, so it never leaves a channel.
ChannelCovers(before, told) ==
    told.joined => /\ before.joined
                   /\ told.users \subseteq before.users
                   /\ told.topic \in {None, before.topic}

Covers(before, told) ==
    /\ before.nick = None
    /\ \A c \in Channels : ChannelCovers(before.channels[c], told.channels[c])

CoversOK(q) == Covers(q.preLogSession, q.client.session)

\* The channel that rejoinChannel is telling the client about is one that
\* preLogSession has.
RejoinOK ==
    task.at = "names" => p.preLogSession.channels[task.name].joined

\* A message changes what was told no more than what covers it.
LEMMA CoversChannels ==
    ASSUME NEW before \in [Channels -> ChannelState], NEW told \in [Channels -> ChannelState],
           NEW m \in ServerMessages,
           \A c \in Channels : ChannelCovers(before[c], told[c])
    PROVE  \A c \in Channels : ChannelCovers(ChannelsFromServer(before, m)[c],
                                             ChannelsFromServer(told, m)[c])
  <1>1. \A b, t \in ChannelState : ChannelCovers(b, t) => ChannelCovers(Got(b), Got(t))
    BY DEF ChannelCovers, Got, NewChannelState, ChannelState
  <1>2. ASSUME NEW b \in ChannelState, NEW t \in ChannelState, ChannelCovers(b, t)
        PROVE  ChannelCovers(ChannelFromServer(b, m), ChannelFromServer(t, m))
    <2>1. \A us, vs : us \subseteq vs => UsersFromServer(us, m) \subseteq UsersFromServer(vs, m)
      BY DEF UsersFromServer
    <2> QED BY <1>2, <2>1 DEF ChannelCovers, ChannelFromServer, ChannelState
  <1>3. \A b \in ChannelState : Got(b) \in ChannelState
    BY DEF Got, NewChannelState, ChannelState
  <1>4. CASE m.cmd \in {"KICK", "PART", "JOIN", "RPL_NAMEREPLY"}
    BY <1>1, <1>2, <1>3, <1>4 DEF ChannelsFromServer
  <1>5. CASE m.cmd = "RPL_TOPIC"
    <2>1. \A b, t \in ChannelState : ChannelCovers(b, t) =>
              ChannelCovers([Got(b) EXCEPT !.topic = m.arg], [Got(t) EXCEPT !.topic = m.arg])
      BY <1>1, <1>3 DEF ChannelCovers, ChannelState
    <2> QED BY <1>5, <2>1 DEF ChannelsFromServer
  <1>6. CASE m.cmd \in {"NICK", "QUIT"}
    <2>1. \A t \in ChannelState : ChannelFromServer(t, m).joined = t.joined
      BY DEF ChannelFromServer, ChannelState
    <2> QED BY <1>2, <1>6, <2>1 DEF ChannelsFromServer, ChannelCovers
  <1>7. CASE m.cmd \notin {"KICK", "PART", "JOIN", "RPL_NAMEREPLY", "RPL_TOPIC", "NICK", "QUIT"}
    BY <1>7 DEF ChannelsFromServer
  <1> QED BY <1>4, <1>5, <1>6, <1>7

\* sendClient's two updates keep the cover; only the client's session can find
\* that it is the one who leaves.
LEMMA CoversUpdate ==
    ASSUME NEW before \in Session, NEW told \in Session, NEW m \in ServerMessages,
           Covers(before, told)
    PROVE  Covers(UpdateFromServer(before, m), UpdateFromServer(told, m))
  <1> DEFINE H(s) == [HandshakeFromServer(s, m) EXCEPT !.channels = ChannelsFromServer(@, m)]
  <1>1. \A s \in Session : /\ H(s) \in Session
                           /\ H(s).nick = s.nick
                           /\ H(s).channels = ChannelsFromServer(s.channels, m)
    <2>1. \A s \in Session : /\ HandshakeFromServer(s, m) \in Session
                             /\ HandshakeFromServer(s, m).nick = s.nick
                             /\ HandshakeFromServer(s, m).channels = s.channels
      BY DEF HandshakeFromServer, Session
    <2>2. \A h \in Session :
             LET k == [h EXCEPT !.channels = ChannelsFromServer(@, m)]
             IN  k \in Session /\ k.nick = h.nick
                   /\ k.channels = ChannelsFromServer(h.channels, m)
      BY ChannelsFromServerType DEF Session
    <2> QED BY <2>1, <2>2
  <1> HIDE DEF H
  <1>2. Covers(H(before), H(told))
    BY <1>1, CoversChannels DEF Covers, Session
  <1>3. UpdateFromServer(before, m) = H(before)
    BY <1>1 DEF UpdateFromServer, AboutMe, IsMe, Covers, H
  <1>4. UpdateFromServer(told, m) = AboutMe(H(told), m)
    BY DEF UpdateFromServer, H
  <1>5. \A c \in Channels :
           \/ AboutMe(H(told), m).channels[c] = H(told).channels[c]
           \/ AboutMe(H(told), m).channels[c] = NoChannel
    BY <1>1 DEF AboutMe, DeleteChannel, Session
  <1> QED BY <1>2, <1>3, <1>4, <1>5 DEF Covers, ChannelCovers, NoChannel

\* A new client has been told nothing.
LEMMA CoversNothing ==
    ASSUME NEW q \in ProxyStruct, CoversOK(q)
    PROVE  /\ Covers(q.preLogSession, NewSession)
           /\ CoversOK(dropClient(q)) /\ CoversOK(reset(q))
  <1>1. Covers(q.preLogSession, NewSession)
    BY DEF CoversOK, Covers, ChannelCovers, NewSession, NoChannel
  <1>2. shutdown(q.client).session \in {q.client.session, NewSession}
    BY DEF shutdown, emptyConnection
  <1>3. \A r \in {dropClient(q), reset(q)} :
            r.client = shutdown(q.client) /\ r.preLogSession = q.preLogSession
    BY DEF dropClient, reset, ProxyStruct
  <1> QED BY <1>1, <1>2, <1>3 DEF CoversOK

\* The methods keep the cover.
LEMMA CoversMethods ==
    ASSUME NEW q \in ProxyStruct, CoversOK(q)
    PROVE  /\ \A m \in ServerMessages : CoversOK(sendClient(q, m))
           /\ \A m : CoversOK(sendServer(q, m)) /\ CoversOK(fromClient(q, m))
           /\ \A m : CoversOK(fromServer(q, m))
  <1>1. ASSUME NEW m \in ServerMessages
        PROVE  CoversOK(sendClient(q, m))
    <2>1. CASE WriteOk(q.client)
      <3>1. /\ sendClient(q, m).client.session = UpdateFromServer(q.client.session, m)
            /\ sendClient(q, m).preLogSession = UpdateFromServer(q.preLogSession, m)
        BY <2>1 DEF sendClient, ProxyStruct, Connection
      <3> QED BY <3>1, CoversUpdate DEF CoversOK, ProxyStruct, Connection
    <2>2. CASE ~WriteOk(q.client)
      BY <2>2, CoversNothing DEF sendClient
    <2> QED BY <2>1, <2>2
  <1>2. ASSUME NEW m
        PROVE  CoversOK(sendServer(q, m)) /\ CoversOK(fromClient(q, m))
    <2>1. UpdateFromClient(q.client.session, m).channels = q.client.session.channels
      BY DEF UpdateFromClient, HandshakeFromClient, ProxyStruct, Connection, Session
    <2>2. CoversOK(fromClient(q, m))
      <3>1. fromClient(q, m).preLogSession = q.preLogSession
        BY DEF fromClient, ProxyStruct
      <3> QED BY <2>1, <3>1, HeardFields DEF CoversOK, Covers
    <2>3. CoversOK(sendServer(q, m))
      <3>1. LET r == [q EXCEPT !.server.session = UpdateFromClient(@, m)]
            IN  r.client = q.client /\ r.preLogSession = q.preLogSession
        BY DEF ProxyStruct
      <3> QED BY <3>1, CoversNothing DEF sendServer, CoversOK
    <2> QED BY <2>2, <2>3
  <1>3. ASSUME NEW m
        PROVE  CoversOK(fromServer(q, m))
    <2>1. fromServer(q, m).preLogSession = q.preLogSession
      BY DEF fromServer, ProxyStruct
    <2> QED BY <2>1, HeardFields DEF CoversOK
  <1> QED BY <1>1, <1>2, <1>3

\* Only the two sessions' channels, and the nick of one, matter.
LEMMA SameCovers ==
    ASSUME NEW q, NEW r, CoversOK(q), r.preLogSession = q.preLogSession,
           r.client.session.channels = q.client.session.channels
    PROVE  CoversOK(r)
  BY DEF CoversOK, Covers

\* checkTimeout keeps it.
LEMMA CoversTimeout ==
    ASSUME NEW q \in ProxyStruct, CoversOK(q)
    PROVE  CoversOK(checkServer(checkClient(q)))
  <1>1. Bare("PING") \in ServerMessages
    BY DEF Bare, Msg, ServerMessages, BareCmds
  <1>2. checkClient(q) \in ProxyStruct /\ CoversOK(checkClient(q))
    <2> DEFINE s == sendClient(q, Bare("PING"))
               r == [s EXCEPT !.client.pingSent = TRUE, !.client.overdue = FALSE,
                              !.client.pinged = WriteOk(q.client)]
    <2>1. s \in ProxyStruct /\ CoversOK(s)
      BY <1>1, ProxyTypes, CoversMethods
    <2>2. WriteOk(q.client) \in BOOLEAN
      BY ConnectionTypes DEF ProxyStruct
    <2> HIDE DEF s
    <2>3. r \in ProxyStruct
      BY <2>1, <2>2 DEF ProxyStruct, Connection
    <2>4. CoversOK(r)
      <3>1. r.preLogSession = s.preLogSession /\ r.client.session = s.client.session
        BY <2>1 DEF ProxyStruct, Connection
      <3> HIDE DEF r
      <3> QED BY <2>1, <3>1, SameCovers
    <2> QED BY <2>3, <2>4, ProxyTypes, CoversNothing DEF checkClient, s
  <1> SUFFICES ASSUME NEW k \in ProxyStruct, CoversOK(k) PROVE CoversOK(checkServer(k))
    BY <1>2
  <1> DEFINE s == sendServer(k, Bare("PING"))
             r == [s EXCEPT !.server.pingSent = TRUE, !.server.overdue = FALSE,
                            !.server.pinged = WriteOk(k.server)]
  <1>3. s \in ProxyStruct /\ CoversOK(s)
    BY ProxyTypes, CoversMethods
  <1> HIDE DEF s
  <1>4. CoversOK(r)
    <2>1. r.preLogSession = s.preLogSession /\ r.client = s.client
      BY <1>3 DEF ProxyStruct
    <2> HIDE DEF r
    <2> QED BY <1>3, <2>1, SameCovers
  <1> QED BY <1>4, CoversNothing DEF checkServer, s

\* Every step keeps it.
LEMMA CoversStep ==
    ASSUME TypeOK, CoversOK(p), RejoinOK, [Next]_vars
    PROVE  CoversOK(p') /\ RejoinOK'
  <1> USE MessagesAssumption
  <1>0. p \in ProxyStruct /\ task \in Tasks
    BY DEF TypeOK
  <1>n. task'.at # "names" => RejoinOK'
    BY DEF RejoinOK
  \* In its select, Run has no channel to tell about.
  <1>t. ASSUME InSelect, UNCHANGED task
        PROVE  RejoinOK'
    BY <1>t DEF InSelect, RejoinOK
  <1>1. CASE Accept
    <2> DEFINE d == dropClient(p)
               q == [d EXCEPT !.client = setup(@)]
    <2>1. d \in ProxyStruct /\ CoversOK(d)
      BY <1>0, ProxyTypes, CoversNothing
    <2> HIDE DEF d
    <2>2. q \in ProxyStruct /\ q.preLogSession = d.preLogSession
      BY <2>1, ConnectionTypes DEF ProxyStruct
    <2>3. q.client.session = NewSession
      BY <2>1 DEF ProxyStruct, Connection, setup, updateDeadlines
    <2> HIDE DEF q
    <2>4. CoversOK(q)
      BY <2>1, <2>2, <2>3, CoversNothing DEF CoversOK
    <2>5. CoversOK([q EXCEPT !.server = setup(@)]) /\ CoversOK(dropClient(q))
      BY <2>2, <2>4, CoversNothing DEF ProxyStruct, CoversOK
    <2> QED BY <1>1, <1>t, <2>4, <2>5 DEF Accept, q, d
  <1>2. CASE ClientGone \/ ServerGone
    BY <1>0, <1>2, <1>t, CoversNothing DEF ClientGone, ServerGone
  <1>3. CASE Stop
    BY <1>0, <1>3, <1>n, CoversNothing DEF Stop, Select
  <1>4. CASE Tick
    BY <1>0, <1>4, <1>t, CoversTimeout DEF Tick
  <1>5. CASE Restart
    BY <1>5, <1>n DEF Restart, NewProxy, emptyConnection, NewSession, NoChannel, Select,
                      CoversOK, Covers, ChannelCovers
  <1>6. ASSUME NEW m
        PROVE  /\ fromClient(p, m) \in ProxyStruct /\ CoversOK(fromClient(p, m))
               /\ CoversOK(sendServer(fromClient(p, m), m))
               /\ CoversOK(dropClient(fromClient(p, m)))
               /\ CoversOK(reset(fromClient(p, m)))
               /\ CoversOK(sendClient(fromClient(p, m), Bare("PONG")))
    BY <1>0, OwnMessages, ProxyTypes, CoversMethods, CoversNothing
  <1>7. ASSUME NEW m \in ClientMsgs, ClientInvalid(m)
        PROVE  CoversOK(p') /\ RejoinOK'
    <2>1. CoversOK(dropClient(sendClient(p, Bare("OTHER"))))
      BY <1>0, OwnMessages, ProxyTypes, CoversMethods, CoversNothing
    <2> QED BY <1>7, <1>t, <2>1 DEF ClientInvalid, ClientReads
  <1>8. ASSUME NEW m \in ClientMsgs,
               ClientIdles(m) \/ ClientRegisters(m) \/ ClientCommand(m) \/ ClientJoin(m)
        PROVE  CoversOK(p') /\ RejoinOK'
    <2>1. CoversOK(p')
      BY <1>6, <1>8 DEF ClientIdles, ClientRegisters, ClientCommand, ClientJoin
    <2> QED BY <1>8, <1>t, <2>1 DEF ClientIdles, ClientRegisters, ClientCommand, ClientJoin,
                                    ClientReads
  <1>9. ASSUME NEW m \in ClientMsgs, ClientReturns(m)
        PROVE  CoversOK(p') /\ RejoinOK'
    <2> DEFINE q == fromClient(p, m)
               r == [q EXCEPT !.client.session.nick = q.server.session.nick]
    <2>1. q \in ProxyStruct /\ CoversOK(q) /\ CoversOK(reset(q)) /\ CoversOK(dropClient(q))
      BY <1>6
    <2> HIDE DEF q
    <2>2. /\ r \in ProxyStruct /\ r.preLogSession = q.preLogSession
          /\ r.client.session.channels = q.client.session.channels
      BY <2>1 DEF ProxyStruct, Connection, Session
    <2> HIDE DEF r
    <2>3. CoversOK(sendServer(r, Bare("MOTD")))
      BY <2>1, <2>2, SameCovers, CoversMethods
    <2> QED BY <1>9, <1>t, <2>1, <2>3 DEF ClientReturns, ClientReads, q, r
  <1>10. ASSUME NEW m \in ClientMsgs, ClientRejoin(m)
         PROVE  CoversOK(p') /\ RejoinOK'
    <2> DEFINE q == fromClient(p, m)
               r == [q EXCEPT !.preLogSession = GetChannel(@, m.target)]
               j == Msg("JOIN", q.client.session.nick, m.target, None)
    <2>1. q \in ProxyStruct /\ CoversOK(q) /\ m.target \in Channels
      BY <1>6, <1>10 DEF ClientRejoin, HaveChannel
    <2> HIDE DEF q
    <2>2. /\ GetChannel(q.preLogSession, m.target) \in Session
          /\ Covers(GetChannel(q.preLogSession, m.target), q.client.session)
      BY <2>1 DEF CoversOK, Covers, ChannelCovers, GetChannel, Got, NewChannelState,
                  ProxyStruct, Connection, Session, ChannelState
    <2>3. /\ r \in ProxyStruct /\ r.preLogSession = GetChannel(q.preLogSession, m.target)
          /\ r.client = q.client
      BY <2>1, <2>2 DEF ProxyStruct
    <2>4. j \in ServerMessages /\ j.cmd = "JOIN" /\ j.target = m.target
      BY <2>1, OwnMessages DEF ProxyStruct, Connection, Session, Msg
    <2> HIDE DEF r, j
    <2>5. CoversOK(sendClient(r, j))
      BY <2>2, <2>3, <2>4, CoversMethods DEF CoversOK
    <2>6. p' = sendClient(r, j)
      BY <1>10 DEF ClientRejoin, q, r, j
    <2>7. CASE WriteOk(q.client)
      <3>1. p'.preLogSession = UpdateFromServer(r.preLogSession, j)
        BY <2>3, <2>6, <2>7 DEF sendClient, ProxyStruct
      <3>2. \A ch \in ChannelState : ChannelFromServer(Got(ch), j).joined
        BY DEF ChannelFromServer, Got, NewChannelState, ChannelState
      <3>3. UpdateFromServer(r.preLogSession, j).channels
              = ChannelsFromServer(r.preLogSession.channels, j)
        BY <2>3, <2>4 DEF UpdateFromServer, HandshakeFromServer, AboutMe, NickErrors, MotdEnds,
                          ProxyStruct, Session
      <3>4. p'.preLogSession.channels[m.target].joined
        BY <2>1, <2>3, <2>4, <3>1, <3>2, <3>3 DEF ChannelsFromServer, ProxyStruct, Session
      <3>5. task'.name = m.target
        BY <1>10, <2>7 DEF ClientRejoin, q
      <3> QED BY <2>5, <2>6, <3>4, <3>5 DEF RejoinOK
    <2>8. CASE ~WriteOk(q.client)
      BY <1>10, <1>n, <2>5, <2>6, <2>8 DEF ClientRejoin, Select, q
    <2> QED BY <2>7, <2>8
  <1>11. ASSUME NEW m \in ServerMsgs
         PROVE  /\ fromServer(p, m) \in ProxyStruct /\ CoversOK(fromServer(p, m))
                /\ CoversOK(sendServer(fromServer(p, m), Bare("PONG")))
                /\ CoversOK(sendClient(fromServer(p, m), m))
                /\ CoversOK(reset(fromServer(p, m)))
    BY <1>0, ProxyTypes, CoversMethods, CoversNothing
  <1>12. ASSUME NEW m \in ServerMsgs,
                ServerKeepalive(m) \/ ServerForward(m) \/ ServerText(m) \/ ServerMembership(m)
         PROVE  CoversOK(p') /\ RejoinOK'
    <2>1. CoversOK(p')
      BY <1>11, <1>12 DEF ServerKeepalive, ServerForward, ServerText, ServerMembership
    <2> QED BY <1>12, <1>t, <2>1 DEF ServerKeepalive, ServerForward, ServerText,
                                     ServerMembership, ServerReads
  <1>13. ASSUME NEW m \in ServerMsgs, ServerEndOfMotd(m) \/ ServerEndOfNames(m)
         PROVE  CoversOK(p') /\ RejoinOK'
    BY <1>11, <1>13, <1>n DEF ServerEndOfMotd, ServerEndOfNames, replayLog
  <1>14. ASSUME NEW m \in ServerMsgs, ServerInvalid(m)
         PROVE  CoversOK(p') /\ RejoinOK'
    BY <1>0, <1>14, <1>t, CoversNothing DEF ServerInvalid, ServerReads
  <1>15. ASSUME NEW m \in ServerMsgs, ServerWelcome(m)
         PROVE  CoversOK(p') /\ RejoinOK'
    <2> DEFINE q == fromServer(p, m)
               r == [q EXCEPT !.server.session.nick = m.arg]
               s == sendClient(r, m)
    <2>1. q \in ProxyStruct /\ CoversOK(q) /\ CoversOK(reset(q)) /\ m.arg \in Names
      BY <1>11, <1>15, MessageFields DEF ServerWelcome
    <2> HIDE DEF q
    <2>2. r \in ProxyStruct /\ r.preLogSession = q.preLogSession /\ r.client = q.client
      BY <2>1 DEF ProxyStruct, Connection, Session
    <2> HIDE DEF r
    <2>3. s \in ProxyStruct /\ CoversOK(s)
      BY <2>1, <2>2, SameCovers, ProxyTypes, CoversMethods
    <2> HIDE DEF s
    <2>4. LET t == [s EXCEPT !.client.session.nick = m.arg]
          IN  /\ t.preLogSession = s.preLogSession
              /\ t.client.session.channels = s.client.session.channels
      BY <2>3 DEF ProxyStruct, Connection, Session
    <2>5. CoversOK([s EXCEPT !.client.session.nick = m.arg])
      BY <2>3, <2>4, SameCovers
    <2> QED BY <1>15, <1>t, <2>1, <2>3, <2>5 DEF ServerWelcome, ServerReads, q, r, s
  <1>16. ASSUME NEW m \in ServerMsgs, ServerInfo(m)
         PROVE  CoversOK(p') /\ RejoinOK'
    <2> DEFINE f == fromServer(p, m)
               q == [f EXCEPT !.msgCache = @ \cup {m.cmd}]
               s == sendClient(q, m)
    <2>1. f \in ProxyStruct /\ CoversOK(f)
      BY <1>11
    <2> HIDE DEF f
    <2>2. q \in ProxyStruct /\ q.preLogSession = f.preLogSession /\ q.client = f.client
      BY <1>16, <2>1 DEF ProxyStruct, ServerInfo
    <2> HIDE DEF q
    <2>3. s \in ProxyStruct /\ CoversOK(s)
      BY <2>1, <2>2, SameCovers, ProxyTypes, CoversMethods
    <2> HIDE DEF s
    <2>4. LET t == [s EXCEPT !.haveMsgCache = @ \/ m.cmd = "RPL_MYINFO"]
          IN  t.preLogSession = s.preLogSession /\ t.client = s.client
      BY <2>3 DEF ProxyStruct
    <2>5. CoversOK([s EXCEPT !.haveMsgCache = @ \/ m.cmd = "RPL_MYINFO"])
      BY <2>3, <2>4, SameCovers
    <2> QED BY <1>16, <1>t, <2>5 DEF ServerInfo, ServerReads, f, q, s
  <1>17. CASE rejoinChannel
    <2>1. task.name \in Channels /\ task.at = "names"
      BY <1>0, <1>17 DEF rejoinChannel, Tasks
    <2>2. CASE ~WriteOk(p.client)
      <3>1. CoversOK(sendClient(p, Msg("RPL_ENDOFNAMES", None, task.name, None)))
        BY <1>0, <2>1, OwnMessages, CoversMethods
      <3> QED BY <1>17, <1>n, <2>2, <3>1 DEF rejoinChannel, Select
    <2>3. CASE WriteOk(p.client)
      <3> DEFINE ch == p.client.session.channels[task.name]
                 before == p.preLogSession.channels[task.name]
      <3>1. /\ ch \in ChannelState /\ before \in ChannelState /\ before.joined
            /\ ChannelCovers(before, ch)
        BY <1>0, <2>1 DEF RejoinOK, CoversOK, Covers, ProxyStruct, Connection, Session
      <3>2. /\ p'.preLogSession = p.preLogSession
            /\ p'.client.session.channels
                 = [p.client.session.channels EXCEPT ![task.name] = Told(Got(ch), before)]
        BY <1>0, <1>17, <2>1, <2>3 DEF rejoinChannel, ProxyStruct, Connection, Session
      <3> HIDE DEF ch, before
      <3>3. ChannelCovers(before, Told(Got(ch), before))
        BY <3>1 DEF ChannelCovers, Told, Got, NewChannelState, ChannelState
      <3>4. CoversOK(p')
        BY <1>0, <2>1, <3>2, <3>3 DEF CoversOK, Covers, ProxyStruct, Connection, Session,
                                      ch, before
      <3> QED BY <1>17, <1>n, <2>3, <3>4 DEF rejoinChannel, replayLog
    <2> QED BY <2>2, <2>3
  <1>18. CASE ReplaySend
    <2>1. task'.at = "replay"
      BY <1>0, <1>18 DEF ReplaySend, Tasks
    <2> QED BY <1>0, <1>18, <1>n, <2>1, CurrentMessage, CoversMethods DEF ReplaySend
  <1>19. CASE ReplayAborts
    BY <1>0, <1>19, <1>n, CurrentMessage, CoversMethods DEF ReplayAborts, Select
  <1>20. CASE ReplayFails \/ ReplayEnds
    BY <1>20, <1>n DEF ReplayFails, ReplayEnds, Select
  <1>21. CASE ClientDies \/ ServerDies \/ ClientDeadline \/ ServerDeadline
    <2>1. /\ p'.client.session = p.client.session /\ p'.preLogSession = p.preLogSession
          /\ UNCHANGED task
      BY <1>0, <1>21 DEF ClientDies, ServerDies, ClientDeadline, ServerDeadline,
                         ProxyStruct, Connection
    <2> QED BY <2>1 DEF CoversOK, RejoinOK
  <1>22. CASE UNCHANGED vars
    BY <1>22 DEF vars, RejoinOK
  <1> QED
    BY <1>1, <1>2, <1>3, <1>4, <1>5, <1>7, <1>8, <1>9, <1>10, <1>12, <1>13, <1>14, <1>15,
       <1>16, <1>17, <1>18, <1>19, <1>20, <1>21, <1>22
       DEF Next, Lifecycle, ClientEvent, ServerEvent, handleClientEvent, handleServerEvent,
           HandlerStep, Environment

\* The inductive invariant of preLogSession.
CoversInv == CoversOK(p) /\ RejoinOK

\* Whatever a client has been told of its channels, preLogSession knows too, so
\* rejoinChannel never tells the next client less: joins, parts, renames and
\* topics reach both sessions in the same sendClient, and nothing else reaches
\* the client's.
THEOREM PreLogTheorem == Spec => []PreLogCoversClient
  <1>1. Init => CoversInv
    BY DEF Init, NewProxy, emptyConnection, NewSession, NoChannel, Select,
           CoversInv, CoversOK, Covers, ChannelCovers, RejoinOK
  <1>2. TypeOK /\ CoversInv /\ [Next]_vars => CoversInv'
    BY CoversStep DEF CoversInv, CoversOK, Covers, ChannelCovers
  <1>3. CoversInv => PreLogCoversClient
    BY DEF CoversInv, CoversOK, Covers, ChannelCovers, PreLogCoversClient
  <1> QED BY <1>1, <1>2, <1>3, TypeCorrect, PTL DEF Spec

=============================================================================
