------------------------------ MODULE Network ------------------------------
(***************************************************************************)
(* The proxy of module Proxy connected to an IRC server that follows the   *)
(* protocol: it registers a user who has sent NICK and USER, refuses a     *)
(* nick that is taken, and tells us what happens in the channels we are    *)
(* in.  What the proxy writes is handled by the server at once, what the   *)
(* server writes waits in inbox, in order, so every interleaving of a      *)
(* delayed answer with later events is there.  The client stays free to    *)
(* send any message of ClientMsgs.                                         *)
(*                                                                         *)
(* The server is outside of the repository: it is modelled by the replies  *)
(* that the handlers of proxy.go wait for.                                 *)
(***************************************************************************)
EXTENDS Proxy, SequencesExt

CONSTANTS
    OtherEvents,    \* what other users do, out of EventKinds
    Hurried,        \* what happens while messages are on their way, out of Hurries
    Others,         \* the nicks that are taken at first
    MaxInbox        \* nobody acts while more messages than that are on their way,
                    \* or a log is longer than MaxLog

EventKinds == {"join", "part", "nick", "quit", "kick", "text", "close"}

\* A client connects without waiting for the answers to the last one, or
\* sends a second NICK before the first one was refused.
Hurries == {"connect", "nick"}

ASSUME NetworkAssumption ==
    /\ OtherEvents \subseteq EventKinds
    /\ Hurried \subseteq Hurries
    /\ Others \subseteq Nicks
    /\ MaxInbox \in Nat

VARIABLES
    srv,        \* the state of the IRC server
    inbox,      \* what the server has sent and the proxy has not read
    welcomed    \* history: the connected client was sent RPL_WELCOME

nvars == <<vars, srv, inbox, welcomed>>

Server == [nick : Names, user : BOOLEAN, registered : BOOLEAN,
           others : SUBSET Nicks, members : [Channels -> SUBSET Nicks]]

-----------------------------------------------------------------------------
(* The server.                                                             *)

\* Our connection is closed, or there is a new one.
Unregistered(s) ==
    [s EXCEPT !.nick = None, !.user = FALSE, !.registered = FALSE,
              !.members = [c \in Channels |-> @[c] \ {s.nick}]]

Renamed(s, old, new) ==
    [c \in Channels |-> IF old \in s.members[c]
                          THEN (s.members[c] \ {old}) \cup {new}
                          ELSE s.members[c]]

\* The state of the server after message m from us.
Served(s, m) ==
    CASE m.cmd = "NICK" /\ m.target \notin s.others ->
             [s EXCEPT !.nick = m.target, !.registered = s.user,
                       !.members = Renamed(s, s.nick, m.target)]
      [] m.cmd = "USER" -> [s EXCEPT !.user = TRUE, !.registered = s.nick # None]
      [] s.registered /\ m.cmd = "JOIN" -> [s EXCEPT !.members[m.target] = @ \cup {s.nick}]
      [] s.registered /\ m.cmd = "PART" -> [s EXCEPT !.members[m.target] = @ \ {s.nick}]
      [] /\ s.registered /\ m.cmd = "KICK"
         /\ s.nick \in s.members[m.target] -> [s EXCEPT !.members[m.target] = @ \ {m.arg}]
      [] OTHER -> s

WelcomeSequence(nick) ==
    <<Msg("RPL_WELCOME", None, None, nick), Bare("RPL_MYINFO"), Bare("RPL_ENDOFMOTD")>>

NamesReplies(c, members) ==
    [i \in 1..Cardinality(members) |->
        Msg("RPL_NAMEREPLY", None, c, SetToSeq(members)[i])]

\* What the server answers to message m from us, t being Served(s, m).
Answers(s, t, m) ==
    CASE m.cmd = "NICK" /\ m.target \in s.others -> <<Bare("ERR_NICKNAMEINUSE")>>
      [] ~s.registered /\ t.registered -> WelcomeSequence(t.nick)
      [] s.registered /\ m.cmd = "NICK" /\ s.nick # t.nick ->
             <<Msg("NICK", s.nick, t.nick, None)>>
      [] s.registered /\ m.cmd = "MOTD" -> <<Bare("RPL_ENDOFMOTD")>>
      [] m.cmd = "JOIN" /\ s # t ->
             <<Msg("JOIN", t.nick, m.target, None)>>
             \o NamesReplies(m.target, t.members[m.target])
             \o <<Msg("RPL_ENDOFNAMES", None, m.target, None)>>
      [] m.cmd = "PART" /\ s # t -> <<Msg("PART", s.nick, m.target, None)>>
      [] m.cmd = "KICK" /\ s # t -> <<Msg("KICK", s.nick, m.target, m.arg)>>
      [] OTHER -> <<>>

\* The connection stays if kept holds: otherwise it is closed or replaced.
Follow(kept) ==
    /\ srv' = IF kept THEN srv ELSE Unregistered(srv)
    /\ inbox' = IF kept THEN inbox ELSE <<>>

\* The proxy writes m to its connection to the server.
Request(m) ==
    IF Reaches(p.server)
      THEN /\ srv' = Served(srv, m)
           /\ inbox' = inbox \o Answers(srv, Served(srv, m), m)
      ELSE Follow(p'.server.open)

-----------------------------------------------------------------------------
(* The steps of the proxy, with what they write to the server.             *)

Uncrowded == Len(inbox) <= MaxInbox /\ \A t \in Targets : Len(logs[t]) <= MaxLog

NetAccept ==
    /\ inbox # <<>> => "connect" \in Hurried
    /\ Accept
    /\ Follow(p.server.open /\ Done(p.server.session))
    /\ welcomed' = FALSE

\* The end of a connection is read, after everything that was sent on it.
NetGone ==
    /\ ClientGone \/ (inbox = <<>> /\ ServerGone)
    /\ Follow(p'.server.open)
    /\ welcomed' = (welcomed /\ p'.client.open)

NetRestart ==
    /\ Stop \/ Restart
    /\ Follow(FALSE)
    /\ welcomed' = FALSE

\* One message of the client.
NetClient(m) ==
    /\ Uncrowded
    /\ m.cmd = "NICK" /\ p.client.session.haveNick /\ ~Done(p.client.session)
         => "nick" \in Hurried
    /\ \/ /\ ClientInvalid(m) \/ ClientIdles(m) \/ ClientRejoin(m)
          /\ Follow(p'.server.open)
          /\ UNCHANGED welcomed
       \/ /\ ClientRegisters(m)
          /\ Request(m)
          /\ UNCHANGED welcomed
       \/ /\ ClientReturns(m)
          /\ IF p'.server.open /\ p'.client.open
               THEN Request(Bare("MOTD"))
               ELSE Follow(p'.server.open)
          /\ welcomed' = Reaches(p'.client)
       \/ /\ ClientCommand(m)
          /\ IF m.cmd \in {"PING", "PONG", "QUIT"} THEN Follow(TRUE) ELSE Request(m)
          /\ UNCHANGED welcomed
       \/ /\ ClientJoin(m)
          /\ IF HaveChannel(p.client.session, m.target) THEN Follow(TRUE) ELSE Request(m)
          /\ UNCHANGED welcomed

\* The next message of the server.
NetServer ==
    /\ inbox # <<>>
    /\ handleServerEvent(Head(inbox))
    /\ IF p'.server.open
         THEN UNCHANGED srv /\ inbox' = Tail(inbox)
         ELSE Follow(FALSE)
    /\ welcomed' = \/ welcomed /\ p'.client.open
                   \/ Head(inbox).cmd = "RPL_WELCOME" /\ p'.client.open

NetHandler ==
    /\ HandlerStep
    /\ Follow(p'.server.open)
    /\ UNCHANGED welcomed

NetClientDies == ClientDies /\ UNCHANGED <<srv, inbox, welcomed>>

-----------------------------------------------------------------------------
(* What the other users do, and the end of the server's connection.        *)

Happens(kind) ==
    /\ kind \in OtherEvents
    /\ Uncrowded
    /\ UNCHANGED <<vars, welcomed>>

\* The server sends m if it concerns us, being about the channels cs.
Announce(m, cs) ==
    inbox' = IF \E c \in cs : srv.registered /\ srv.nick \in srv.members[c]
               THEN Append(inbox, m) ELSE inbox

OtherJoins(n, c) ==
    /\ Happens("join")
    /\ n \in srv.others \ srv.members[c]
    /\ srv' = [srv EXCEPT !.members[c] = @ \cup {n}]
    /\ Announce(Msg("JOIN", n, c, None), {c})

OtherParts(n, c) ==
    /\ Happens("part")
    /\ n \in srv.others \cap srv.members[c]
    /\ srv' = [srv EXCEPT !.members[c] = @ \ {n}]
    /\ Announce(Msg("PART", n, c, None), {c})

OtherKicks(n, c, victim) ==
    /\ Happens("kick")
    /\ n \in srv.others \cap srv.members[c]
    /\ victim \in srv.members[c] \ {n}
    /\ srv' = [srv EXCEPT !.members[c] = @ \ {victim}]
    /\ Announce(Msg("KICK", n, c, victim), {c})

OtherNick(n, new) ==
    /\ Happens("nick")
    /\ n \in srv.others
    /\ new \notin srv.others \cup {srv.nick}
    /\ srv' = [srv EXCEPT !.others = (@ \ {n}) \cup {new}, !.members = Renamed(srv, n, new)]
    /\ Announce(Msg("NICK", n, new, None), {c \in Channels : n \in srv.members[c]})

OtherQuits(n) ==
    /\ Happens("quit")
    /\ n \in srv.others
    /\ srv' = [srv EXCEPT !.others = @ \ {n},
                          !.members = [c \in Channels |-> @[c] \ {n}]]
    /\ Announce(Msg("QUIT", n, None, None), {c \in Channels : n \in srv.members[c]})

\* A text is said once: it is not on its way and has not been handled.
OtherSpeaks(n, c, t) ==
    /\ Happens("text")
    /\ n \in srv.others \cap srv.members[c]
    /\ t \notin received \cup TextsOf(inbox)
    /\ Announce(Msg("PRIVMSG", n, c, t), {c})
    /\ UNCHANGED srv

\* The server closes the connection; the proxy finds out when it has read
\* everything that was sent before.
ServerCloses ==
    /\ "close" \in OtherEvents
    /\ p.server.open /\ p.server.alive
    /\ p' = [p EXCEPT !.server.alive = FALSE]
    /\ srv' = Unregistered(srv)
    /\ UNCHANGED <<task, logs, history, inbox, welcomed>>

-----------------------------------------------------------------------------

NetInit ==
    /\ Init
    /\ inbox = <<>>
    /\ welcomed = FALSE
    /\ srv = [nick |-> None, user |-> FALSE, registered |-> FALSE, others |-> Others,
              members |-> [c \in Channels |-> {}]]

OtherUsers ==
    \E n \in Nicks :
        \/ \E c \in Channels : \/ OtherJoins(n, c) \/ OtherParts(n, c)
                               \/ \E victim \in Nicks : OtherKicks(n, c, victim)
                               \/ \E t \in Texts : OtherSpeaks(n, c, t)
        \/ \E new \in Nicks : OtherNick(n, new)
        \/ OtherQuits(n)

\* Everything but the end of the idler itself.
NetLives ==
    \/ NetAccept \/ NetGone \/ NetServer \/ NetHandler \/ NetClientDies
    \/ OtherUsers \/ ServerCloses
    \/ \E m \in ClientMsgs : NetClient(m)

NetNext == NetLives \/ NetRestart

NetSpec == NetInit /\ [][NetNext]_nvars

\* The proxy's goroutine and the network make progress: what was sent is read,
\* a handler that runs returns, and the end of a connection is noticed.
NetFairSpec ==
    /\ NetSpec
    /\ WF_nvars(NetServer) /\ WF_nvars(NetHandler) /\ WF_nvars(NetGone)

-----------------------------------------------------------------------------
(* Properties                                                              *)

\* The server's session once the proxy has read message m, nick of
\* RPL_WELCOME included.
Hears(s, m) ==
    IF m.cmd = "RPL_WELCOME" THEN [s EXCEPT !.nick = m.arg] ELSE UpdateFromServer(s, m)

\* What the proxy thinks of the server, after what is on its way, is the truth:
\* our nick, the channels we are in (HaveChannel: "Return true if we're in the
\* channel") and who else is in them.
ServerViewExact ==
    LET s == FoldLeft(Hears, p.server.session, inbox) IN
      Reaches(p.server) /\ srv.registered =>
        /\ s.nick = srv.nick
        /\ \A c \in Channels :
             /\ s.channels[c].joined <=> srv.nick \in srv.members[c]
             /\ s.channels[c].joined => s.channels[c].users = srv.members[c]

\* Once the server has registered us and everything it sent has been read, the
\* proxy's handshake with it is done ("Server rejected our NICK message, we'll
\* need to send another before we're done"), so that commands are passed on.
RegisteredMeansDone ==
    Reaches(p.server) /\ srv.registered /\ inbox = <<>> => Done(p.server.session)

\* A client never loses the user the session on the server: no step of a
\* client, however it comes and goes, closes a connection whose handshake is
\* done, because the welcome sequence is cached by then (handleHandshakeMessage
\* resets both connections if it is not: "This is probably a bug").
NeverLoggedOut == [][SessionEnds => ~NetLives]_nvars

\* A client whose handshake is done was sent the welcome sequence ("The client
\* has received the full MOTD; this is the last thing the server sends as part
\* of the initial welcome sequence").
DoneMeansWelcomed == p.client.open /\ Done(p.client.session) => welcomed

\* A client that has sent NICK and USER does not wait for its welcome for ever:
\* it is logged in, refused or disconnected.
LoginCompletes ==
    p.client.open /\ WantsWelcome(p.client.session) ~> ~WantsWelcome(p.client.session)

\* A client in channel c that was welcomed and has been told everything.
Settled(c) ==
    /\ InSelect
    /\ p.client.open /\ welcomed /\ Done(p.client.session)
    /\ HaveChannel(p.client.session, c) /\ HaveChannel(p.server.session, c)
    /\ p.client.session.nick \in p.client.session.channels[c].users

\* Rejoining never tells the client of a user who is not in the channel:
\* "putting these users in RPL_NAMREPLY and then replaying the log should get
\* us to the correct final state".
NoGhosts ==
    \A c \in Channels : Settled(c) =>
        p.client.session.channels[c].users \subseteq p.server.session.channels[c].users

=============================================================================
