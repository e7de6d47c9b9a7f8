------------------------------ MODULE Session ------------------------------
(***************************************************************************)
(* The session state that the proxy tracks for each of its two connections *)
(* and for the moment before its message logs begin (proxy/state/*.go):    *)
(* the handshake flags, the nick, and for every channel whether we are in  *)
(* it, its topic and its users.  Everything here is a function of a        *)
(* session and a message; the state that changes is in module Proxy.       *)
(***************************************************************************)
CONSTANTS
    Nicks,      \* parsed nicks
    Channels,   \* channel names
    Topics,     \* channel topics, except the empty one
    Texts,      \* what PRIVMSG and NOTICE messages say; each text is sent once
    None        \* "": no nick, no topic, a prefix ParseClientID rejects

ASSUME NamesAssumption ==
    /\ Nicks \cap Channels = {}
    /\ None \notin Nicks \cup Channels \cup Topics \cup Texts

Names == Nicks \cup {None}

-----------------------------------------------------------------------------
(* Messages.  "prefix" is the nick of the prefix (None when it does not    *)
(* parse), "target" the channel or nick that the handlers index by, "arg"  *)
(* the one other parameter that they read: a text, topic or user.          *)
(* "INVALID" is a message that Validate rejects, and "OTHER" stands for    *)
(* all commands that the handlers do not name.                             *)

NickErrors == {"ERR_NONICKNAMEGIVEN", "ERR_ERRONEUSNICKNAME",
               "ERR_NICKNAMEINUSE", "ERR_NICKCOLLISION"}
MotdEnds   == {"RPL_ENDOFMOTD", "ERR_NOMOTD"}
InfoCmds   == {"RPL_YOURHOST", "RPL_CREATED", "RPL_MYINFO"}
TextCmds   == {"PRIVMSG", "NOTICE"}

Msg(cmd, prefix, target, arg) ==
    [cmd |-> cmd, prefix |-> prefix, target |-> target, arg |-> arg]

Bare(cmd) == Msg(cmd, None, None, None)

BareCmds == NickErrors \cup MotdEnds \cup InfoCmds
                \cup {"PING", "PONG", "RPL_MOTDSTART", "RPL_MOTD", "OTHER", "INVALID"}

\* RPL_NAMEREPLY names one user: a reply with several is that many replies.
ServerMessages ==
    [cmd : TextCmds, prefix : Names, target : Nicks \cup Channels, arg : Texts]
    \cup [cmd : {"JOIN", "PART"}, prefix : Names, target : Channels, arg : {None}]
    \cup [cmd : {"KICK"}, prefix : Names, target : Channels, arg : Nicks]
    \cup [cmd : {"NICK"}, prefix : Names, target : Nicks, arg : {None}]
    \cup [cmd : {"QUIT"}, prefix : Names, target : {None}, arg : {None}]
    \cup [cmd : {"RPL_TOPIC"}, prefix : {None}, target : Channels, arg : Topics \cup {None}]
    \cup [cmd : {"RPL_NAMEREPLY"}, prefix : {None}, target : Channels, arg : Names]
    \cup [cmd : {"RPL_ENDOFNAMES"}, prefix : {None}, target : Channels, arg : {None}]
    \cup [cmd : {"RPL_WELCOME"}, prefix : {None}, target : {None}, arg : Names]
    \cup [cmd : BareCmds, prefix : {None}, target : {None}, arg : {None}]

ClientMessages ==
    [cmd : {"NICK"}, prefix : {None}, target : Nicks, arg : {None}]
    \cup [cmd : {"JOIN", "PART"}, prefix : {None}, target : Channels, arg : {None}]
    \cup [cmd : {"KICK"}, prefix : {None}, target : Channels, arg : Nicks]
    \cup [cmd : {"PASS", "USER", "PING", "PONG", "QUIT", "OTHER", "INVALID"},
          prefix : {None}, target : {None}, arg : {None}]

-----------------------------------------------------------------------------
(* Channel state (channel.go).  A Go map entry that is absent is NoChannel. *)

ChannelState == [joined : BOOLEAN, topic : Topics \cup {None}, users : SUBSET Names]

NewChannelState == [joined |-> TRUE,  topic |-> None, users |-> {}]
NoChannel       == [joined |-> FALSE, topic |-> None, users |-> {}]

\* The users of a channel after message m from the server.
UsersFromServer(users, m) ==
    CASE m.cmd = "JOIN" -> users \cup ({m.prefix} \ {None})
      [] m.cmd \in {"PART", "KICK", "QUIT"} -> users \ ({m.prefix} \ {None})
      [] m.cmd = "RPL_NAMEREPLY" -> users \cup {m.arg}
      [] m.cmd = "NICK" -> IF m.prefix \in users \ {None}
                             THEN (users \ {m.prefix}) \cup {m.target}
                             ELSE users
      [] OTHER -> users

ChannelFromServer(ch, m) == [ch EXCEPT !.users = UsersFromServer(@, m)]

\* What the map's GetChannel returns for the entry ch.
Got(ch) == IF ch.joined THEN ch ELSE NewChannelState

ChannelsFromServer(chs, m) ==
    CASE m.cmd \in {"KICK", "PART", "JOIN", "RPL_NAMEREPLY"} ->
             [chs EXCEPT ![m.target] = ChannelFromServer(Got(@), m)]
      [] m.cmd = "RPL_TOPIC" ->
             [chs EXCEPT ![m.target] = [Got(@) EXCEPT !.topic = m.arg]]
      [] m.cmd \in {"NICK", "QUIT"} ->
             [c \in Channels |-> IF chs[c].joined THEN ChannelFromServer(chs[c], m)
                                                  ELSE chs[c]]
      [] OTHER -> chs

-----------------------------------------------------------------------------
(* Sessions (session.go, handshake.go).                                    *)

Session == [nick : Names, haveNick : BOOLEAN, haveUser : BOOLEAN,
            haveMOTD : BOOLEAN, channels : [Channels -> ChannelState]]

NewSession == [nick |-> None, haveNick |-> FALSE, haveUser |-> FALSE,
               haveMOTD |-> FALSE, channels |-> [c \in Channels |-> NoChannel]]

Done(s) == s.haveNick /\ s.haveUser /\ s.haveMOTD

WantsWelcome(s) == s.haveNick /\ s.haveUser /\ ~s.haveMOTD

IsMe(s, prefix) == prefix # None /\ prefix = s.nick

HaveChannel(s, name) == name \in Channels /\ s.channels[name].joined

GetChannel(s, c) == [s EXCEPT !.channels[c] = Got(@)]

DeleteChannel(s, c) == [s EXCEPT !.channels[c] = NoChannel]

HandshakeFromClient(s, m) ==
    CASE ~Done(s) /\ m.cmd = "USER" -> [s EXCEPT !.haveUser = TRUE]
      [] ~Done(s) /\ m.cmd = "NICK" -> [s EXCEPT !.haveNick = TRUE]
      [] OTHER -> s

\* Mutant: a refused nick makes the client send USER again too.
HandshakeFromServerResets(s, m) ==
    CASE ~Done(s) /\ m.cmd \in NickErrors -> [s EXCEPT !.haveNick = FALSE, !.haveUser = FALSE]
      [] ~Done(s) /\ m.cmd \in MotdEnds   -> [s EXCEPT !.haveMOTD = TRUE]
      [] OTHER -> s

\* Mutant: only a missing MOTD ends the handshake.
HandshakeFromServerNoMotd(s, m) ==
    CASE ~Done(s) /\ m.cmd \in NickErrors -> [s EXCEPT !.haveNick = FALSE]
      [] ~Done(s) /\ m.cmd = "ERR_NOMOTD" -> [s EXCEPT !.haveMOTD = TRUE]
      [] OTHER -> s

HandshakeFromServer(s, m) ==
    CASE ~Done(s) /\ m.cmd \in NickErrors -> [s EXCEPT !.haveNick = FALSE]
      [] ~Done(s) /\ m.cmd \in MotdEnds   -> [s EXCEPT !.haveMOTD = TRUE]
      [] OTHER -> s

UpdateFromClient(s, m) == HandshakeFromClient(s, m)

\* Mutant: leaving a channel with PART is overlooked.
AboutMeNoPart(s, m) ==
    CASE IsMe(s, m.prefix) /\ m.cmd = "KICK" -> DeleteChannel(s, m.target)
      [] IsMe(s, m.prefix) /\ m.cmd = "NICK" -> [s EXCEPT !.nick = m.target]
      [] OTHER -> s

\* The last part of Session.UpdateFromServer: the message is about us.
AboutMe(s, m) ==
    CASE IsMe(s, m.prefix) /\ m.cmd \in {"KICK", "PART"} -> DeleteChannel(s, m.target)
      [] IsMe(s, m.prefix) /\ m.cmd = "NICK" -> [s EXCEPT !.nick = m.target]
      [] OTHER -> s

UpdateFromServer(s, m) ==
    AboutMe([HandshakeFromServer(s, m) EXCEPT !.channels = ChannelsFromServer(@, m)], m)

=============================================================================
