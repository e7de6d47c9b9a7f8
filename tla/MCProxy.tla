------------------------------ MODULE MCProxy ------------------------------
(***************************************************************************)
(* Small instances of Proxy for TLC: our own nick and one other user, one  *)
(* channel, and for each question (the texts, what is known of a channel,  *)
(* the two links) the messages that bear on it.                            *)
(***************************************************************************)
EXTENDS ProxyStore, TLC

CONSTANTS me, bob, chan, topic, t1, t2,
          Scopes    \* what a run is about

MCNicks    == {me, bob}
MCChannels == {chan}
MCTopics   == {topic}
OneText    == {t1}
TwoTexts   == {t1, t2}

\* The client: registering, joining, everything else it may send.
Login  == {Msg("NICK", None, me, None), Bare("USER")}
Join   == {Msg("JOIN", None, chan, None)}
Talk   == {Bare(cmd) : cmd \in {"PASS", "PING", "PONG", "QUIT", "OTHER", "INVALID"}}

\* The server: the messages of a login and of joining a channel ...
Welcome == {Msg("RPL_WELCOME", None, None, me), Bare("RPL_MYINFO"), Bare("RPL_ENDOFMOTD")}
Joined  == {Msg("JOIN", me, chan, None), Msg("RPL_ENDOFNAMES", None, chan, None)}

\* ... texts to the channel and to us, ...
ToChannel(texts) == {Msg("PRIVMSG", bob, chan, t) : t \in texts}
ToMe(texts)      == {Msg("NOTICE", bob, me, t) : t \in texts}

\* ... what changes the users and topic of a channel, ...
Membership ==
    {Msg("JOIN", bob, chan, None), Msg("KICK", bob, chan, me), Msg("QUIT", bob, None, None),
     Msg("PART", me, chan, None), Msg("NICK", me, bob, None)}
ChannelReplies ==
    {Msg("RPL_TOPIC", None, chan, topic), Msg("RPL_NAMEREPLY", None, chan, bob)}

\* ... and the rest.
Refusals == {Bare(cmd) : cmd \in NickErrors \cup {"ERR_NOMOTD"}}
Misc     == {Bare(cmd) : cmd \in {"PING", "PONG", "OTHER", "RPL_MOTD", "RPL_CREATED"}}
Unclean  == {Bare("INVALID"), Msg("RPL_WELCOME", None, None, None)}

DeliveryClient == Login \cup Join
DeliveryServer == Welcome \cup Joined \cup ToChannel(Texts) \cup ToMe(Texts)

ChannelServer == Welcome \cup Joined \cup Membership \cup ChannelReplies

LinkClient == Login \cup Talk
LinkServer == Welcome \cup Refusals \cup Misc \cup Unclean

\* The messages of each question.
Client == [texts |-> DeliveryClient, channels |-> DeliveryClient, links |-> LinkClient]
Server == [texts |-> DeliveryServer, channels |-> ChannelServer, links |-> LinkServer]

AllFromClient == UNION {Client[s] : s \in Scopes}
AllFromServer == UNION {Server[s] : s \in Scopes}

AllFaults   == FaultKinds
ClientFault == {"clientDies", "kill"}
ClientDrops == {"clientDies"}

VARIABLE scope  \* the question that this behaviour is about

\* Where the links are not the question, the server welcomes nobody who has not
\* registered.
Timely(m) ==
    scope # "links" /\ m \in Welcome =>
        p.server.session.haveNick /\ p.server.session.haveUser

MCInit == Init /\ scope \in Scopes

\* Links other than the client's, and deadlines, matter to the links only; to the
\* texts a daemon that is stopped is like one that is killed between two handlers.
MCNext ==
    /\ UNCHANGED scope
    /\ \/ Accept \/ ClientGone \/ ServerGone \/ Tick \/ Restart \/ HandlerStep \/ ClientDies
       \/ (scope = "texts" => "kill" \notin Faults) /\ Stop
       \/ scope = "links" /\ Environment
       \/ \E m \in Client[scope] : handleClientEvent(m)
       \/ \E m \in Server[scope] : Timely(m) /\ RoomFor(m) /\ handleServerEvent(m)

MCSpec == MCInit /\ [][MCNext]_<<vars, scope>>

Symmetry == Permutations({t1, t2})

=============================================================================
