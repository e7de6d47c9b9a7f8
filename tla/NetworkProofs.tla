--------------------------- MODULE NetworkProofs ---------------------------
(***************************************************************************)
(* Theorems about the proxy in a network: once a server that follows the   *)
(* protocol has registered us, the proxy finds out, no client can undo it, *)
(* and what the proxy will know of our channels is the truth.              *)
(***************************************************************************)
EXTENDS Network, LinkProofs, FiniteSetTheorems, WellFoundedInduction

-----------------------------------------------------------------------------
(* What is on its way                                                      *)

\* Some message of the sequence is one of these commands, or at most one is.
Holds(in, cmds) == \E i \in DOMAIN in : in[i].cmd \in cmds
Once(in, cmds)  == \A i, j \in DOMAIN in : in[i].cmd \in cmds /\ in[j].cmd \in cmds => i = j

\* The end of the MOTD comes after the messages that are cached.
Ready(in) ==
    \A i \in DOMAIN in : in[i].cmd \in MotdEnds =>
        \E j \in DOMAIN in : j < i /\ in[j].cmd = "RPL_MYINFO"

\* What a server that follows the protocol sends.
Honest == {m \in ServerMessages : /\ m.cmd # "INVALID"
                                  /\ m.cmd = "RPL_WELCOME" => m.arg # None}

LEMMA HonestMessage ==
    ASSUME NEW m \in Honest
    PROVE  m \in ServerMessages
  BY DEF Honest

\* What is said of a sequence of messages when more is sent...
LEMMA Sent ==
    ASSUME NEW a \in Seq(Honest), NEW b \in Seq(Honest)
    PROVE  /\ a \o b \in Seq(Honest)
           /\ \A cmds : Holds(a \o b, cmds) <=> Holds(a, cmds) \/ Holds(b, cmds)
           /\ \A cmds : Once(a, cmds) /\ ~Holds(b, cmds) => Once(a \o b, cmds)
           /\ \A cmds : ~Holds(a, cmds) /\ Once(b, cmds) => Once(a \o b, cmds)
           /\ Ready(a) /\ (Ready(b) \/ Holds(a, {"RPL_MYINFO"})) => Ready(a \o b)
  <1> DEFINE s == a \o b
  <1>1. /\ s \in Seq(Honest) /\ Len(s) = Len(a) + Len(b)
        /\ Len(a) \in Nat /\ Len(b) \in Nat
        /\ DOMAIN s = 1..Len(a) + Len(b) /\ DOMAIN a = 1..Len(a) /\ DOMAIN b = 1..Len(b)
        /\ \A i \in 1..Len(a) + Len(b) : s[i] = IF i <= Len(a) THEN a[i] ELSE b[i - Len(a)]
    BY ConcatProperties
  <1> HIDE DEF s
  <1>2. /\ \A i \in DOMAIN a : i \in DOMAIN s /\ s[i] = a[i]
        /\ \A i \in DOMAIN b : i + Len(a) \in DOMAIN s /\ s[i + Len(a)] = b[i]
        /\ \A i \in DOMAIN s : \/ i \in DOMAIN a /\ s[i] = a[i]
                               \/ i - Len(a) \in DOMAIN b /\ s[i] = b[i - Len(a)]
    BY <1>1
  <1>3. ASSUME NEW cmds
        PROVE  Holds(s, cmds) <=> Holds(a, cmds) \/ Holds(b, cmds)
    BY <1>2 DEF Holds
  <1>4. ASSUME NEW cmds, Once(a, cmds), ~Holds(b, cmds)
        PROVE  Once(s, cmds)
    <2>1. \A i \in DOMAIN s : s[i].cmd \in cmds => i \in DOMAIN a /\ s[i] = a[i]
      BY <1>2, <1>4 DEF Holds
    <2> QED BY <1>4, <2>1 DEF Once
  <1>5. ASSUME NEW cmds, ~Holds(a, cmds), Once(b, cmds)
        PROVE  Once(s, cmds)
    <2>1. \A i \in DOMAIN s : s[i].cmd \in cmds =>
              i \in Int /\ i - Len(a) \in DOMAIN b /\ s[i] = b[i - Len(a)]
      BY <1>1, <1>2, <1>5 DEF Holds
    <2>2. ASSUME NEW i \in DOMAIN s, NEW j \in DOMAIN s,
                 s[i].cmd \in cmds, s[j].cmd \in cmds
          PROVE  i = j
      <3>1. i - Len(a) = j - Len(a)
        BY <1>5, <2>1, <2>2 DEF Once
      <3> QED BY <1>1, <2>1, <3>1
    <2> QED BY <2>2 DEF Once
  <1>6. ASSUME Ready(a), Ready(b) \/ Holds(a, {"RPL_MYINFO"})
        PROVE  Ready(s)
    <2> SUFFICES ASSUME NEW i \in DOMAIN s, s[i].cmd \in MotdEnds
                 PROVE  \E j \in DOMAIN s : j < i /\ s[j].cmd = "RPL_MYINFO"
      BY DEF Ready
    <2>1. CASE i \in DOMAIN a /\ s[i] = a[i]
      BY <1>2, <1>6, <2>1 DEF Ready
    <2>2. CASE i - Len(a) \in DOMAIN b /\ s[i] = b[i - Len(a)]
      <3>1. CASE Holds(a, {"RPL_MYINFO"})
        <4>1. PICK j \in DOMAIN a : a[j].cmd = "RPL_MYINFO"
          BY <3>1 DEF Holds
        <4>2. j \in DOMAIN s /\ s[j] = a[j] /\ j < i
          BY <1>1, <1>2, <2>2
        <4> QED BY <4>1, <4>2
      <3>2. CASE Ready(b)
        <4>1. PICK j \in DOMAIN b : j < i - Len(a) /\ b[j].cmd = "RPL_MYINFO"
          BY <2>2, <3>2 DEF Ready
        <4>2. j + Len(a) \in DOMAIN s /\ s[j + Len(a)] = b[j] /\ j + Len(a) < i
          BY <1>1, <1>2, <4>1
        <4> QED BY <4>1, <4>2
      <3> QED BY <1>6, <3>1, <3>2
    <2> QED BY <1>2, <2>1, <2>2
  <1> QED BY <1>1, <1>3, <1>4, <1>5, <1>6 DEF s

\* ... and when the first message is read.
LEMMA Taken ==
    ASSUME NEW a \in Seq(Honest), a # <<>>
    PROVE  /\ Head(a) \in Honest /\ Tail(a) \in Seq(Honest)
           /\ \A cmds : Holds(a, cmds) <=> Head(a).cmd \in cmds \/ Holds(Tail(a), cmds)
           /\ \A cmds : Once(a, cmds) => Once(Tail(a), cmds)
           /\ \A cmds : Once(a, cmds) /\ Head(a).cmd \in cmds => ~Holds(Tail(a), cmds)
           /\ Ready(a) => Head(a).cmd \notin MotdEnds
           /\ Ready(a) /\ Head(a).cmd # "RPL_MYINFO" => Ready(Tail(a))
  <1> DEFINE t == Tail(a)
  <1>1. /\ Head(a) \in Honest /\ t \in Seq(Honest)
        /\ Len(a) \in Nat /\ Len(t) = Len(a) - 1 /\ Head(a) = a[1]
        /\ DOMAIN a = 1..Len(a) /\ DOMAIN t = 1..Len(t)
        /\ \A i \in 1..Len(t) : t[i] = a[i + 1]
    BY HeadTailProperties
  <1> HIDE DEF t
  <1>2. /\ 1 \in DOMAIN a
        /\ \A i \in DOMAIN t : i + 1 \in DOMAIN a /\ i + 1 # 1 /\ a[i + 1] = t[i]
        /\ \A i \in DOMAIN a : i # 1 => i - 1 \in DOMAIN t /\ t[i - 1] = a[i]
    BY <1>1
  <1>3. ASSUME NEW cmds
        PROVE  Holds(a, cmds) <=> Head(a).cmd \in cmds \/ Holds(t, cmds)
    BY <1>1, <1>2 DEF Holds
  <1>4. ASSUME NEW cmds, Once(a, cmds)
        PROVE  Once(t, cmds) /\ (Head(a).cmd \in cmds => ~Holds(t, cmds))
    <2>1. ASSUME NEW i \in DOMAIN t, NEW j \in DOMAIN t,
                 t[i].cmd \in cmds, t[j].cmd \in cmds
          PROVE  i = j
      <3>1. i + 1 = j + 1
        BY <1>2, <1>4, <2>1 DEF Once
      <3> QED BY <1>1, <3>1
    <2>2. ASSUME Head(a).cmd \in cmds, NEW i \in DOMAIN t, t[i].cmd \in cmds
          PROVE  FALSE
      BY <1>1, <1>2, <1>4, <2>2 DEF Once
    <2> QED BY <2>1, <2>2 DEF Once, Holds
  <1>5. ASSUME Ready(a)
        PROVE  Head(a).cmd \notin MotdEnds
    BY <1>1, <1>2, <1>5 DEF Ready
  <1>6. ASSUME Ready(a), Head(a).cmd # "RPL_MYINFO", NEW i \in DOMAIN t, t[i].cmd \in MotdEnds
        PROVE  \E j \in DOMAIN t : j < i /\ t[j].cmd = "RPL_MYINFO"
    <2>1. PICK j \in DOMAIN a : j < i + 1 /\ a[j].cmd = "RPL_MYINFO"
      BY <1>2, <1>6 DEF Ready
    <2>2. j # 1
      BY <1>1, <1>6, <2>1
    <2>3. j - 1 \in DOMAIN t /\ t[j - 1] = a[j] /\ j - 1 < i
      BY <1>1, <1>2, <2>1, <2>2
    <2> QED BY <2>1, <2>3
  <1> QED BY <1>1, <1>3, <1>4, <1>5, <1>6 DEF Ready, t

-----------------------------------------------------------------------------
(* The server                                                              *)

\* A server has finitely many users, and registers who has sent NICK and USER.
ServerOK(s) ==
    /\ s \in Server
    /\ \A c \in Channels : IsFiniteSet(s.members[c])
    /\ s.registered <=> s.user /\ s.nick # None

\* What the proxy can write to the server.
Requests == ClientMessages \cup {Bare("MOTD")}

LEMMA RequestFields ==
    ASSUME NEW m \in Requests
    PROVE  /\ m.cmd \in {"JOIN", "PART", "KICK"} => m.target \in Channels
           /\ m.cmd = "KICK" => m.arg \in Nicks
           /\ m.cmd = "NICK" => m.target \in Nicks
  BY DEF Requests, ClientMessages, Bare, Msg

\* Messages with these commands and a nick, channel or text each are honest.
LEMMA HonestReplies ==
    /\ Bare("ERR_NICKNAMEINUSE") \in Honest
    /\ Bare("RPL_MYINFO") \in Honest
    /\ Bare("RPL_ENDOFMOTD") \in Honest
    /\ \A n \in Nicks : Msg("RPL_WELCOME", None, None, n) \in Honest
    /\ \A n \in Names : Msg("QUIT", n, None, None) \in Honest
    /\ \A n \in Names, new \in Nicks : Msg("NICK", n, new, None) \in Honest
    /\ \A n \in Names, c \in Channels : /\ Msg("JOIN", n, c, None) \in Honest
                                        /\ Msg("PART", n, c, None) \in Honest
    /\ \A n \in Names, c \in Channels, v \in Nicks : Msg("KICK", n, c, v) \in Honest
    /\ \A n \in Names, c \in Channels, t \in Texts : Msg("PRIVMSG", n, c, t) \in Honest
    /\ \A n \in Names, c \in Channels : Msg("RPL_NAMEREPLY", None, c, n) \in Honest
    /\ \A c \in Channels : Msg("RPL_ENDOFNAMES", None, c, None) \in Honest
  <1> USE NamesAssumption DEF Honest, Msg, Bare, ServerMessages, Names
  <1>1. Bare("ERR_NICKNAMEINUSE") \in Honest
    BY DEF BareCmds, NickErrors
  <1>2. Bare("RPL_MYINFO") \in Honest
    BY DEF BareCmds, InfoCmds
  <1>3. Bare("RPL_ENDOFMOTD") \in Honest
    BY DEF BareCmds, MotdEnds
  <1>4. \A n \in Nicks : Msg("RPL_WELCOME", None, None, n) \in Honest
    OBVIOUS
  <1>5. \A n \in Names : Msg("QUIT", n, None, None) \in Honest
    OBVIOUS
  <1>6. \A n \in Names, new \in Nicks : Msg("NICK", n, new, None) \in Honest
    OBVIOUS
  <1>7. \A n \in Names, c \in Channels : /\ Msg("JOIN", n, c, None) \in Honest
                                         /\ Msg("PART", n, c, None) \in Honest
    OBVIOUS
  <1>8. \A n \in Names, c \in Channels, v \in Nicks : Msg("KICK", n, c, v) \in Honest
    OBVIOUS
  <1>9. \A n \in Names, c \in Channels, t \in Texts : Msg("PRIVMSG", n, c, t) \in Honest
    BY DEF TextCmds
  <1>10. \A n \in Names, c \in Channels : Msg("RPL_NAMEREPLY", None, c, n) \in Honest
    OBVIOUS
  <1>11. \A c \in Channels : Msg("RPL_ENDOFNAMES", None, c, None) \in Honest
    OBVIOUS
  <1> QED BY <1>1, <1>2, <1>3, <1>4, <1>5, <1>6, <1>7, <1>8, <1>9, <1>10, <1>11

\* The names replies of a channel name its users.
LEMMA NamesRepliesType ==
    ASSUME NEW c \in Channels, NEW users \in SUBSET Nicks, IsFiniteSet(users)
    PROVE  /\ NamesReplies(c, users) \in Seq(Honest)
           /\ \A i \in DOMAIN NamesReplies(c, users) :
                 NamesReplies(c, users)[i].cmd = "RPL_NAMEREPLY"
  <1>1. /\ Cardinality(users) \in Nat
        /\ \E f : f \in [1..Cardinality(users) -> users] /\ IsInjective(f)
    <2>1. Cardinality(users) \in Nat /\ ExistsBijection(1..Cardinality(users), users)
      BY FS_CardinalityType
    <2> QED BY <2>1 DEF ExistsBijection, Bijection, Injection, IsInjective
  <1>2. SetToSeq(users) \in [1..Cardinality(users) -> users]
    BY <1>1 DEF SetToSeq
  <1>3. \A i \in 1..Cardinality(users) : SetToSeq(users)[i] \in Names
    BY <1>2 DEF Names
  <1>4. \A i \in 1..Cardinality(users) :
            Msg("RPL_NAMEREPLY", None, c, SetToSeq(users)[i]) \in Honest
    BY <1>3, HonestReplies
  <1>5. NamesReplies(c, users) \in [1..Cardinality(users) -> Honest]
    BY <1>4 DEF NamesReplies
  <1>6. NamesReplies(c, users) \in Seq(Honest)
    BY <1>1, <1>5
  <1> QED BY <1>6 DEF NamesReplies, Msg

\* What Unregistered and the messages of the proxy do to the server's state.
LEMMA UnregisteredFields ==
    ASSUME NEW s, ServerOK(s)
    PROVE  /\ ServerOK(Unregistered(s))
           /\ ~Unregistered(s).registered /\ ~Unregistered(s).user
           /\ Unregistered(s).nick = None
  <1> DEFINE t == Unregistered(s)
  <1>1. /\ t \in Server /\ ~t.registered /\ ~t.user /\ t.nick = None
        /\ \A c \in Channels : t.members[c] = s.members[c] \ {s.nick}
    BY DEF ServerOK, Server, Unregistered, Names
  <1> HIDE DEF t
  <1>2. \A c \in Channels : IsFiniteSet(t.members[c])
    BY <1>1, FS_RemoveElement, SMTT(30) DEF ServerOK
  <1> QED BY <1>1, <1>2 DEF ServerOK, t

\* A nick that is free is taken; only NICK, USER and what is said in a channel
\* change the server.
LEMMA ServedFields ==
    ASSUME NEW s, ServerOK(s), NEW m \in Requests
    PROVE  /\ ServerOK(Served(s, m))
           /\ Served(s, m).user = (s.user \/ m.cmd = "USER")
           /\ Served(s, m).nick = IF m.cmd = "NICK" /\ m.target \notin s.others
                                    THEN m.target ELSE s.nick
           /\ s.registered => Served(s, m).registered
  <1> DEFINE t == Served(s, m)
  <1>0. s \in Server /\ (s.registered => s.nick \in Nicks)
    BY DEF ServerOK, Server, Names
  <1>1. CASE m.cmd = "NICK" /\ m.target \notin s.others
    <2>1. m.target \in Nicks /\ m.target \in Names /\ m.target # None
      BY <1>1, RequestFields, NamesAssumption DEF Names
    <2>2. t = [s EXCEPT !.nick = m.target, !.registered = s.user,
                        !.members = Renamed(s, s.nick, m.target)]
      BY <1>1 DEF Served
    <2>3. Renamed(s, s.nick, m.target) \in [Channels -> SUBSET Nicks]
      BY <1>0, <2>1 DEF Renamed, Server
    <2>4. /\ t \in Server /\ t.nick = m.target /\ t.registered = s.user /\ t.user = s.user
          /\ t.members = Renamed(s, s.nick, m.target)
      BY <1>0, <2>1, <2>2, <2>3 DEF Server
    <2>5. \A c \in Channels : IsFiniteSet(t.members[c])
      <3> SUFFICES ASSUME NEW c \in Channels PROVE IsFiniteSet(t.members[c])
        OBVIOUS
      <3>1. IsFiniteSet(s.members[c])
        BY DEF ServerOK
      <3>2. IsFiniteSet((s.members[c] \ {s.nick}) \cup {m.target})
        BY <3>1, FS_RemoveElement, FS_AddElement
      <3> QED BY <2>4, <3>1, <3>2 DEF Renamed
    <2> HIDE DEF t
    <2>6. s.user \in BOOLEAN /\ (s.registered <=> s.user /\ s.nick # None)
      BY <1>0 DEF ServerOK, Server
    <2>7. ServerOK(t) /\ (s.registered => t.registered)
      BY <2>1, <2>4, <2>5, <2>6 DEF ServerOK
    <2>8. t.user = (s.user \/ m.cmd = "USER")
      BY <1>1, <2>4, <2>6
    <2> QED BY <1>1, <2>4, <2>7, <2>8 DEF t
  <1>2. CASE m.cmd = "USER"
    <2>1. t = [s EXCEPT !.user = TRUE, !.registered = s.nick # None]
      BY <1>2 DEF Served
    <2>2. /\ t \in Server /\ t.nick = s.nick /\ t.registered = (s.nick # None) /\ t.user
          /\ t.members = s.members
      BY <1>0, <2>1 DEF Server
    <2> HIDE DEF t
    <2> QED BY <1>2, <2>2 DEF ServerOK, t
  <1>3. CASE /\ s.registered /\ m.cmd \in {"JOIN", "PART", "KICK"}
    <2>1. m.target \in Channels
      BY <1>3, RequestFields
    <2>2. PICK x \in Nicks : t \in {s, [s EXCEPT !.members[m.target] = @ \cup {x}],
                                       [s EXCEPT !.members[m.target] = @ \ {x}]}
      BY <1>0, <1>3, RequestFields DEF Served
    <2>3. /\ t \in Server /\ t.nick = s.nick /\ t.registered = s.registered
          /\ t.user = s.user
          /\ \A c \in Channels : t.members[c] \in {s.members[c], s.members[c] \cup {x},
                                                   s.members[c] \ {x}}
      BY <1>0, <2>1, <2>2 DEF Server
    <2> HIDE DEF t
    <2>4. \A c \in Channels : IsFiniteSet(t.members[c])
      <3> SUFFICES ASSUME NEW c \in Channels PROVE IsFiniteSet(t.members[c])
        OBVIOUS
      <3>1. IsFiniteSet(s.members[c])
        BY DEF ServerOK
      <3>2. IsFiniteSet(s.members[c] \cup {x}) /\ IsFiniteSet(s.members[c] \ {x})
        BY <3>1, FS_AddElement, FS_RemoveElement
      <3> QED BY <2>3, <3>1, <3>2
    <2> QED BY <1>3, <2>3, <2>4 DEF ServerOK, t
  <1>4. CASE /\ ~(m.cmd = "NICK" /\ m.target \notin s.others)
             /\ m.cmd # "USER"
             /\ ~(s.registered /\ m.cmd \in {"JOIN", "PART", "KICK"})
    <2>1. t = s
      BY <1>4 DEF Served
    <2> QED BY <1>0, <1>4, <2>1 DEF Server
  <1> QED BY <1>1, <1>2, <1>3, <1>4

\* A sequence without the commands that the handshake is about.
Plain(in) == \A i \in DOMAIN in : in[i].cmd \notin NickErrors \cup MotdEnds

LEMMA PlainSays ==
    ASSUME NEW in, Plain(in)
    PROVE  /\ ~Holds(in, NickErrors) /\ ~Holds(in, MotdEnds)
           /\ Once(in, NickErrors)
           /\ Ready(in)
  BY DEF Plain, Holds, Once, Ready

\* The welcome sequence is complete and in order.
LEMMA WelcomeSays ==
    ASSUME NEW n \in Nicks
    PROVE  /\ WelcomeSequence(n) \in Seq(Honest)
           /\ ~Holds(WelcomeSequence(n), NickErrors)
           /\ Holds(WelcomeSequence(n), MotdEnds)
           /\ Holds(WelcomeSequence(n), {"RPL_MYINFO"})
           /\ Ready(WelcomeSequence(n))
  <1> DEFINE w == WelcomeSequence(n)
  <1>1. w \in Seq(Honest)
    BY HonestReplies DEF WelcomeSequence
  <1>2. /\ DOMAIN w = 1..3
        /\ w[1].cmd = "RPL_WELCOME" /\ w[2].cmd = "RPL_MYINFO" /\ w[3].cmd = "RPL_ENDOFMOTD"
    BY DEF WelcomeSequence, Bare, Msg
  <1> HIDE DEF w
  <1>3. \A i \in DOMAIN w : w[i].cmd \notin NickErrors
    BY <1>2 DEF NickErrors
  <1>4. 2 \in DOMAIN w /\ 3 \in DOMAIN w /\ w[3].cmd \in MotdEnds
    BY <1>2 DEF MotdEnds
  <1>5. Ready(w)
    <2> SUFFICES ASSUME NEW i \in DOMAIN w, w[i].cmd \in MotdEnds
                 PROVE  2 < i
      BY <1>2, <1>4 DEF Ready
    <2> QED BY <1>2 DEF MotdEnds
  <1> QED BY <1>1, <1>2, <1>3, <1>4, <1>5 DEF Holds, w

\* A NICK is refused by one message, and nothing else is; a registration is
\* answered with the welcome sequence; before it no MOTD ends.
LEMMA AnswersSay ==
    ASSUME NEW s, ServerOK(s), NEW m \in Requests
    PROVE  LET t == Served(s, m)
               a == Answers(s, t, m)
           IN  /\ a \in Seq(Honest)
               /\ Once(a, NickErrors)
               /\ Holds(a, NickErrors) <=> m.cmd = "NICK" /\ m.target \in s.others
               /\ ~s.registered => Ready(a)
               /\ t.registered /\ ~s.registered =>
                      Holds(a, {"RPL_MYINFO"}) /\ Holds(a, MotdEnds)
  <1> DEFINE t == Served(s, m)
             a == Answers(s, t, m)
             Refused == m.cmd = "NICK" /\ m.target \in s.others
             Registers == t.registered /\ ~s.registered
             Said == /\ a \in Seq(Honest)
                     /\ Once(a, NickErrors)
                     /\ Holds(a, NickErrors) <=> Refused
                     /\ ~s.registered => Ready(a)
                     /\ Registers => Holds(a, {"RPL_MYINFO"}) /\ Holds(a, MotdEnds)
  <1> SUFFICES Said
    OBVIOUS
  <1>0. /\ s \in Server /\ t \in Server /\ ServerOK(t)
        /\ s.nick \in Names /\ t.nick \in Names
        /\ s.registered => s.nick \in Nicks /\ t.registered
        /\ t.registered => t.nick \in Nicks
    BY ServedFields DEF ServerOK, Server, Names
  <1>e. <<>> \in Seq(Honest) /\ Plain(<<>>)
    BY DEF Plain
  <1>p. ASSUME a \in Seq(Honest), Plain(a), ~Registers, ~Refused
        PROVE  Said
    <2> HIDE DEF a, t
    <2> QED BY <1>p, PlainSays
  <1>s. ASSUME NEW x \in Honest, x.cmd \notin NickErrors \cup MotdEnds
        PROVE  <<x>> \in Seq(Honest) /\ Plain(<<x>>)
    BY <1>s DEF Plain
  <1>1. CASE Refused
    <2>0. t = s
      BY <1>1 DEF Served
    <2>1. a = <<Bare("ERR_NICKNAMEINUSE")>>
      <3> HIDE DEF t
      <3> QED BY <1>1, <2>0 DEF Answers
    <2>2. ~Registers
      BY <2>0
    <2> HIDE DEF a, t
    <2>3. /\ a \in Seq(Honest) /\ DOMAIN a = {1} /\ a[1].cmd = "ERR_NICKNAMEINUSE"
      BY <2>1, HonestReplies DEF Bare, Msg
    <2>4. "ERR_NICKNAMEINUSE" \in NickErrors /\ "ERR_NICKNAMEINUSE" \notin MotdEnds
      BY DEF NickErrors, MotdEnds
    <2>5. Once(a, NickErrors) /\ Holds(a, NickErrors) /\ Ready(a)
      BY <2>3, <2>4 DEF Once, Holds, Ready
    <2> QED BY <1>1, <2>2, <2>3, <2>5
  <1>2. CASE ~Refused /\ Registers
    <2>0. m.cmd \in {"NICK", "USER"}
      BY <1>2 DEF Served
    <2>1. a = WelcomeSequence(t.nick)
      <3> HIDE DEF t
      <3> QED BY <1>2, <2>0 DEF Answers
    <2> HIDE DEF a, t
    <2>2. /\ a \in Seq(Honest) /\ ~Holds(a, NickErrors) /\ Holds(a, MotdEnds)
          /\ Holds(a, {"RPL_MYINFO"}) /\ Ready(a)
      BY <1>0, <1>2, <2>1, WelcomeSays
    <2>3. Once(a, NickErrors)
      BY <2>2 DEF Once, Holds
    <2> QED BY <1>2, <2>2, <2>3
  <1>3. CASE /\ ~Refused
             /\ ~Registers
             /\ m.cmd # "MOTD"
    <2>1. CASE m.cmd = "NICK" /\ s.registered /\ s.nick # t.nick
      <3>1. a = <<Msg("NICK", s.nick, t.nick, None)>>
        BY <1>3, <2>1 DEF Answers
      <3>2. /\ Msg("NICK", s.nick, t.nick, None) \in Honest
            /\ Msg("NICK", s.nick, t.nick, None).cmd \notin NickErrors \cup MotdEnds
        BY <1>0, <2>1, HonestReplies DEF Msg, NickErrors, MotdEnds
      <3> QED BY <1>3, <1>p, <1>s, <3>1, <3>2
    <2>2. CASE m.cmd = "JOIN" /\ s # t
      <3> DEFINE j == Msg("JOIN", t.nick, m.target, None)
                 b == NamesReplies(m.target, t.members[m.target])
                 e == Msg("RPL_ENDOFNAMES", None, m.target, None)
      <3>1. a = <<j>> \o b \o <<e>>
        BY <1>3, <2>2 DEF Answers
      <3>2. m.target \in Channels
        BY <2>2, RequestFields
      <3>3. b \in Seq(Honest) /\ Plain(b)
        <4>1. t.members[m.target] \in SUBSET Nicks /\ IsFiniteSet(t.members[m.target])
          BY <1>0, <3>2 DEF ServerOK, Server
        <4> HIDE DEF t
        <4>2. b \in Seq(Honest) /\ \A i \in DOMAIN b : b[i].cmd = "RPL_NAMEREPLY"
          BY <3>2, <4>1, NamesRepliesType
        <4> QED BY <4>2 DEF Plain, NickErrors, MotdEnds
      <3>4. j \in Honest /\ e \in Honest
        BY <1>0, <3>2, HonestReplies
      <3>5. j.cmd \notin NickErrors \cup MotdEnds /\ e.cmd \notin NickErrors \cup MotdEnds
        BY DEF Msg, NickErrors, MotdEnds
      <3> HIDE DEF b, j, e
      <3>6. /\ <<j>> \in Seq(Honest) /\ Plain(<<j>>)
            /\ <<e>> \in Seq(Honest) /\ Plain(<<e>>)
        BY <1>s, <3>4, <3>5
      <3>7. ASSUME NEW u \in Seq(Honest), NEW v \in Seq(Honest), Plain(u), Plain(v)
            PROVE  u \o v \in Seq(Honest) /\ Plain(u \o v)
        <4>1. u \o v \in Seq(Honest)
          BY Sent
        <4>2. \A w : Plain(w) <=> ~Holds(w, NickErrors \cup MotdEnds)
          BY DEF Plain, Holds
        <4>3. ~Holds(u \o v, NickErrors \cup MotdEnds)
          BY <3>7, <4>2, Sent
        <4> QED BY <4>1, <4>2, <4>3
      <3>8. <<j>> \o b \in Seq(Honest) /\ Plain(<<j>> \o b)
        BY <3>3, <3>6, <3>7
      <3>9. a \in Seq(Honest) /\ Plain(a)
        BY <3>1, <3>6, <3>7, <3>8
      <3> HIDE DEF a, t
      <3> QED BY <1>3, <1>p, <3>9
    <2>3. CASE m.cmd = "PART" /\ s # t
      <3>1. a = <<Msg("PART", s.nick, m.target, None)>>
        BY <1>3, <2>3 DEF Answers
      <3>2. /\ Msg("PART", s.nick, m.target, None) \in Honest
            /\ Msg("PART", s.nick, m.target, None).cmd \notin NickErrors \cup MotdEnds
        BY <1>0, <2>3, RequestFields, HonestReplies DEF Msg, NickErrors, MotdEnds
      <3> QED BY <1>3, <1>p, <1>s, <3>1, <3>2
    <2>4. CASE m.cmd = "KICK" /\ s # t
      <3>1. a = <<Msg("KICK", s.nick, m.target, m.arg)>>
        BY <1>3, <2>4 DEF Answers
      <3>2. /\ Msg("KICK", s.nick, m.target, m.arg) \in Honest
            /\ Msg("KICK", s.nick, m.target, m.arg).cmd \notin NickErrors \cup MotdEnds
        BY <1>0, <2>4, RequestFields, HonestReplies DEF Msg, NickErrors, MotdEnds
      <3> QED BY <1>3, <1>p, <1>s, <3>1, <3>2
    <2>5. CASE /\ ~(m.cmd = "NICK" /\ s.registered /\ s.nick # t.nick)
               /\ ~(m.cmd \in {"JOIN", "PART", "KICK"} /\ s # t)
      <3>1. a = <<>>
        BY <1>3, <2>5 DEF Answers
      <3> QED BY <1>3, <1>e, <1>p, <3>1
    <2> QED BY <2>1, <2>2, <2>3, <2>4, <2>5
  <1>4. CASE /\ m.cmd = "MOTD"
             /\ ~Registers
    <2>1. a = IF s.registered THEN <<Bare("RPL_ENDOFMOTD")>> ELSE <<>>
      BY <1>4 DEF Answers
    <2>2. CASE ~s.registered
      BY <1>4, <1>e, <1>p, <2>1, <2>2
    <2>3. CASE s.registered
      <3> HIDE DEF a, t
      <3>1. /\ a \in Seq(Honest) /\ DOMAIN a = {1} /\ a[1].cmd = "RPL_ENDOFMOTD"
        BY <2>1, <2>3, HonestReplies DEF Bare, Msg
      <3>2. Once(a, NickErrors) /\ ~Holds(a, NickErrors)
        BY <3>1 DEF Once, Holds, NickErrors
      <3> QED BY <1>4, <2>3, <3>1, <3>2
    <2> QED BY <2>2, <2>3
  <1> QED BY <1>1, <1>2, <1>3, <1>4

-----------------------------------------------------------------------------
(* What the proxy knows of the server, and what it is about to be told     *)

\* The welcome sequence is cached before the proxy believes that it is over.
Cached(have, s, in) ==
    have \/ /\ Ready(in)
            /\ s.registered => Holds(in, {"RPL_MYINFO"})

\* The session x that the proxy has for the server, the state s of the server
\* and what is on its way: a nick that was sent is taken or about to be refused,
\* and the end of the MOTD that completes a registration arrives.
Tracked(x, s, in) ==
    /\ s.user => x.haveUser
    /\ s.registered => x.haveMOTD \/ Holds(in, MotdEnds)
    /\ ~Done(x) /\ ~x.haveNick => s.nick = None /\ ~Holds(in, NickErrors)
    /\ ~Done(x) /\ x.haveNick => /\ s.nick = None <=> Holds(in, NickErrors)
                                 /\ Once(in, NickErrors)

\* Both are about the flags of the session and the registration only.
LEMMA TrackedFlags ==
    ASSUME NEW x, NEW y, NEW s, NEW t, NEW in, Tracked(x, s, in), SameHandshake(y, x),
           t.nick = s.nick, t.user = s.user, t.registered = s.registered
    PROVE  Tracked(y, t, in)
  BY DEF Tracked, SameHandshake, Done

\* A new connection.
LEMMA TrackedNew ==
    ASSUME NEW s, ServerOK(s), NEW have
    PROVE  Tracked(NewSession, Unregistered(s), <<>>) /\ Cached(have, Unregistered(s), <<>>)
  <1>1. \A cmds : ~Holds(<<>>, cmds)
    BY DEF Holds
  <1>2. Ready(<<>>)
    BY DEF Ready
  <1> QED BY <1>1, <1>2, UnregisteredFields DEF Tracked, Cached, NewSession

\* The proxy reads the next message.
LEMMA TrackedReads ==
    ASSUME NEW in \in Seq(Honest), in # <<>>, NEW x \in Session, NEW s, Tracked(x, s, in)
    PROVE  Tracked(UpdateFromServer(x, Head(in)), s, Tail(in))
  <1> DEFINE m == Head(in)
             t == Tail(in)
             y == UpdateFromServer(x, m)
  <1>1. /\ \A cmds : Holds(in, cmds) <=> m.cmd \in cmds \/ Holds(t, cmds)
        /\ \A cmds : Once(in, cmds) => Once(t, cmds)
        /\ \A cmds : Once(in, cmds) /\ m.cmd \in cmds => ~Holds(t, cmds)
        /\ m \in ServerMessages
    BY Taken, HonestMessage
  <1>2. SameHandshake(y, HandshakeFromServer(x, m)) /\ (Done(x) => Done(y))
    BY <1>1, FlagsFromServer
  <1>3. NickErrors \cap MotdEnds = {}
    BY DEF NickErrors, MotdEnds
  <1>4. /\ y.haveUser = x.haveUser
        /\ y.haveNick = IF ~Done(x) /\ m.cmd \in NickErrors THEN FALSE ELSE x.haveNick
        /\ y.haveMOTD = IF ~Done(x) /\ m.cmd \in MotdEnds THEN TRUE ELSE x.haveMOTD
    BY <1>2, <1>3 DEF SameHandshake, HandshakeFromServer, Session
  <1> HIDE DEF y, m, t
  <1>5. Done(x) => x.haveUser /\ x.haveNick /\ x.haveMOTD
    BY DEF Done
  <1>6. Tracked(y, s, t)
    <2>1. (s.user => y.haveUser) /\ (s.registered => y.haveMOTD \/ Holds(t, MotdEnds))
      BY <1>1, <1>4, <1>5 DEF Tracked
    <2>2. ASSUME ~Done(y), ~y.haveNick
          PROVE  s.nick = None /\ ~Holds(t, NickErrors)
      <3>1. ~Done(x)
        BY <1>2, <2>2
      <3>2. CASE m.cmd \in NickErrors
        BY <1>1, <3>1, <3>2 DEF Tracked
      <3>3. CASE m.cmd \notin NickErrors
        BY <1>1, <1>4, <2>2, <3>1, <3>3 DEF Tracked
      <3> QED BY <3>2, <3>3
    <2>3. ASSUME ~Done(y), y.haveNick
          PROVE  (s.nick = None <=> Holds(t, NickErrors)) /\ Once(t, NickErrors)
      <3>1. ~Done(x) /\ m.cmd \notin NickErrors /\ x.haveNick
        BY <1>2, <1>4, <2>3
      <3> QED BY <1>1, <3>1 DEF Tracked
    <2> QED BY <2>1, <2>2, <2>3 DEF Tracked
  <1> QED BY <1>6 DEF y, m, t

\* The proxy's message reaches the server.  Before the handshake is done, a nick
\* is sent only after the last one was refused.
LEMMA TrackedServes ==
    ASSUME NEW in \in Seq(Honest), NEW x \in Session, NEW s, ServerOK(s), NEW m \in Requests,
           Tracked(x, s, in), m.cmd = "NICK" /\ ~Done(x) => ~x.haveNick
    PROVE  Tracked(UpdateFromClient(x, m), Served(s, m),
                   in \o Answers(s, Served(s, m), m))
  <1> DEFINE t == Served(s, m)
             a == Answers(s, t, m)
             b == in \o a
             y == UpdateFromClient(x, m)
             Refused == m.cmd = "NICK" /\ m.target \in s.others
  <1>1. /\ t.user = (s.user \/ m.cmd = "USER")
        /\ t.nick = IF m.cmd = "NICK" /\ m.target \notin s.others THEN m.target ELSE s.nick
        /\ m.cmd = "NICK" => m.target # None
    BY ServedFields, RequestFields, NamesAssumption
  <1>2. /\ a \in Seq(Honest) /\ Once(a, NickErrors)
        /\ Holds(a, NickErrors) <=> Refused
        /\ t.registered /\ ~s.registered => Holds(a, MotdEnds)
    BY AnswersSay
  <1> HIDE DEF a, t
  <1>3. /\ \A cmds : Holds(b, cmds) <=> Holds(in, cmds) \/ Holds(a, cmds)
        /\ \A cmds : Once(in, cmds) /\ ~Holds(a, cmds) => Once(b, cmds)
        /\ \A cmds : ~Holds(in, cmds) /\ Once(a, cmds) => Once(b, cmds)
    BY <1>2, Sent
  <1>4. /\ y.haveUser = IF ~Done(x) /\ m.cmd = "USER" THEN TRUE ELSE x.haveUser
        /\ y.haveNick = IF ~Done(x) /\ m.cmd = "NICK" THEN TRUE ELSE x.haveNick
        /\ y.haveMOTD = x.haveMOTD
    BY DEF UpdateFromClient, HandshakeFromClient, Session
  <1>5. (Done(x) => x.haveUser /\ x.haveNick /\ x.haveMOTD) /\ (Done(x) => Done(y))
    BY FlagsFromClient DEF Done
  <1> HIDE DEF b, y
  <1>6. (t.user => y.haveUser) /\ (t.registered => y.haveMOTD \/ Holds(b, MotdEnds))
    <2>1. t.user => y.haveUser
      BY <1>1, <1>4, <1>5 DEF Tracked
    <2>2. s.registered => x.haveMOTD \/ Holds(in, MotdEnds)
      BY DEF Tracked
    <2> QED BY <1>2, <1>3, <1>4, <2>1, <2>2
  <1>7. ASSUME ~Done(y), ~y.haveNick
        PROVE  t.nick = None /\ ~Holds(b, NickErrors)
    <2>1. ~Done(x) /\ ~x.haveNick /\ m.cmd # "NICK"
      BY <1>4, <1>5, <1>7
    <2>2. s.nick = None /\ ~Holds(in, NickErrors)
      BY <2>1 DEF Tracked
    <2> QED BY <1>1, <1>2, <1>3, <2>1, <2>2
  <1>8. ASSUME ~Done(y), y.haveNick
        PROVE  (t.nick = None <=> Holds(b, NickErrors)) /\ Once(b, NickErrors)
    <2>1. ~Done(x)
      BY <1>5, <1>8
    <2>2. CASE m.cmd = "NICK"
      <3>1. s.nick = None /\ ~Holds(in, NickErrors)
        BY <2>1, <2>2 DEF Tracked
      <3> QED BY <1>1, <1>2, <1>3, <2>2, <3>1
    <2>3. CASE m.cmd # "NICK"
      <3>1. x.haveNick
        BY <1>4, <1>8, <2>3
      <3>2. (s.nick = None <=> Holds(in, NickErrors)) /\ Once(in, NickErrors)
        BY <2>1, <3>1 DEF Tracked
      <3> QED BY <1>1, <1>2, <1>3, <2>3, <3>2
    <2> QED BY <2>2, <2>3
  <1> QED BY <1>6, <1>7, <1>8 DEF Tracked, a, b, t, y

\* The same for the cache.
LEMMA CachedReads ==
    ASSUME NEW in \in Seq(Honest), in # <<>>, NEW s, NEW have \in BOOLEAN, Cached(have, s, in)
    PROVE  /\ Cached(have \/ Head(in).cmd = "RPL_MYINFO", s, Tail(in))
           /\ Head(in).cmd \in MotdEnds => have
  BY Taken DEF Cached

LEMMA CachedServes ==
    ASSUME NEW in \in Seq(Honest), NEW s, ServerOK(s), NEW m \in Requests,
           NEW have \in BOOLEAN, Cached(have, s, in)
    PROVE  Cached(have, Served(s, m), in \o Answers(s, Served(s, m), m))
  <1> DEFINE t == Served(s, m)
             a == Answers(s, t, m)
             b == in \o a
  <1>1. /\ a \in Seq(Honest)
        /\ ~s.registered => Ready(a)
        /\ t.registered /\ ~s.registered => Holds(a, {"RPL_MYINFO"})
    BY AnswersSay
  <1> HIDE DEF a, t
  <1>2. /\ \A cmds : Holds(b, cmds) <=> Holds(in, cmds) \/ Holds(a, cmds)
        /\ Ready(in) /\ (Ready(a) \/ Holds(in, {"RPL_MYINFO"})) => Ready(b)
    BY <1>1, Sent
  <1> HIDE DEF b
  <1>3. Cached(have, t, b)
    BY <1>1, <1>2 DEF Cached
  <1> QED BY <1>3 DEF b, a, t

-----------------------------------------------------------------------------
(* What the proxy will know: the fold of Hears over a sequence             *)

\* A set of natural numbers has a least element (WFMin, on < over Nat)...
LEMMA Least ==
    ASSUME NEW T \in SUBSET Nat, NEW n \in T
    PROVE  \E x \in T : \A y \in T : x <= y
  <1> DEFINE R == OpToRel(<, Nat)
  <1>1. IsWellFoundedOn(R, Nat)
    BY NatLessThanWellFounded
  <1>2. \A x, y \in Nat : y < x => <<y, x>> \in R
    BY DEF OpToRel
  <1> HIDE DEF R
  <1>3. PICK x \in T : \A y \in T : ~ (<<y, x>> \in R)
    BY <1>1, WFMin
  <1>4. ASSUME NEW y \in T PROVE x <= y
    <2>1. x \in Nat /\ y \in Nat
      OBVIOUS
    <2>2. ~ (y < x)
      <3>1. ~ (<<y, x>> \in R)
        BY <1>3
      <3>2. y < x => <<y, x>> \in R
        BY <1>2, <2>1
      <3> QED BY <3>1, <3>2
    <2> QED BY <2>1, <2>2
  <1> QED BY <1>4

\* ... so that there is induction for sets of numbers.
LEMMA Induction ==
    ASSUME NEW T, 0 \in T, \A n \in Nat : n \in T => n + 1 \in T
    PROVE  Nat \subseteq T
  <1> SUFFICES ASSUME NEW k \in Nat, k \notin T PROVE FALSE
    OBVIOUS
  <1> DEFINE U == Nat \ T
  <1>1. PICK x \in U : \A y \in U : x <= y
    BY Least
  <1>2. x \in Nat /\ x # 0 /\ x \notin T
    OBVIOUS
  <1>3. x - 1 \in Nat /\ x - 1 \notin U
    BY <1>1, <1>2
  <1>4. (x - 1) + 1 \in T
    BY <1>3
  <1> QED BY <1>2, <1>4

\* The folds of all prefixes.
Folded(f, s, in) ==
    /\ f[0] = s
    /\ \A k \in 1..Len(in) : f[k] = Hears(f[k - 1], in[k])

\* FoldLeft is defined: some function on the sets of positions satisfies its equation.
LEMMA FoldLeftIs ==
   ASSUME NEW s, NEW in \in Seq(Honest)
   PROVE  \E f : Folded(f, s, in) /\ FoldLeft(Hears, s, in) = f[Len(in)]
  <1> DEFINE Step(g, u) == IF u = {} THEN s
                           ELSE LET x == Max(u) IN Hears(g[u \ {x}], in[x])
             Fits(g, n) == g = [u \in SUBSET (1..n) |-> Step(g, u)]
             Ok == {n \in Nat : \E g : Fits(g, n)}
  <1>1. 0 \in Ok
    <2> DEFINE g == [u \in SUBSET (1..0) |-> s]
    <2>1. \A u \in SUBSET (1..0) : u = {}
      OBVIOUS
    <2>2. g = [u \in SUBSET (1..0) |-> Step(g, u)]
      BY <2>1
    <2> QED BY <2>2
  <1>2. ASSUME NEW n \in Nat, n \in Ok PROVE n + 1 \in Ok
    <2> DEFINE N == n + 1
    <2>1. PICK g : Fits(g, n)
      BY <1>2
    <2> DEFINE h == [u \in SUBSET (1..N) |-> IF N \in u THEN Hears(g[u \ {N}], in[N]) ELSE g[u]]
    <2>2. ASSUME NEW u \in SUBSET (1..N), N \in u
          PROVE  Max(u) = N
      <3>1. \A y \in u : N >= y
        BY <1>2, <2>2
      <3>2. \A x \in u : (\A y \in u : x >= y) => x = N
        BY <1>2, <2>2
      <3> HIDE DEF N
      <3> QED BY <2>2, <3>1, <3>2 DEF Max
    <2>3. ASSUME NEW u \in SUBSET (1..N) PROVE h[u] = Step(h, u)
      <3>1. CASE N \in u
        <4>1. u \ {N} \in SUBSET (1..N) /\ N \notin u \ {N} /\ u # {}
          BY <3>1
        <4>2. h[u] = Hears(g[u \ {N}], in[N]) /\ h[u \ {N}] = g[u \ {N}]
          BY <3>1, <4>1
        <4> HIDE DEF h
        <4> QED BY <2>2, <3>1, <4>1, <4>2
      <3>2. CASE N \notin u
        <4>0. \A y \in u : y \in 1..n
          <5> TAKE y \in u
          <5>1. y \in 1..N /\ y # N
            BY <3>2
          <5> QED BY <1>2, <5>1
        <4>1. u \in SUBSET (1..n) /\ \A x : u \ {x} \in SUBSET (1..N) /\ N \notin u \ {x}
          <5> HIDE DEF N
          <5> QED BY <2>3, <3>2, <4>0
        <4>2. h[u] = g[u] /\ \A x : h[u \ {x}] = g[u \ {x}]
          BY <3>2, <4>1
        <4>3. g[u] = Step(g, u)
          BY <2>1, <4>1
        <4> HIDE DEF h
        <4> QED BY <4>2, <4>3
      <3> QED BY <3>1, <3>2
    <2>4. h = [u \in SUBSET (1..N) |-> h[u]]
      OBVIOUS
    <2>5. Fits(h, N)
      <3> HIDE DEF h
      <3> QED BY <2>3, <2>4
    <2>6. N \in Nat
      BY <1>2
    <2> HIDE DEF h, N, Fits
    <2>7. N \in Ok
      BY <2>5, <2>6
    <2> QED BY <2>7 DEF N
  <1>3. Len(in) \in Nat /\ DOMAIN in = 1..Len(in)
    OBVIOUS
  <1>4. \E g : Fits(g, Len(in))
    <2> HIDE DEF Ok
    <2>1. Len(in) \in Ok
      BY <1>1, <1>2, <1>3, Induction
    <2> QED BY <2>1 DEF Ok
  <1> DEFINE iter == CHOOSE g : Fits(g, Len(in))
  <1>5. Fits(iter, Len(in))
    BY <1>4
  <1>6. FoldLeft(Hears, s, in) = iter[1..Len(in)]
    BY <1>3 DEF FoldLeft, MapThenFoldSet
  <1> HIDE DEF iter
  <1> DEFINE f == [k \in 0..Len(in) |-> iter[1..k]]
  <1>7. f[0] = s
    BY <1>3, <1>5
  <1>8. ASSUME NEW k \in 1..Len(in) PROVE f[k] = Hears(f[k - 1], in[k])
    <2>1. Max(1..k) = k
      <3>1. k \in 1..k /\ \A y \in 1..k : k >= y
        BY <1>3
      <3>2. \A x \in 1..k : (\A y \in 1..k : x >= y) => x = k
        BY <1>3
      <3> QED BY <3>1, <3>2 DEF Max
    <2>2. (1..k) \ {k} = 1..(k - 1) /\ 1..k # {}
      <3>1. \A y : y \in (1..k) \ {k} <=> y \in 1..(k - 1)
        BY <1>3
      <3>2. k \in 1..k
        BY <1>3
      <3> QED BY <3>1, <3>2
    <2>3. 1..k \in SUBSET (1..Len(in))
      BY <1>3
    <2>4. iter[1..k] = Step(iter, 1..k)
      BY <1>5, <2>3
    <2>5. iter[1..k] = Hears(iter[1..(k - 1)], in[k])
      BY <2>1, <2>2, <2>4
    <2>6. k \in 0..Len(in) /\ k - 1 \in 0..Len(in)
      BY <1>3
    <2> QED BY <2>5, <2>6
  <1>9. f[Len(in)] = iter[1..Len(in)]
    BY <1>3
  <1> HIDE DEF f
  <1> QED BY <1>6, <1>7, <1>8, <1>9 DEF Folded

\* The folds of the prefixes are determined, one after the other...
LEMMA FoldedOnce ==
    ASSUME NEW s, NEW in \in Seq(Honest), NEW f, Folded(f, s, in), NEW g, Folded(g, s, in)
    PROVE  f[Len(in)] = g[Len(in)]
  <1> DEFINE T == {n \in Nat : n <= Len(in) => f[n] = g[n]}
  <1>1. Len(in) \in Nat
    OBVIOUS
  <1>2. 0 \in T
    BY DEF Folded
  <1>3. ASSUME NEW n \in Nat, n \in T PROVE n + 1 \in T
    <2> SUFFICES ASSUME n + 1 <= Len(in) PROVE f[n + 1] = g[n + 1]
      BY <1>3
    <2>1. n + 1 \in 1..Len(in) /\ (n + 1) - 1 = n /\ n <= Len(in)
      BY <1>1
    <2>2. f[n] = g[n]
      BY <1>3, <2>1
    <2> QED BY <2>1, <2>2 DEF Folded
  <1> HIDE DEF T
  <1>4. Len(in) \in T
    BY <1>1, <1>2, <1>3, Induction
  <1> QED BY <1>4 DEF T

\* ... and the last of them is FoldLeft.
LEMMA FoldIs ==
    ASSUME NEW s, NEW in \in Seq(Honest), NEW f, Folded(f, s, in)
    PROVE  FoldLeft(Hears, s, in) = f[Len(in)]
  <1>1. PICK g : Folded(g, s, in) /\ FoldLeft(Hears, s, in) = g[Len(in)]
    BY FoldLeftIs
  <1> QED BY <1>1, FoldedOnce

\* Nothing, and one message.
LEMMA FoldShort ==
    ASSUME NEW s
    PROVE  /\ FoldLeft(Hears, s, <<>>) = s
           /\ \A m \in Honest : FoldLeft(Hears, s, <<m>>) = Hears(s, m)
  <1>1. FoldLeft(Hears, s, <<>>) = s
    <2> DEFINE f == [k \in {0} |-> s]
    <2>1. Folded(f, s, <<>>)
      BY DEF Folded
    <2>2. f[Len(<<>>)] = s /\ <<>> \in Seq(Honest)
      OBVIOUS
    <2> HIDE DEF f
    <2> QED BY <2>1, <2>2, FoldIs
  <1>2. ASSUME NEW m \in Honest PROVE FoldLeft(Hears, s, <<m>>) = Hears(s, m)
    <2> DEFINE f == [k \in {0, 1} |-> IF k = 0 THEN s ELSE Hears(s, m)]
    <2>1. f[0] = s /\ f[1] = Hears(s, m)
      OBVIOUS
    <2>2. <<m>> \in Seq(Honest) /\ Len(<<m>>) = 1 /\ <<m>>[1] = m
      OBVIOUS
    <2> HIDE DEF f
    <2>3. ASSUME NEW k \in 1..1 PROVE k = 1 /\ k - 1 = 0
      BY <2>3
    <2>4. Folded(f, s, <<m>>)
      BY <2>1, <2>2, <2>3 DEF Folded
    <2> QED BY <2>1, <2>2, <2>4, FoldIs
  <1> QED BY <1>1, <1>2

\* One sequence after another.
LEMMA FoldConcat ==
    ASSUME NEW s, NEW a \in Seq(Honest), NEW b \in Seq(Honest)
    PROVE  FoldLeft(Hears, s, a \o b) = FoldLeft(Hears, FoldLeft(Hears, s, a), b)
  <1> DEFINE c == a \o b
  <1>1. /\ c \in Seq(Honest) /\ Len(c) = Len(a) + Len(b)
        /\ Len(a) \in Nat /\ Len(b) \in Nat
        /\ \A i \in 1..Len(a) + Len(b) : c[i] = IF i <= Len(a) THEN a[i] ELSE b[i - Len(a)]
    BY ConcatProperties
  <1> HIDE DEF c
  <1>2. PICK h : Folded(h, s, c) /\ FoldLeft(Hears, s, c) = h[Len(c)]
    BY <1>1, FoldLeftIs
  <1>3. /\ h[0] = s
        /\ \A k \in 1..Len(a) + Len(b) : h[k] = Hears(h[k - 1], c[k])
    BY <1>1, <1>2 DEF Folded
  <1>4. Folded(h, s, a)
    <2>1. ASSUME NEW k \in 1..Len(a) PROVE k \in 1..Len(a) + Len(b) /\ c[k] = a[k]
      <3>1. k \in 1..Len(a) + Len(b) /\ k <= Len(a)
        BY <1>1
      <3> QED BY <1>1, <3>1
    <2> QED BY <1>3, <2>1 DEF Folded
  <1> DEFINE g == [k \in 0..Len(b) |-> h[Len(a) + k]]
  <1>5. /\ Len(a) + 0 = Len(a) /\ 0 \in 0..Len(b) /\ Len(b) \in 0..Len(b)
        /\ \A k \in 1..Len(b) : /\ k \in 0..Len(b) /\ k - 1 \in 0..Len(b)
                                /\ Len(a) + k \in 1..Len(a) + Len(b)
                                /\ (Len(a) + k) - 1 = Len(a) + (k - 1)
                                /\ ~(Len(a) + k <= Len(a))
                                /\ (Len(a) + k) - Len(a) = k
    BY <1>1
  <1>6. g[0] = h[Len(a)] /\ g[Len(b)] = h[Len(a) + Len(b)]
    BY <1>5
  <1>7. ASSUME NEW k \in 1..Len(b) PROVE g[k] = Hears(g[k - 1], b[k])
    <2>1. g[k] = h[Len(a) + k] /\ g[k - 1] = h[(Len(a) + k) - 1]
      BY <1>5
    <2>2. c[Len(a) + k] = b[k]
      BY <1>1, <1>5
    <2> QED BY <1>3, <1>5, <2>1, <2>2
  <1> HIDE DEF g
  <1>8. Folded(g, h[Len(a)], b)
    BY <1>6, <1>7 DEF Folded
  <1>9. FoldLeft(Hears, s, a) = h[Len(a)]
    BY <1>4, FoldIs
  <1>10. FoldLeft(Hears, h[Len(a)], b) = h[Len(a) + Len(b)]
    BY <1>6, <1>8, FoldIs
  <1> QED BY <1>1, <1>2, <1>9, <1>10 DEF c

\* What is known of the rest once the first message was read.
LEMMA FoldHead ==
    ASSUME NEW s, NEW a \in Seq(Honest), a # <<>>
    PROVE  FoldLeft(Hears, s, a) = FoldLeft(Hears, Hears(s, Head(a)), Tail(a))
  <1>1. Head(a) \in Honest /\ Tail(a) \in Seq(Honest) /\ <<Head(a)>> \in Seq(Honest)
    BY HeadTailProperties
  <1>2. a = <<Head(a)>> \o Tail(a)
    OBVIOUS
  <1>3. FoldLeft(Hears, s, <<Head(a)>> \o Tail(a))
          = FoldLeft(Hears, FoldLeft(Hears, s, <<Head(a)>>), Tail(a))
    BY <1>1, FoldConcat
  <1> QED BY <1>1, <1>2, <1>3, FoldShort

\* What two sessions have in common, they have in common after more messages.
LEMMA FoldBoth ==
    ASSUME NEW R, NEW s, NEW t, <<s, t>> \in R, NEW in \in Seq(Honest),
           \A x, y : \A m \in Honest : <<x, y>> \in R => <<Hears(x, m), Hears(y, m)>> \in R
    PROVE  <<FoldLeft(Hears, s, in), FoldLeft(Hears, t, in)>> \in R
  <1>1. PICK f : Folded(f, s, in) /\ FoldLeft(Hears, s, in) = f[Len(in)]
    BY FoldLeftIs
  <1>2. PICK g : Folded(g, t, in) /\ FoldLeft(Hears, t, in) = g[Len(in)]
    BY FoldLeftIs
  <1> DEFINE T == {n \in Nat : n <= Len(in) => <<f[n], g[n]>> \in R}
  <1>3. Len(in) \in Nat /\ \A k \in 1..Len(in) : in[k] \in Honest
    OBVIOUS
  <1>4. 0 \in T
    BY <1>1, <1>2 DEF Folded
  <1>5. ASSUME NEW n \in Nat, n \in T PROVE n + 1 \in T
    <2> SUFFICES ASSUME n + 1 <= Len(in) PROVE <<f[n + 1], g[n + 1]>> \in R
      BY <1>5
    <2>1. n + 1 \in 1..Len(in) /\ (n + 1) - 1 = n /\ n <= Len(in)
      BY <1>3
    <2>2. <<f[n], g[n]>> \in R
      BY <1>5, <2>1
    <2>3. f[n + 1] = Hears(f[n], in[n + 1]) /\ g[n + 1] = Hears(g[n], in[n + 1])
      BY <1>1, <1>2, <2>1 DEF Folded
    <2> QED BY <1>3, <2>1, <2>2, <2>3
  <1> HIDE DEF T
  <1>6. Len(in) \in T
    BY <1>3, <1>4, <1>5, Induction
  <1> QED BY <1>1, <1>2, <1>6 DEF T

-----------------------------------------------------------------------------
(* What one message tells                                                  *)

\* Two sessions with the same nick and channels.
SameView(s, t) == s.nick = t.nick /\ s.channels = t.channels

\* The nick, the channels and the handshake after a message.
LEMMA HearsFields ==
    ASSUME NEW x \in Session, NEW m \in Honest
    PROVE  /\ Hears(x, m) \in Session
           /\ SameHandshake(Hears(x, m), UpdateFromServer(x, m))
           /\ Hears(x, m).nick =
                 IF m.cmd = "RPL_WELCOME" THEN m.arg
                 ELSE IF IsMe(x, m.prefix) /\ m.cmd = "NICK" THEN m.target
                 ELSE x.nick
           /\ Hears(x, m).channels =
                 IF m.cmd = "RPL_WELCOME" THEN x.channels
                 ELSE IF IsMe(x, m.prefix) /\ m.cmd \in {"KICK", "PART"}
                        THEN [ChannelsFromServer(x.channels, m) EXCEPT ![m.target] = NoChannel]
                        ELSE ChannelsFromServer(x.channels, m)
  <1> DEFINE h == HandshakeFromServer(x, m)
             k == [h EXCEPT !.channels = ChannelsFromServer(@, m)]
  <1>0. m \in ServerMessages
    BY HonestMessage
  <1>1. h \in Session /\ h.nick = x.nick /\ h.channels = x.channels
    BY DEF HandshakeFromServer, Session
  <1> HIDE DEF h
  <1>2. /\ k \in Session /\ k.nick = x.nick
        /\ k.channels = ChannelsFromServer(x.channels, m)
    BY <1>0, <1>1, ChannelsFromServerType DEF Session
  <1>3. UpdateFromServer(x, m) = AboutMe(k, m)
    BY DEF UpdateFromServer, h
  <1> HIDE DEF k
  <1>4. IsMe(k, m.prefix) <=> IsMe(x, m.prefix)
    BY <1>2 DEF IsMe
  <1>5. CASE m.cmd = "RPL_WELCOME"
    <2>1. Hears(x, m) = [x EXCEPT !.nick = m.arg] /\ m.arg \in Names
      BY <1>0, <1>5, MessageFields DEF Hears
    <2>2. m.cmd \notin NickErrors \cup MotdEnds
      BY <1>5 DEF NickErrors, MotdEnds
    <2>3. SameHandshake(UpdateFromServer(x, m), x)
      BY <1>0, <2>2, FlagsFromServer
    <2> QED BY <1>5, <2>1, <2>3 DEF Session, SameHandshake
  <1>6. CASE m.cmd # "RPL_WELCOME"
    <2>1. Hears(x, m) = AboutMe(k, m) /\ Hears(x, m) = UpdateFromServer(x, m)
      BY <1>3, <1>6 DEF Hears
    <2>2. Hears(x, m) \in Session /\ SameHandshake(Hears(x, m), UpdateFromServer(x, m))
      BY <1>0, <2>1, UpdateFromServerType DEF SameHandshake
    <2>3. CASE IsMe(k, m.prefix) /\ m.cmd \in {"KICK", "PART"}
      <3>1. Hears(x, m) = [k EXCEPT !.channels[m.target] = NoChannel]
        BY <2>1, <2>3 DEF AboutMe, DeleteChannel
      <3>2. /\ Hears(x, m).nick = k.nick
            /\ Hears(x, m).channels = [k.channels EXCEPT ![m.target] = NoChannel]
        BY <1>2, <3>1 DEF Session
      <3> QED BY <1>2, <1>4, <1>6, <2>2, <2>3, <3>2
    <2>4. CASE IsMe(k, m.prefix) /\ m.cmd = "NICK"
      <3>1. Hears(x, m) = [k EXCEPT !.nick = m.target]
        BY <2>1, <2>4 DEF AboutMe
      <3>2. Hears(x, m).nick = m.target /\ Hears(x, m).channels = k.channels
        BY <1>2, <3>1 DEF Session
      <3> QED BY <1>2, <1>4, <1>6, <2>2, <2>4, <3>2
    <2>5. CASE ~(IsMe(k, m.prefix) /\ m.cmd \in {"KICK", "PART", "NICK"})
      <3>1. Hears(x, m) = k
        BY <2>1, <2>5 DEF AboutMe
      <3> QED BY <1>2, <1>4, <1>6, <2>2, <2>5, <3>1
    <2> QED BY <2>3, <2>4, <2>5
  <1> QED BY <1>5, <1>6

\* The handshake flags do not matter for what is known of the channels.
LEMMA FoldView ==
    ASSUME NEW x \in Session, NEW y \in Session, SameView(x, y), NEW in \in Seq(Honest)
    PROVE  /\ FoldLeft(Hears, x, in) \in Session
           /\ SameView(FoldLeft(Hears, x, in), FoldLeft(Hears, y, in))
  <1> DEFINE R == {w \in Session \X Session : SameView(w[1], w[2])}
  <1>1. <<x, y>> \in R
    OBVIOUS
  <1>2. ASSUME NEW v, NEW w, NEW m \in Honest, <<v, w>> \in R
        PROVE  <<Hears(v, m), Hears(w, m)>> \in R
    <2>1. v \in Session /\ w \in Session /\ SameView(v, w)
      BY <1>2
    <2>2. IsMe(v, m.prefix) <=> IsMe(w, m.prefix)
      BY <2>1 DEF IsMe, SameView
    <2>3. SameView(Hears(v, m), Hears(w, m))
      <3> DEFINE N(u) == IF m.cmd = "RPL_WELCOME" THEN m.arg
                         ELSE IF IsMe(u, m.prefix) /\ m.cmd = "NICK" THEN m.target
                         ELSE u.nick
                 C(u) == IF m.cmd = "RPL_WELCOME" THEN u.channels
                         ELSE IF IsMe(u, m.prefix) /\ m.cmd \in {"KICK", "PART"}
                           THEN [ChannelsFromServer(u.channels, m) EXCEPT ![m.target] = NoChannel]
                           ELSE ChannelsFromServer(u.channels, m)
      <3>1. \A u \in Session : Hears(u, m).nick = N(u) /\ Hears(u, m).channels = C(u)
        BY HearsFields
      <3>2. N(v) = N(w) /\ C(v) = C(w)
        <4>1. v.nick = w.nick /\ v.channels = w.channels
          BY <2>1 DEF SameView
        <4> QED BY <2>2, <4>1
      <3> HIDE DEF N, C
      <3> QED BY <2>1, <3>1, <3>2 DEF SameView
    <2>4. Hears(v, m) \in Session /\ Hears(w, m) \in Session
      BY <2>1, HearsFields
    <2> QED BY <2>3, <2>4
  <1> HIDE DEF R
  <1>3. <<FoldLeft(Hears, x, in), FoldLeft(Hears, y, in)>> \in R
    BY <1>1, <1>2, FoldBoth
  <1> QED BY <1>3 DEF R

\* Messages that say nothing of nicks and channels.
ViewCmds == {"RPL_WELCOME", "JOIN", "PART", "KICK", "QUIT", "NICK", "RPL_NAMEREPLY", "RPL_TOPIC"}

LEMMA HearsNothing ==
    ASSUME NEW x \in Session, NEW m \in Honest, m.cmd \notin ViewCmds
    PROVE  SameView(Hears(x, m), x)
  <1>1. ChannelsFromServer(x.channels, m) = x.channels
    BY DEF ChannelsFromServer, ViewCmds
  <1> QED BY <1>1, HearsFields DEF SameView, ViewCmds

\* What a JOIN, a PART or a names reply says of its channel, and a NICK or QUIT
\* of every channel that is known.
LEMMA HearsChannel ==
    ASSUME NEW x \in Session, NEW m \in Honest, NEW c \in Channels
    PROVE  LET old == x.channels[c]
               new == Hears(x, m).channels[c]
               us  == UsersFromServer(old.users, m)
           IN  /\ m.cmd \in {"JOIN", "PART", "RPL_NAMEREPLY", "KICK"} /\ m.target # c => new = old
               /\ m.cmd \in {"JOIN", "RPL_NAMEREPLY"} /\ m.target = c =>
                     /\ new.joined
                     /\ new.users = IF old.joined THEN us ELSE UsersFromServer({}, m)
               /\ m.cmd \in {"PART", "KICK"} /\ m.target = c =>
                     /\ IsMe(x, m.prefix) => ~new.joined
                     /\ ~IsMe(x, m.prefix) /\ old.joined => new.joined /\ new.users = us
               /\ m.cmd \in {"NICK", "QUIT"} =>
                     /\ new.joined = old.joined
                     /\ old.joined => new.users = us
  <1> DEFINE old == x.channels[c]
             new == Hears(x, m).channels[c]
             all == ChannelsFromServer(x.channels, m)
  <1>1. x.channels \in [Channels -> ChannelState] /\ old \in ChannelState
    BY DEF Session
  <1>2. all \in [Channels -> ChannelState]
    BY <1>1, HonestMessage, ChannelsFromServerType
  <1>3. /\ Got(old).joined
        /\ Got(old).users = IF old.joined THEN old.users ELSE {}
        /\ Got(old) \in ChannelState
    BY <1>1 DEF Got, NewChannelState, ChannelState
  <1>4. \A ch \in ChannelState : /\ ChannelFromServer(ch, m).joined = ch.joined
                                 /\ ChannelFromServer(ch, m).users = UsersFromServer(ch.users, m)
    BY DEF ChannelFromServer, ChannelState
  <1>5. CASE m.cmd \in {"JOIN", "PART", "RPL_NAMEREPLY", "KICK"}
    <2>1. all[c] = IF m.target = c THEN ChannelFromServer(Got(old), m) ELSE old
      BY <1>1, <1>5 DEF ChannelsFromServer
    <2>2. new = IF IsMe(x, m.prefix) /\ m.cmd \in {"KICK", "PART"} /\ m.target = c
                  THEN NoChannel ELSE all[c]
      <3> HIDE DEF all
      <3> QED BY <1>2, <1>5, HearsFields DEF all
    <2>3. ~NoChannel.joined
      BY DEF NoChannel
    <2> HIDE DEF new, all, old
    <2> QED BY <1>3, <1>4, <1>5, <2>1, <2>2, <2>3 DEF new, old
  <1>6. CASE m.cmd \in {"NICK", "QUIT"}
    <2>1. all[c] = IF old.joined THEN ChannelFromServer(old, m) ELSE old
      BY <1>6 DEF ChannelsFromServer
    <2>2. new = all[c]
      <3> HIDE DEF all
      <3> QED BY <1>6, HearsFields DEF all
    <2> HIDE DEF new, all, old
    <2> QED BY <1>1, <1>4, <1>6, <2>1, <2>2 DEF new, old
  <1> QED BY <1>5, <1>6

\* Three messages.
LEMMA FoldThree ==
    ASSUME NEW x, NEW in \in Seq(Honest), Len(in) = 3
    PROVE  FoldLeft(Hears, x, in) = Hears(Hears(Hears(x, in[1]), in[2]), in[3])
  <1>1. PICK f : Folded(f, x, in) /\ FoldLeft(Hears, x, in) = f[3]
    BY FoldLeftIs
  <1>2. f[0] = x /\ \A k \in 1..3 : f[k] = Hears(f[k - 1], in[k])
    BY <1>1 DEF Folded
  <1>3. f[1] = Hears(f[0], in[1]) /\ f[2] = Hears(f[1], in[2]) /\ f[3] = Hears(f[2], in[3])
    <2>1. 1 - 1 = 0 /\ 2 - 1 = 1 /\ 3 - 1 = 2 /\ 1 \in 1..3 /\ 2 \in 1..3 /\ 3 \in 1..3
      OBVIOUS
    <2> QED BY <1>2, <2>1
  <1> QED BY <1>1, <1>2, <1>3

\* The names replies add every user of a channel that is known.
LEMMA NamesHeard ==
    ASSUME NEW c \in Channels, NEW users \in SUBSET Nicks, IsFiniteSet(users),
           NEW v \in Session, v.channels[c].joined
    PROVE  LET w == FoldLeft(Hears, v, NamesReplies(c, users))
           IN  /\ w \in Session /\ w.nick = v.nick
               /\ w.channels[c].joined
               /\ w.channels[c].users = v.channels[c].users \cup users
               /\ \A d \in Channels : d # c => w.channels[d] = v.channels[d]
  <1> DEFINE in == NamesReplies(c, users)
             n == Cardinality(users)
             q == SetToSeq(users)
             Heard(w, k) == /\ w \in Session /\ w.nick = v.nick
                            /\ w.channels[c].joined
                            /\ w.channels[c].users = v.channels[c].users \cup {q[i] : i \in 1..k}
                            /\ \A d \in Channels : d # c => w.channels[d] = v.channels[d]
  <1>1. n \in Nat /\ \E f : f \in [1..n -> users] /\ IsInjective(f)
    <2>1. n \in Nat /\ ExistsBijection(1..n, users)
      BY FS_CardinalityType
    <2> QED BY <2>1 DEF ExistsBijection, Bijection, Injection, IsInjective
  <1>2. q \in [1..n -> users] /\ IsInjective(q)
    BY <1>1 DEF SetToSeq
  <1>3. {q[i] : i \in 1..n} = users
    <2> HIDE DEF q
    <2> DEFINE r == {q[i] : i \in 1..n}
    <2>1. r \subseteq users
      BY <1>2
    <2>2. q \in Bijection(1..n, r)
      BY <1>2 DEF Bijection, Injection, Surjection, IsInjective
    <2>3. Cardinality(r) = n
      <3>1. Cardinality(1..n) = n /\ IsFiniteSet(1..n)
        BY <1>1, FS_Interval
      <3>2. Cardinality(r) = Cardinality(1..n)
        BY <2>2, <3>1, FS_Bijection DEF ExistsBijection
      <3> QED BY <3>1, <3>2
    <2> HIDE DEF r
    <2>4. r = users
      BY <2>1, <2>3, FS_Subset
    <2> QED BY <2>4 DEF r
  <1>4. /\ in \in Seq(Honest) /\ Len(in) = n
        /\ \A i \in 1..n : in[i] = Msg("RPL_NAMEREPLY", None, c, q[i])
    BY <1>1, NamesRepliesType DEF NamesReplies
  <1> HIDE DEF in, n, q
  <1>5. PICK f : Folded(f, v, in) /\ FoldLeft(Hears, v, in) = f[n]
    BY <1>4, FoldLeftIs
  <1> DEFINE T == {k \in Nat : k <= n => Heard(f[k], k)}
  <1>6. 0 \in T
    <2>1. {q[i] : i \in 1..0} = {}
      OBVIOUS
    <2>2. f[0] = v
      BY <1>5 DEF Folded
    <2> QED BY <2>1, <2>2
  <1>7. ASSUME NEW k \in Nat, k \in T PROVE k + 1 \in T
    <2> SUFFICES ASSUME k + 1 <= n PROVE Heard(f[k + 1], k + 1)
      BY <1>7
    <2> DEFINE w == f[k]
               m == in[k + 1]
               y == Hears(w, m)
    <2>1. k + 1 \in 1..n /\ (k + 1) - 1 = k /\ k <= n
      BY <1>1
    <2>2. Heard(w, k)
      BY <1>7, <2>1
    <2>3. f[k + 1] = y
      BY <1>4, <1>5, <2>1 DEF Folded
    <2>4. /\ m \in Honest /\ m.cmd = "RPL_NAMEREPLY" /\ m.target = c /\ m.arg = q[k + 1]
          /\ m.prefix = None
      BY <1>4, <2>1 DEF Msg
    <2> HIDE DEF w, m
    <2>5. y \in Session /\ y.nick = w.nick
      BY <2>2, <2>4, HearsFields
    <2>6. \A d \in Channels : d # c => y.channels[d] = w.channels[d]
      BY <2>2, <2>4, HearsChannel
    <2>7. /\ y.channels[c].joined
          /\ y.channels[c].users = UsersFromServer(w.channels[c].users, m)
      BY <2>2, <2>4, HearsChannel
    <2>8. UsersFromServer(w.channels[c].users, m) = w.channels[c].users \cup {q[k + 1]}
      BY <2>4 DEF UsersFromServer
    <2>9. {q[i] : i \in 1..(k + 1)} = {q[i] : i \in 1..k} \cup {q[k + 1]}
      <3>1. \A i : i \in 1..(k + 1) <=> i \in 1..k \/ i = k + 1
        OBVIOUS
      <3> QED BY <3>1
    <2> HIDE DEF y
    <2>10. Heard(y, k + 1)
      BY <2>2, <2>5, <2>6, <2>7, <2>8, <2>9
    <2> QED BY <2>3, <2>10
  <1> HIDE DEF T
  <1>8. n \in T
    BY <1>1, <1>6, <1>7, Induction
  <1>9. Heard(f[n], n)
    BY <1>1, <1>8 DEF T
  <1> QED BY <1>3, <1>5, <1>9 DEF in

-----------------------------------------------------------------------------
(* The truth, and what the proxy will know of it                           *)

\* A channel as the proxy knows it, and its members on the server.
AgreesIn(ch, nick, members) ==
    /\ ch.joined <=> nick \in members
    /\ ch.joined => ch.users = members

\* The session v, after all that is on its way, and the state s of the server.
Agrees(v, s) ==
    IF s.registered
      THEN /\ v.nick = s.nick
           /\ \A c \in Channels : AgreesIn(v.channels[c], s.nick, s.members[c])
      ELSE /\ v.nick = None
           /\ \A c \in Channels : ~v.channels[c].joined

\* Who is in a channel is one of the others, or us; our nick is nobody else's.
MembersOK(s) ==
    /\ s.nick \notin s.others
    /\ \A c \in Channels :
         s.members[c] \subseteq s.others \cup (IF s.registered THEN {s.nick} ELSE {})

\* The agreement is about the nick and the channels only.
LEMMA AgreesView ==
    ASSUME NEW v, NEW w, NEW s, SameView(v, w), Agrees(v, s)
    PROVE  Agrees(w, s)
  BY DEF Agrees, SameView

\* A new connection.
LEMMA AgreesNew ==
    ASSUME NEW s, ServerOK(s), MembersOK(s)
    PROVE  /\ MembersOK(Unregistered(s))
           /\ Agrees(FoldLeft(Hears, NewSession, <<>>), Unregistered(s))
  <1> DEFINE u == Unregistered(s)
  <1>1. /\ ~u.registered /\ u.nick = None /\ u.others = s.others /\ s.others \in SUBSET Nicks
        /\ \A c \in Channels : u.members[c] = s.members[c] \ {s.nick}
    BY DEF ServerOK, Server, Unregistered
  <1> HIDE DEF u
  <1>2. MembersOK(u)
    <2>1. u.nick \notin u.others
      BY <1>1, NamesAssumption
    <2>2. ASSUME NEW c \in Channels PROVE u.members[c] \subseteq u.others
      BY <1>1 DEF MembersOK
    <2> QED BY <1>1, <2>1, <2>2 DEF MembersOK
  <1>3. NewSession.nick = None /\ \A c \in Channels : ~NewSession.channels[c].joined
    BY DEF NewSession, NoChannel
  <1>4. Agrees(NewSession, u)
    BY <1>1, <1>3 DEF Agrees
  <1> QED BY <1>2, <1>4, FoldShort DEF u

\* Our requests move nobody but us.
LEMMA MembersServes ==
    ASSUME NEW s, ServerOK(s), MembersOK(s), NEW m \in Requests
    PROVE  MembersOK(Served(s, m))
  <1> DEFINE t == Served(s, m)
  <1>0. s \in Server /\ \A c \in Channels : s.members[c] \in SUBSET Nicks
    BY DEF ServerOK, Server
  <1>1. CASE m.cmd = "NICK" /\ m.target \notin s.others
    <2>1. t = [s EXCEPT !.nick = m.target, !.registered = s.user,
                        !.members = Renamed(s, s.nick, m.target)]
      BY <1>1 DEF Served
    <2>2. /\ t.nick = m.target /\ t.registered = s.user /\ t.others = s.others
          /\ \A c \in Channels : t.members[c] = IF s.nick \in s.members[c]
                                   THEN (s.members[c] \ {s.nick}) \cup {m.target}
                                   ELSE s.members[c]
      BY <1>0, <2>1 DEF Server, Renamed
    <2> HIDE DEF t
    <2>3. ASSUME NEW c \in Channels
          PROVE  t.members[c] \subseteq t.others \cup (IF t.registered THEN {t.nick} ELSE {})
      <3>1. CASE s.nick \in s.members[c]
        <4>1. s.registered
          BY <3>1 DEF MembersOK
        <4>2. s.user
          BY <4>1 DEF ServerOK
        <4>3. s.members[c] \ {s.nick} \subseteq s.others
          BY <4>1 DEF MembersOK
        <4> QED BY <2>2, <3>1, <4>2, <4>3
      <3>2. CASE s.nick \notin s.members[c]
        <4>1. s.members[c] \subseteq s.others
          BY <3>2 DEF MembersOK
        <4> QED BY <2>2, <3>2, <4>1
      <3> QED BY <3>1, <3>2
    <2> QED BY <1>1, <2>2, <2>3 DEF MembersOK, t
  <1>2. CASE m.cmd = "USER"
    <2>1. t = [s EXCEPT !.user = TRUE, !.registered = s.nick # None]
      BY <1>2 DEF Served
    <2>2. /\ t.nick = s.nick /\ t.registered = (s.nick # None) /\ t.others = s.others
          /\ t.members = s.members
      BY <1>0, <2>1 DEF Server
    <2>3. s.registered => t.registered
      BY <2>2 DEF ServerOK
    <2> HIDE DEF t
    <2> QED BY <2>2, <2>3 DEF MembersOK, t
  <1>3. CASE s.registered /\ m.cmd \in {"JOIN", "PART"}
    <2>1. m.target \in Channels
      BY <1>3, RequestFields
    <2>2. \/ t = [s EXCEPT !.members[m.target] = @ \cup {s.nick}]
          \/ t = [s EXCEPT !.members[m.target] = @ \ {s.nick}]
      BY <1>3 DEF Served
    <2>3. /\ t.nick = s.nick /\ t.registered = s.registered /\ t.others = s.others
          /\ \A c \in Channels : t.members[c] \subseteq s.members[c] \cup {s.nick}
      BY <1>0, <2>1, <2>2 DEF Server
    <2> HIDE DEF t
    <2> QED BY <1>3, <2>3 DEF MembersOK, t
  <1>4. CASE s.registered /\ m.cmd = "KICK"
    <2>1. m.target \in Channels
      BY <1>4, RequestFields
    <2>2. t = s \/ t = [s EXCEPT !.members[m.target] = @ \ {m.arg}]
      BY <1>4 DEF Served
    <2>3. /\ t.nick = s.nick /\ t.registered = s.registered /\ t.others = s.others
          /\ \A c \in Channels : t.members[c] \subseteq s.members[c]
      BY <1>0, <2>1, <2>2 DEF Server
    <2> HIDE DEF t
    <2> QED BY <1>4, <2>3 DEF MembersOK, t
  <1>5. CASE /\ ~(m.cmd = "NICK" /\ m.target \notin s.others)
             /\ m.cmd # "USER"
             /\ ~(s.registered /\ m.cmd \in {"JOIN", "PART", "KICK"})
    <2>1. t = s
      BY <1>5 DEF Served
    <2> QED BY <2>1
  <1> QED BY <1>1, <1>2, <1>3, <1>4, <1>5

\* A message that says nothing of nicks and channels, and the server has not
\* changed but for its flags.
LEMMA AgreesNothing ==
    ASSUME NEW s, NEW v \in Session, Agrees(v, s), NEW m \in Honest, m.cmd \notin ViewCmds
    PROVE  Agrees(FoldLeft(Hears, v, <<m>>), s)
  <1>1. FoldLeft(Hears, v, <<m>>) = Hears(v, m)
    BY FoldShort
  <1>2. SameView(v, Hears(v, m))
    BY HearsNothing DEF SameView
  <1> QED BY <1>1, <1>2, AgreesView

\* The welcome sequence of a server that registers us in no channel.
LEMMA AgreesWelcome ==
    ASSUME NEW s, NEW v \in Session, \A c \in Channels : ~v.channels[c].joined,
           s.registered, s.nick \in Nicks, \A c \in Channels : s.nick \notin s.members[c]
    PROVE  Agrees(FoldLeft(Hears, v, WelcomeSequence(s.nick)), s)
  <1> DEFINE a == Msg("RPL_WELCOME", None, None, s.nick)
             b == Bare("RPL_MYINFO")
             c == Bare("RPL_ENDOFMOTD")
             w == Hears(v, a)
  <1>1. a \in Honest /\ b \in Honest /\ c \in Honest
    BY HonestReplies
  <1>2. a.cmd = "RPL_WELCOME" /\ a.arg = s.nick /\ b.cmd \notin ViewCmds /\ c.cmd \notin ViewCmds
    BY DEF Msg, Bare, ViewCmds
  <1>3. FoldLeft(Hears, v, WelcomeSequence(s.nick)) = Hears(Hears(w, b), c)
    <2> DEFINE in == WelcomeSequence(s.nick)
    <2>1. in \in Seq(Honest) /\ Len(in) = 3 /\ in[1] = a /\ in[2] = b /\ in[3] = c
      BY WelcomeSays DEF WelcomeSequence
    <2> HIDE DEF in, a, b, c
    <2>2. FoldLeft(Hears, v, in) = Hears(Hears(Hears(v, a), b), c)
      BY <2>1, FoldThree
    <2> QED BY <2>2 DEF in
  <1> HIDE DEF a, b, c
  <1>4. w \in Session /\ w.nick = s.nick /\ w.channels = v.channels
    BY <1>1, <1>2, HearsFields
  <1> HIDE DEF w
  <1>5. Hears(w, b) \in Session /\ SameView(Hears(w, b), w)
    BY <1>1, <1>2, <1>4, HearsNothing, HearsFields
  <1>6. SameView(Hears(Hears(w, b), c), Hears(w, b))
    BY <1>1, <1>2, <1>5, HearsNothing
  <1>7. SameView(w, Hears(Hears(w, b), c))
    BY <1>5, <1>6 DEF SameView
  <1>8. Agrees(w, s)
    BY <1>4 DEF Agrees, AgreesIn
  <1> QED BY <1>3, <1>7, <1>8, AgreesView

\* Our own JOIN, the names of the channel and their end.
LEMMA AgreesJoin ==
    ASSUME NEW s, NEW t, ServerOK(t), NEW v \in Session, Agrees(v, s), NEW c \in Channels,
           s.registered, t.registered, t.nick = s.nick, t.nick \in t.members[c],
           s.nick \notin s.members[c],
           \A d \in Channels : d # c => t.members[d] = s.members[d],
           NEW in, in = <<Msg("JOIN", t.nick, c, None)>> \o NamesReplies(c, t.members[c])
                            \o <<Msg("RPL_ENDOFNAMES", None, c, None)>>
    PROVE  Agrees(FoldLeft(Hears, v, in), t)
  <1> DEFINE j == Msg("JOIN", t.nick, c, None)
             b == NamesReplies(c, t.members[c])
             e == Msg("RPL_ENDOFNAMES", None, c, None)
             w == Hears(v, j)
             x == FoldLeft(Hears, w, b)
  <1>1. t.members[c] \in SUBSET Nicks /\ IsFiniteSet(t.members[c]) /\ t.nick \in Nicks
    BY DEF ServerOK, Server
  <1>2. j \in Honest /\ e \in Honest
    BY <1>1, HonestReplies DEF Names
  <1>3. /\ j.cmd = "JOIN" /\ j.target = c /\ j.prefix = t.nick
        /\ e.cmd \notin ViewCmds
    BY DEF Msg, ViewCmds
  <1>4. b \in Seq(Honest)
    BY <1>1, NamesRepliesType
  <1> HIDE DEF j, e
  <1>5. FoldLeft(Hears, v, in) = Hears(x, e)
    <2> HIDE DEF b
    <2>1. /\ <<j>> \in Seq(Honest) /\ <<e>> \in Seq(Honest) /\ <<j>> \o b \in Seq(Honest)
      BY <1>2, <1>4
    <2>2. FoldLeft(Hears, v, (<<j>> \o b) \o <<e>>)
            = FoldLeft(Hears, FoldLeft(Hears, v, <<j>> \o b), <<e>>)
      BY <2>1, FoldConcat
    <2>3. FoldLeft(Hears, v, <<j>> \o b) = x
      <3>1. FoldLeft(Hears, v, <<j>> \o b) = FoldLeft(Hears, FoldLeft(Hears, v, <<j>>), b)
        BY <1>4, <2>1, FoldConcat
      <3>2. FoldLeft(Hears, v, <<j>>) = w
        BY <1>2, FoldShort
      <3> QED BY <3>1, <3>2
    <2>4. in = (<<j>> \o b) \o <<e>>
      BY DEF j, b, e
    <2> HIDE DEF x
    <2> QED BY <1>2, <2>2, <2>3, <2>4, FoldShort
  <1>6. v.nick = s.nick /\ \A d \in Channels : AgreesIn(v.channels[d], s.nick, s.members[d])
    BY DEF Agrees
  <1>7. /\ w \in Session /\ w.nick = v.nick /\ w.channels[c].joined
        /\ w.channels[c].users = {t.nick}
        /\ \A d \in Channels : d # c => w.channels[d] = v.channels[d]
    <2>1. w \in Session /\ w.nick = v.nick
      BY <1>2, <1>3, HearsFields
    <2>2. \A d \in Channels : d # c => w.channels[d] = v.channels[d]
      BY <1>2, <1>3, HearsChannel
    <2>3. ~v.channels[c].joined
      BY <1>6 DEF AgreesIn
    <2>4. UsersFromServer({}, j) = {t.nick}
      BY <1>1, <1>3, NamesAssumption DEF UsersFromServer
    <2> QED BY <1>2, <1>3, <2>1, <2>2, <2>3, <2>4, HearsChannel
  <1> HIDE DEF w
  <1>8. /\ x \in Session /\ x.nick = w.nick /\ x.channels[c].joined
        /\ x.channels[c].users = {t.nick} \cup t.members[c]
        /\ \A d \in Channels : d # c => x.channels[d] = w.channels[d]
    BY <1>1, <1>7, NamesHeard
  <1> HIDE DEF b, x
  <1>9. Agrees(x, t)
    <2>1. ASSUME NEW d \in Channels PROVE AgreesIn(x.channels[d], t.nick, t.members[d])
      <3>1. CASE d = c
        BY <1>8, <3>1 DEF AgreesIn
      <3>2. CASE d # c
        BY <1>6, <1>7, <1>8, <3>2
      <3> QED BY <3>1, <3>2
    <2> QED BY <1>6, <1>7, <1>8, <2>1 DEF Agrees
  <1>10. SameView(x, Hears(x, e))
    BY <1>2, <1>3, <1>8, HearsNothing DEF SameView
  <1> QED BY <1>5, <1>9, <1>10, AgreesView DEF j, b, e

\* Our own PART.
LEMMA AgreesPart ==
    ASSUME NEW s, NEW t, NEW v \in Session, Agrees(v, s), NEW c \in Channels,
           s.registered, t.registered, t.nick = s.nick, s.nick \in Nicks,
           t.nick \notin t.members[c],
           \A d \in Channels : d # c => t.members[d] = s.members[d],
           NEW in, in = <<Msg("PART", s.nick, c, None)>>
    PROVE  Agrees(FoldLeft(Hears, v, in), t)
  <1> DEFINE m == Msg("PART", s.nick, c, None)
             w == Hears(v, m)
  <1>1. m \in Honest /\ m.cmd = "PART" /\ m.target = c /\ m.prefix = s.nick
    BY HonestReplies DEF Names, Msg
  <1> HIDE DEF m
  <1>2. v.nick = s.nick /\ \A d \in Channels : AgreesIn(v.channels[d], s.nick, s.members[d])
    BY DEF Agrees
  <1>3. IsMe(v, m.prefix)
    BY <1>1, <1>2, NamesAssumption DEF IsMe
  <1>4. w.nick = v.nick
    BY <1>1, HearsFields
  <1>5. ~w.channels[c].joined /\ \A d \in Channels : d # c => w.channels[d] = v.channels[d]
    BY <1>1, <1>3, HearsChannel
  <1> HIDE DEF w
  <1>6. ASSUME NEW d \in Channels PROVE AgreesIn(w.channels[d], t.nick, t.members[d])
    <2>1. CASE d = c
      BY <1>5, <2>1 DEF AgreesIn
    <2>2. CASE d # c
      BY <1>2, <1>5, <2>2
    <2> QED BY <2>1, <2>2
  <1>7. Agrees(w, t)
    BY <1>2, <1>4, <1>6 DEF Agrees
  <1> QED BY <1>1, <1>7, FoldShort DEF m, w

\* A new nick, of us or of somebody else, in all the channels that we know.
LEMMA AgreesNick ==
    ASSUME NEW s, NEW t, ServerOK(s), MembersOK(s), NEW v \in Session, Agrees(v, s),
           s.registered, t.registered, NEW n \in Nicks, NEW new \in Nicks,
           new \notin s.others \cup {s.nick},
           t.nick = IF n = s.nick THEN new ELSE s.nick,
           \A d \in Channels : t.members[d] = Renamed(s, n, new)[d]
    PROVE  Agrees(Hears(v, Msg("NICK", n, new, None)), t)
  <1> DEFINE m == Msg("NICK", n, new, None)
             w == Hears(v, m)
  <1>1. m \in Honest /\ m.cmd = "NICK" /\ m.target = new /\ m.prefix = n
    BY HonestReplies DEF Names, Msg
  <1> HIDE DEF m
  <1>2. v.nick = s.nick /\ \A d \in Channels : AgreesIn(v.channels[d], s.nick, s.members[d])
    BY DEF Agrees
  <1>3. IsMe(v, m.prefix) <=> n = s.nick
    BY <1>1, <1>2, NamesAssumption DEF IsMe
  <1>4. w.nick = t.nick
    BY <1>1, <1>2, <1>3, HearsFields
  <1> HIDE DEF w
  <1>5. ASSUME NEW d \in Channels PROVE AgreesIn(w.channels[d], t.nick, t.members[d])
    <2>1. t.members[d] = IF n \in s.members[d] THEN (s.members[d] \ {n}) \cup {new}
                                               ELSE s.members[d]
      BY DEF Renamed
    <2>2. new \notin s.members[d]
      BY DEF MembersOK
    <2>3. /\ w.channels[d].joined = v.channels[d].joined
          /\ v.channels[d].joined =>
                w.channels[d].users = UsersFromServer(v.channels[d].users, m)
      BY <1>1, HearsChannel DEF w
    <2>4. UsersFromServer(s.members[d], m) = t.members[d]
      BY <1>1, <2>1, NamesAssumption DEF UsersFromServer
    <2>5. s.nick \in s.members[d] <=> t.nick \in t.members[d]
      BY <2>1, <2>2
    <2>6. AgreesIn(v.channels[d], s.nick, s.members[d])
      BY <1>2
    <2>7. v.channels[d].joined \in BOOLEAN /\ w.channels[d].joined \in BOOLEAN
      BY <2>3 DEF Session, ChannelState
    <2> QED BY <2>3, <2>4, <2>5, <2>6, <2>7 DEF AgreesIn
  <1>6. Agrees(w, t)
    BY <1>4, <1>5 DEF Agrees
  <1> QED BY <1>6 DEF m, w

\* What the server answers to a request tells the proxy all that the request
\* changed.
LEMMA AgreesServes ==
    ASSUME NEW s, ServerOK(s), MembersOK(s), NEW v \in Session, Agrees(v, s),
           NEW m \in Requests, m.cmd # "KICK"
    PROVE  Agrees(FoldLeft(Hears, v, Answers(s, Served(s, m), m)), Served(s, m))
  <1> DEFINE t == Served(s, m)
             a == Answers(s, t, m)
             Refused == m.cmd = "NICK" /\ m.target \in s.others
             Goal == Agrees(FoldLeft(Hears, v, a), t)
  <1> SUFFICES Goal
    OBVIOUS
  <1>0. /\ s \in Server /\ ServerOK(t) /\ MembersOK(t)
        /\ s.registered => s.nick \in Nicks /\ t.registered
        /\ t.registered => t.nick \in Nicks
        /\ t.nick = IF m.cmd = "NICK" /\ m.target \notin s.others THEN m.target ELSE s.nick
    BY ServedFields, MembersServes DEF ServerOK, Server, Names
  <1>n. ASSUME t = s, a = <<>> PROVE Goal
    <2> HIDE DEF t, a
    <2> QED BY <1>n, FoldShort
  <1>o. ASSUME t = s, NEW x \in Honest, x.cmd \notin ViewCmds, a = <<x>> PROVE Goal
    <2> HIDE DEF t, a
    <2> QED BY <1>o, AgreesNothing
  <1>1. CASE Refused
    <2>1. t = s
      BY <1>1 DEF Served
    <2>2. a = <<Bare("ERR_NICKNAMEINUSE")>>
      <3> HIDE DEF t
      <3> QED BY <1>1, <2>1 DEF Answers
    <2>3. Bare("ERR_NICKNAMEINUSE") \in Honest /\ Bare("ERR_NICKNAMEINUSE").cmd \notin ViewCmds
      BY HonestReplies DEF Bare, Msg, ViewCmds
    <2> HIDE DEF Goal, t, a
    <2> QED BY <1>o, <2>1, <2>2, <2>3
  <1>2. CASE ~Refused /\ ~s.registered
    <2>1. CASE ~t.registered
      <3>1. a = <<>>
        <4>1. m.cmd \in {"JOIN", "PART"} => t = s
          BY <1>2 DEF Served
        <4> HIDE DEF t
        <4> QED BY <1>2, <2>1, <4>1 DEF Answers
      <3>2. v.nick = None /\ \A c \in Channels : ~v.channels[c].joined
        BY <1>2 DEF Agrees
      <3>3. Agrees(v, t)
        <4> HIDE DEF t
        <4> QED BY <2>1, <3>2 DEF Agrees
      <3> HIDE DEF t, a
      <3> QED BY <3>1, <3>3, FoldShort
    <2>2. CASE t.registered
      <3>1. a = WelcomeSequence(t.nick)
        <4>1. m.cmd \in {"NICK", "USER"}
          BY <1>2, <2>2 DEF Served
        <4> HIDE DEF t
        <4> QED BY <1>2, <2>2, <4>1 DEF Answers
      <3>2. \A c \in Channels : ~v.channels[c].joined
        BY <1>2 DEF Agrees
      <3>3. ASSUME NEW c \in Channels PROVE t.nick \notin t.members[c]
        <4>1. s.members[c] \subseteq s.others /\ s.nick \notin s.members[c]
          BY <1>2 DEF MembersOK
        <4>2. t.members[c] = s.members[c] /\ t.others = s.others
          <5>1. CASE m.cmd = "NICK"
            <6>1. t = [s EXCEPT !.nick = m.target, !.registered = s.user,
                                !.members = Renamed(s, s.nick, m.target)]
              BY <1>2, <5>1 DEF Served
            <6>2. t.members = Renamed(s, s.nick, m.target) /\ t.others = s.others
              BY <1>0, <6>1 DEF Server
            <6> HIDE DEF t
            <6> QED BY <4>1, <6>2 DEF Renamed
          <5>2. CASE m.cmd # "NICK"
            <6>1. \/ t = [s EXCEPT !.user = TRUE, !.registered = s.nick # None]
                  \/ t = s
              BY <1>2, <5>2 DEF Served
            <6> HIDE DEF t
            <6> QED BY <1>0, <6>1 DEF Server
          <5> QED BY <5>1, <5>2
        <4>3. t.nick \notin t.others
          BY <1>0 DEF MembersOK
        <4> HIDE DEF t
        <4> QED BY <4>1, <4>2, <4>3
      <3> HIDE DEF a, t
      <3> QED BY <1>0, <2>2, <3>1, <3>2, <3>3, AgreesWelcome
    <2> QED BY <2>1, <2>2
  <1>3. CASE ~Refused /\ s.registered /\ m.cmd = "NICK"
    <2>1. t = [s EXCEPT !.nick = m.target, !.registered = s.user,
                        !.members = Renamed(s, s.nick, m.target)]
      BY <1>3 DEF Served
    <2>2. t.members = Renamed(s, s.nick, m.target) /\ t.nick = m.target
      BY <1>0, <2>1 DEF Server
    <2>3. m.target \in Nicks
      BY <1>3, RequestFields
    <2>4. CASE s.nick = m.target
      <3>1. Renamed(s, s.nick, m.target) = s.members
        BY <1>0, <2>4 DEF Renamed, Server
      <3>2. s.user /\ s.registered
        BY <1>3 DEF ServerOK
      <3>3. t = s
        <4>1. s.user = TRUE /\ s.registered = TRUE
          BY <1>0, <3>2 DEF Server
        <4> QED BY <1>0, <2>1, <2>4, <3>1, <4>1 DEF Server
      <3>4. a = <<>>
        <4> HIDE DEF t
        <4> QED BY <1>3, <3>3 DEF Answers
      <3> HIDE DEF Goal, t, a
      <3> QED BY <1>n, <3>3, <3>4
    <2>5. CASE s.nick # m.target
      <3>1. a = <<Msg("NICK", s.nick, m.target, None)>>
        <4> HIDE DEF t
        <4> QED BY <1>0, <1>3, <2>2, <2>5 DEF Answers
      <3>2. m.target \notin s.others \cup {s.nick}
        BY <1>3, <2>5
      <3>3. Agrees(Hears(v, Msg("NICK", s.nick, m.target, None)), t)
        <4> HIDE DEF t
        <4> QED BY <1>0, <1>3, <2>2, <2>3, <3>2, AgreesNick
      <3>4. Msg("NICK", s.nick, m.target, None) \in Honest
        BY <1>0, <1>3, <2>3, HonestReplies DEF Names
      <3> HIDE DEF t, a
      <3> QED BY <3>1, <3>3, <3>4, FoldShort
    <2> QED BY <2>4, <2>5
  <1>4. CASE s.registered /\ m.cmd = "JOIN"
    <2>1. t = [s EXCEPT !.members[m.target] = @ \cup {s.nick}] /\ m.target \in Channels
      BY <1>4, RequestFields DEF Served
    <2>2. CASE s.nick \in s.members[m.target]
      <3>1. s.members[m.target] \cup {s.nick} = s.members[m.target]
        BY <2>2
      <3>2. t = s
        BY <1>0, <2>1, <3>1 DEF Server
      <3>3. a = <<>>
        <4> HIDE DEF t
        <4> QED BY <1>4, <3>2 DEF Answers
      <3> HIDE DEF Goal, t, a
      <3> QED BY <1>n, <3>2, <3>3
    <2>3. CASE s.nick \notin s.members[m.target]
      <3>1. /\ t.nick = s.nick /\ t.nick \in t.members[m.target]
            /\ \A d \in Channels : d # m.target => t.members[d] = s.members[d]
        BY <1>0, <2>1 DEF Server
      <3>2. s # t
        BY <2>3, <3>1
      <3>3. a = <<Msg("JOIN", t.nick, m.target, None)>>
                  \o NamesReplies(m.target, t.members[m.target])
                  \o <<Msg("RPL_ENDOFNAMES", None, m.target, None)>>
        <4> HIDE DEF t
        <4> QED BY <1>4, <3>2 DEF Answers
      <3> HIDE DEF t
      <3>4. ServerOK(t) /\ s.registered /\ t.registered
        BY <1>0, <1>4
      <3> DEFINE c == m.target
      <3>5. /\ c \in Channels /\ s.nick \notin s.members[c]
            /\ t.nick = s.nick /\ t.nick \in t.members[c]
            /\ \A d \in Channels : d # c => t.members[d] = s.members[d]
            /\ a = <<Msg("JOIN", t.nick, c, None)>> \o NamesReplies(c, t.members[c])
                    \o <<Msg("RPL_ENDOFNAMES", None, c, None)>>
        BY <2>1, <2>3, <3>1, <3>3
      <3> HIDE DEF a, c
      <3> QED BY <3>4, <3>5, AgreesJoin
    <2> QED BY <2>2, <2>3
  <1>5. CASE s.registered /\ m.cmd = "PART"
    <2>1. t = [s EXCEPT !.members[m.target] = @ \ {s.nick}] /\ m.target \in Channels
      BY <1>5, RequestFields DEF Served
    <2>2. CASE s.nick \notin s.members[m.target]
      <3>1. s.members[m.target] \ {s.nick} = s.members[m.target]
        BY <2>2
      <3>2. t = s
        BY <1>0, <2>1, <3>1 DEF Server
      <3>3. a = <<>>
        <4> HIDE DEF t
        <4> QED BY <1>5, <3>2 DEF Answers
      <3> HIDE DEF Goal, t, a
      <3> QED BY <1>n, <3>2, <3>3
    <2>3. CASE s.nick \in s.members[m.target]
      <3>1. /\ t.nick = s.nick /\ t.nick \notin t.members[m.target]
            /\ \A d \in Channels : d # m.target => t.members[d] = s.members[d]
        BY <1>0, <2>1 DEF Server
      <3>2. s # t
        BY <2>3, <3>1
      <3>3. a = <<Msg("PART", s.nick, m.target, None)>>
        <4> HIDE DEF t
        <4> QED BY <1>5, <3>2 DEF Answers
      <3> HIDE DEF t
      <3>4. s.nick \in Nicks /\ s.registered /\ t.registered
        BY <1>0, <1>5
      <3> HIDE DEF a
      <3> QED BY <2>1, <2>3, <3>1, <3>3, <3>4, AgreesPart
    <2> QED BY <2>2, <2>3
  <1>6. CASE s.registered /\ m.cmd \notin {"NICK", "JOIN", "PART"}
    <2>1. t = s
      <3>1. CASE m.cmd = "USER"
        <4>1. t = [s EXCEPT !.user = TRUE, !.registered = s.nick # None]
          BY <3>1 DEF Served
        <4>2. s.user = TRUE /\ s.registered = (s.nick # None)
          BY <1>0, <1>6 DEF ServerOK, Server
        <4> QED BY <1>0, <4>1, <4>2 DEF Server
      <3>2. CASE m.cmd # "USER"
        BY <1>6, <3>2 DEF Served
      <3> QED BY <3>1, <3>2
    <2>2. a = IF m.cmd = "MOTD" THEN <<Bare("RPL_ENDOFMOTD")>> ELSE <<>>
      <3> HIDE DEF t
      <3> QED BY <1>6, <2>1 DEF Answers
    <2>3. Bare("RPL_ENDOFMOTD") \in Honest /\ Bare("RPL_ENDOFMOTD").cmd \notin ViewCmds
      BY HonestReplies DEF Bare, Msg, ViewCmds
    <2> HIDE DEF Goal, t, a
    <2> QED BY <1>n, <1>o, <2>1, <2>2, <2>3
  <1> HIDE DEF Goal
  <1> QED BY <1>1, <1>2, <1>3, <1>4, <1>5, <1>6

\* One more message.
LEMMA FoldAppend ==
    ASSUME NEW s, NEW a \in Seq(Honest), NEW m \in Honest
    PROVE  FoldLeft(Hears, s, Append(a, m)) = Hears(FoldLeft(Hears, s, a), m)
  <1>1. Append(a, m) = a \o <<m>> /\ <<m>> \in Seq(Honest)
    BY AppendIsConcat
  <1>2. FoldLeft(Hears, s, a \o <<m>>) = FoldLeft(Hears, FoldLeft(Hears, s, a), <<m>>)
    BY <1>1, FoldConcat
  <1> QED BY <1>1, <1>2, FoldShort

\* What happens in the channels that we are in is announced...
LEMMA AgreesHeard ==
    ASSUME NEW s, NEW t, NEW v \in Session, Agrees(v, s), s.registered, t.registered,
           t.nick = s.nick, NEW m \in Honest, m.cmd \in {"JOIN", "PART", "QUIT"},
           m.prefix \in Nicks, m.prefix # s.nick,
           \A c \in Channels : t.members[c] =
               IF m.cmd = "QUIT" \/ m.target = c THEN UsersFromServer(s.members[c], m)
                                                 ELSE s.members[c],
           m.cmd # "QUIT" => m.target \in Channels /\ s.nick \in s.members[m.target]
    PROVE  Agrees(Hears(v, m), t)
  <1> DEFINE w == Hears(v, m)
  <1>1. v.nick = s.nick /\ \A d \in Channels : AgreesIn(v.channels[d], s.nick, s.members[d])
    BY DEF Agrees
  <1>2. ~IsMe(v, m.prefix)
    BY <1>1 DEF IsMe
  <1>3. w.nick = v.nick
    BY <1>2, HearsFields
  <1>4. ASSUME NEW c \in Channels PROVE AgreesIn(w.channels[c], t.nick, t.members[c])
    <2>1. AgreesIn(v.channels[c], s.nick, s.members[c])
      BY <1>1
    <2>2. s.nick \in UsersFromServer(s.members[c], m) <=> s.nick \in s.members[c]
      BY NamesAssumption DEF UsersFromServer
    <2>3. CASE m.cmd # "QUIT" /\ m.target # c
      <3>1. w.channels[c] = v.channels[c]
        BY <2>3, HearsChannel
      <3> QED BY <2>1, <2>3, <3>1
    <2>4. CASE m.cmd # "QUIT" /\ m.target = c
      <3>1. v.channels[c].joined
        BY <2>1, <2>4 DEF AgreesIn
      <3>2. w.channels[c].joined
            /\ w.channels[c].users = UsersFromServer(v.channels[c].users, m)
        BY <1>2, <2>4, <3>1, HearsChannel
      <3> QED BY <2>1, <2>2, <2>4, <3>1, <3>2 DEF AgreesIn
    <2>5. CASE m.cmd = "QUIT"
      <3>1. /\ w.channels[c].joined = v.channels[c].joined
            /\ v.channels[c].joined =>
                  w.channels[c].users = UsersFromServer(v.channels[c].users, m)
        BY <2>5, HearsChannel
      <3> HIDE DEF w
      <3> QED BY <2>1, <2>2, <2>5, <3>1 DEF AgreesIn
    <2> QED BY <2>3, <2>4, <2>5
  <1> HIDE DEF w
  <1>5. Agrees(w, t)
    BY <1>1, <1>3, <1>4 DEF Agrees
  <1> QED BY <1>5 DEF w

\* ... and of the rest we know nothing.
LEMMA AgreesUnheard ==
    ASSUME NEW s, NEW t, NEW v, Agrees(v, s), t.nick = s.nick, t.registered = s.registered,
           s.registered => \A c \in Channels :
               \/ t.members[c] = s.members[c]
               \/ s.nick \notin s.members[c] /\ s.nick \notin t.members[c]
    PROVE  Agrees(v, t)
  <1>1. CASE ~s.registered
    BY <1>1 DEF Agrees
  <1>2. CASE s.registered
    <2>1. ASSUME NEW c \in Channels PROVE AgreesIn(v.channels[c], s.nick, t.members[c])
      <3>1. AgreesIn(v.channels[c], s.nick, s.members[c])
        BY <1>2 DEF Agrees
      <3> QED BY <1>2, <3>1 DEF AgreesIn
    <2> QED BY <1>2, <2>1 DEF Agrees
  <1> QED BY <1>1, <1>2

\* What the other users do, as long as they do not kick.
LEMMA OtherUsersView ==
    ASSUME "kick" \notin OtherEvents, ServerOK(srv), MembersOK(srv), inbox \in Seq(Honest),
           NEW x \in Session, OtherUsers
    PROVE  /\ MembersOK(srv')
           /\ Agrees(FoldLeft(Hears, x, inbox), srv)
                => Agrees(FoldLeft(Hears, x, inbox'), srv')
  <1> DEFINE v == FoldLeft(Hears, x, inbox)
             Goal == /\ MembersOK(srv')
                     /\ Agrees(v, srv) => Agrees(FoldLeft(Hears, x, inbox'), srv')
  <1> SUFFICES Goal
    OBVIOUS
  <1>0. /\ srv \in Server /\ \A c \in Channels : srv.members[c] \in SUBSET Nicks
        /\ srv.others \in SUBSET Nicks /\ srv.nick \notin srv.others
        /\ \A c \in Channels : srv.members[c] \subseteq srv.others \cup {srv.nick}
    BY DEF ServerOK, Server, MembersOK
  <1>v. v \in Session
    <2>1. SameView(x, x)
      BY DEF SameView
    <2> QED BY <2>1, FoldView
  <1>a. ASSUME NEW m \in Honest, MembersOK(srv'), inbox' \in {inbox, Append(inbox, m)},
               Agrees(v, srv) /\ inbox' = inbox => Agrees(v, srv'),
               Agrees(v, srv) /\ inbox' # inbox => Agrees(Hears(v, m), srv')
        PROVE  Goal
    <2> HIDE DEF v
    <2>1. CASE inbox' = inbox
      BY <1>a, <2>1 DEF v
    <2>2. CASE inbox' # inbox
      <3>1. FoldLeft(Hears, x, inbox') = Hears(v, m)
        BY <1>a, <2>2, FoldAppend DEF v
      <3> QED BY <1>a, <2>2, <3>1
    <2> QED BY <2>1, <2>2
  <1> HIDE DEF v, Goal
  <1>1. ASSUME NEW n \in Nicks, NEW c \in Channels, OtherJoins(n, c) PROVE Goal
    <2> DEFINE m == Msg("JOIN", n, c, None)
    <2>1. /\ m \in Honest /\ m.cmd = "JOIN" /\ m.prefix = n /\ m.target = c
      BY HonestReplies DEF Names, Msg
    <2>2. n \in srv.others /\ n # srv.nick
      BY <1>0, <1>1 DEF OtherJoins
    <2>3. /\ srv'.nick = srv.nick /\ srv'.registered = srv.registered
          /\ srv'.others = srv.others
          /\ \A d \in Channels : srv'.members[d] = IF d = c THEN srv.members[d] \cup {n}
                                                            ELSE srv.members[d]
      BY <1>0, <1>1 DEF OtherJoins, Server
    <2>4. inbox' = IF srv.registered /\ srv.nick \in srv.members[c]
                     THEN Append(inbox, m) ELSE inbox
      BY <1>1 DEF OtherJoins, Announce
    <2>5. Append(inbox, m) # inbox
      BY <2>1
    <2> HIDE DEF m
    <2>6. MembersOK(srv')
      BY <2>2, <2>3 DEF MembersOK
    <2>7. ASSUME Agrees(v, srv), inbox' = inbox PROVE Agrees(v, srv')
      <3>1. ~(srv.registered /\ srv.nick \in srv.members[c])
        BY <2>4, <2>5, <2>7
      <3> QED BY <2>2, <2>3, <2>7, <3>1, AgreesUnheard
    <2>8. ASSUME Agrees(v, srv), inbox' # inbox PROVE Agrees(Hears(v, m), srv')
      <3>1. srv.registered /\ srv.nick \in srv.members[c]
        BY <2>4, <2>8
      <3>2. \A d \in Channels : UsersFromServer(srv.members[d], m) = srv.members[d] \cup {n}
        BY <2>1, NamesAssumption DEF UsersFromServer
      <3>3. \A d \in Channels : srv'.members[d] =
                IF m.cmd = "QUIT" \/ m.target = d THEN UsersFromServer(srv.members[d], m)
                                                  ELSE srv.members[d]
        BY <2>1, <2>3, <3>2
      <3>4. srv'.registered /\ srv'.nick = srv.nick
        BY <2>3, <3>1
      <3> QED BY <1>v, <2>1, <2>2, <2>8, <3>1, <3>3, <3>4, AgreesHeard
    <2> QED BY <1>a, <2>1, <2>4, <2>6, <2>7, <2>8
  <1>2. ASSUME NEW n \in Nicks, NEW c \in Channels, OtherParts(n, c) PROVE Goal
    <2> DEFINE m == Msg("PART", n, c, None)
    <2>1. /\ m \in Honest /\ m.cmd = "PART" /\ m.prefix = n /\ m.target = c
      BY HonestReplies DEF Names, Msg
    <2>2. n \in srv.others /\ n # srv.nick
      BY <1>0, <1>2 DEF OtherParts
    <2>3. /\ srv'.nick = srv.nick /\ srv'.registered = srv.registered
          /\ srv'.others = srv.others
          /\ \A d \in Channels : srv'.members[d] = IF d = c THEN srv.members[d] \ {n}
                                                            ELSE srv.members[d]
      BY <1>0, <1>2 DEF OtherParts, Server
    <2>4. inbox' = IF srv.registered /\ srv.nick \in srv.members[c]
                     THEN Append(inbox, m) ELSE inbox
      BY <1>2 DEF OtherParts, Announce
    <2>5. Append(inbox, m) # inbox
      BY <2>1
    <2> HIDE DEF m
    <2>6. MembersOK(srv')
      BY <2>2, <2>3 DEF MembersOK
    <2>7. ASSUME Agrees(v, srv), inbox' = inbox PROVE Agrees(v, srv')
      <3>1. ~(srv.registered /\ srv.nick \in srv.members[c])
        BY <2>4, <2>5, <2>7
      <3> QED BY <2>2, <2>3, <2>7, <3>1, AgreesUnheard
    <2>8. ASSUME Agrees(v, srv), inbox' # inbox PROVE Agrees(Hears(v, m), srv')
      <3>1. srv.registered /\ srv.nick \in srv.members[c]
        BY <2>4, <2>8
      <3>2. \A d \in Channels : UsersFromServer(srv.members[d], m) = srv.members[d] \ {n}
        BY <2>1, NamesAssumption DEF UsersFromServer
      <3>3. \A d \in Channels : srv'.members[d] =
                IF m.cmd = "QUIT" \/ m.target = d THEN UsersFromServer(srv.members[d], m)
                                                  ELSE srv.members[d]
        BY <2>1, <2>3, <3>2
      <3>4. srv'.registered /\ srv'.nick = srv.nick
        BY <2>3, <3>1
      <3> QED BY <1>v, <2>1, <2>2, <2>8, <3>1, <3>3, <3>4, AgreesHeard
    <2> QED BY <1>a, <2>1, <2>4, <2>6, <2>7, <2>8
  <1>3. ASSUME NEW n \in Nicks, NEW new \in Nicks, OtherNick(n, new) PROVE Goal
    <2> DEFINE m == Msg("NICK", n, new, None)
    <2>1. m \in Honest
      BY HonestReplies DEF Names
    <2>2. /\ n \in srv.others /\ n # srv.nick /\ new \notin srv.others \cup {srv.nick}
      BY <1>0, <1>3 DEF OtherNick
    <2>3. /\ srv'.nick = srv.nick /\ srv'.registered = srv.registered
          /\ srv'.others = (srv.others \ {n}) \cup {new}
          /\ srv'.members = Renamed(srv, n, new)
      BY <1>0, <1>3 DEF OtherNick, Server
    <2>4. inbox' = IF \E c \in Channels : /\ n \in srv.members[c]
                                          /\ srv.registered /\ srv.nick \in srv.members[c]
                     THEN Append(inbox, m) ELSE inbox
      BY <1>3 DEF OtherNick, Announce
    <2>5. Append(inbox, m) # inbox
      BY <2>1
    <2>r. \A d \in Channels : srv'.members[d] = IF n \in srv.members[d]
                                 THEN (srv.members[d] \ {n}) \cup {new} ELSE srv.members[d]
      BY <2>3 DEF Renamed
    <2>6. MembersOK(srv')
      BY <2>2, <2>3, <2>r, ZenonT(40) DEF MembersOK
    <2>7. ASSUME Agrees(v, srv), inbox' = inbox PROVE Agrees(v, srv')
      <3>1. \A c \in Channels : n \in srv.members[c] /\ srv.registered
                                   => srv.nick \notin srv.members[c]
        BY <2>4, <2>5, <2>7
      <3>2. ASSUME srv.registered, NEW c \in Channels
            PROVE  \/ srv'.members[c] = srv.members[c]
                   \/ srv.nick \notin srv.members[c] /\ srv.nick \notin srv'.members[c]
        <4>1. CASE n \in srv.members[c]
          BY <2>2, <2>r, <3>1, <3>2, <4>1
        <4>2. CASE n \notin srv.members[c]
          BY <2>r, <4>2
        <4> QED BY <4>1, <4>2
      <3> QED BY <2>3, <2>7, <3>2, AgreesUnheard
    <2>8. ASSUME Agrees(v, srv), inbox' # inbox PROVE Agrees(Hears(v, m), srv')
      <3>1. srv.registered
        BY <2>4, <2>8
      <3>2. \A d \in Channels : srv'.members[d] = Renamed(srv, n, new)[d]
        BY <2>3
      <3> QED BY <1>v, <2>2, <2>3, <2>8, <3>1, <3>2, AgreesNick
    <2> HIDE DEF m
    <2> QED BY <1>a, <2>1, <2>4, <2>6, <2>7, <2>8
  <1>4. ASSUME NEW n \in Nicks, OtherQuits(n) PROVE Goal
    <2> DEFINE m == Msg("QUIT", n, None, None)
    <2>1. m \in Honest /\ m.cmd = "QUIT" /\ m.prefix = n
      BY HonestReplies DEF Names, Msg
    <2>2. n \in srv.others /\ n # srv.nick
      BY <1>0, <1>4 DEF OtherQuits
    <2>3. /\ srv'.nick = srv.nick /\ srv'.registered = srv.registered
          /\ srv'.others = srv.others \ {n}
          /\ \A d \in Channels : srv'.members[d] = srv.members[d] \ {n}
      BY <1>0, <1>4 DEF OtherQuits, Server
    <2>4. inbox' = IF \E c \in Channels : /\ n \in srv.members[c]
                                          /\ srv.registered /\ srv.nick \in srv.members[c]
                     THEN Append(inbox, m) ELSE inbox
      BY <1>4 DEF OtherQuits, Announce
    <2>5. Append(inbox, m) # inbox
      BY <2>1
    <2> HIDE DEF m
    <2>6. MembersOK(srv')
      BY <2>2, <2>3 DEF MembersOK
    <2>7. ASSUME Agrees(v, srv), inbox' = inbox PROVE Agrees(v, srv')
      <3>1. \A c \in Channels : n \in srv.members[c] /\ srv.registered
                                   => srv.nick \notin srv.members[c]
        BY <2>4, <2>5, <2>7
      <3>2. ASSUME srv.registered, NEW c \in Channels
            PROVE  \/ srv'.members[c] = srv.members[c]
                   \/ srv.nick \notin srv.members[c] /\ srv.nick \notin srv'.members[c]
        <4>1. CASE n \in srv.members[c]
          BY <2>2, <2>3, <3>1, <3>2, <4>1
        <4>2. CASE n \notin srv.members[c]
          BY <2>3, <4>2
        <4> QED BY <4>1, <4>2
      <3> QED BY <2>3, <2>7, <3>2, AgreesUnheard
    <2>8. ASSUME Agrees(v, srv), inbox' # inbox PROVE Agrees(Hears(v, m), srv')
      <3>1. srv.registered
        BY <2>4, <2>8
      <3>2. \A d \in Channels : UsersFromServer(srv.members[d], m) = srv.members[d] \ {n}
        BY <2>1, NamesAssumption DEF UsersFromServer
      <3>3. \A d \in Channels : srv'.members[d] =
                IF m.cmd = "QUIT" \/ m.target = d THEN UsersFromServer(srv.members[d], m)
                                                  ELSE srv.members[d]
        BY <2>1, <2>3, <3>2
      <3>4. srv'.registered /\ srv'.nick = srv.nick
        BY <2>3, <3>1
      <3> QED BY <1>v, <2>1, <2>2, <2>8, <3>1, <3>3, <3>4, AgreesHeard
    <2> QED BY <1>a, <2>1, <2>4, <2>6, <2>7, <2>8
  <1>5. ASSUME NEW n \in Nicks, NEW c \in Channels, NEW t \in Texts, OtherSpeaks(n, c, t)
        PROVE  Goal
    <2> DEFINE m == Msg("PRIVMSG", n, c, t)
    <2>1. m \in Honest /\ m.cmd \notin ViewCmds
      BY HonestReplies DEF Names, Msg, ViewCmds
    <2>2. srv' = srv /\ inbox' \in {inbox, Append(inbox, m)}
      BY <1>5 DEF OtherSpeaks, Announce
    <2> HIDE DEF m
    <2>3. SameView(v, Hears(v, m))
      BY <1>v, <2>1, HearsNothing DEF SameView
    <2> QED BY <1>a, <2>1, <2>2, <2>3, AgreesView
  <1> QED BY <1>1, <1>2, <1>3, <1>4, <1>5 DEF OtherUsers, OtherKicks, Happens

-----------------------------------------------------------------------------
(* What the steps of the proxy do to its connection to the server          *)

\* From q to r the connection stays open at most, its session becomes x, and
\* the cache stays.
Becomes(q, r, x) ==
    /\ r.haveMsgCache = q.haveMsgCache
    /\ r.server.open => /\ q.server.open
                        /\ r.server.alive => q.server.alive
                        /\ r.server.session = x

Kept(q, r) == Becomes(q, r, q.server.session)

LEMMA BecomesTwice ==
    ASSUME NEW q, NEW r, NEW s, NEW x, Becomes(q, r, x), Kept(r, s)
    PROVE  Becomes(q, s, x)
  BY DEF Becomes, Kept

LEMMA KeptFirst ==
    ASSUME NEW q, NEW r, NEW s, NEW x, Kept(q, r), r.server = q.server, Becomes(r, s, x)
    PROVE  Becomes(q, s, x)
  BY DEF Becomes, Kept

LEMMA KeptSame ==
    ASSUME NEW q, NEW r, r.server = q.server, r.haveMsgCache = q.haveMsgCache
    PROVE  Kept(q, r)
  BY DEF Becomes, Kept

\* The proxy's methods.
LEMMA KeptMethods ==
    ASSUME NEW q \in ProxyStruct
    PROVE  /\ Kept(q, dropClient(q)) /\ Kept(q, reset(q))
           /\ \A m \in ServerMessages : Kept(q, sendClient(q, m))
           /\ \A m : Kept(q, fromClient(q, m)) /\ fromClient(q, m).server = q.server
           /\ \A m : Becomes(q, sendServer(q, m), UpdateFromClient(q.server.session, m))
           /\ \A m \in ServerMessages :
                 Becomes(q, fromServer(q, m), UpdateFromServer(q.server.session, m))
  <1>1. Kept(q, dropClient(q)) /\ Kept(q, reset(q))
    <2>1. /\ dropClient(q).haveMsgCache = q.haveMsgCache
          /\ reset(q).haveMsgCache = q.haveMsgCache
          /\ ~shutdown(q.server).open
          /\ dropClient(q).server \in {q.server, shutdown(q.server)}
          /\ reset(q).server = shutdown(q.server)
      BY DEF dropClient, reset, shutdown, emptyConnection, ProxyStruct
    <2> QED BY <2>1 DEF Kept, Becomes
  <1>2. ASSUME NEW m \in ServerMessages PROVE Kept(q, sendClient(q, m))
    <2>1. CASE WriteOk(q.client)
      <3>1. /\ sendClient(q, m).server = q.server
            /\ sendClient(q, m).haveMsgCache = q.haveMsgCache
        BY <2>1 DEF sendClient, ProxyStruct
      <3> QED BY <3>1, KeptSame
    <2>2. CASE ~WriteOk(q.client)
      BY <1>1, <2>2, KeptSame DEF sendClient
    <2> QED BY <2>1, <2>2
  <1>3. ASSUME NEW m PROVE Kept(q, fromClient(q, m)) /\ fromClient(q, m).server = q.server
    <2>1. /\ fromClient(q, m).server = q.server
          /\ fromClient(q, m).haveMsgCache = q.haveMsgCache
      BY DEF fromClient, ProxyStruct
    <2> QED BY <2>1, KeptSame
  <1>4. ASSUME NEW m
        PROVE  Becomes(q, sendServer(q, m), UpdateFromClient(q.server.session, m))
    <2>1. CASE WriteOk(q.server)
      <3>1. /\ sendServer(q, m).server.open = q.server.open
            /\ sendServer(q, m).server.alive = q.server.alive
            /\ sendServer(q, m).server.session = UpdateFromClient(q.server.session, m)
            /\ sendServer(q, m).haveMsgCache = q.haveMsgCache
        BY <2>1 DEF sendServer, ProxyStruct, Connection
      <3> QED BY <3>1 DEF Becomes
    <2>2. CASE ~WriteOk(q.server)
      <3>1. /\ ~sendServer(q, m).server.open
            /\ sendServer(q, m).haveMsgCache = q.haveMsgCache
        BY <2>2 DEF sendServer, reset, shutdown, emptyConnection, ProxyStruct
      <3> QED BY <3>1 DEF Becomes
    <2> QED BY <2>1, <2>2
  <1>5. ASSUME NEW m \in ServerMessages
        PROVE  Becomes(q, fromServer(q, m), UpdateFromServer(q.server.session, m))
    <2>1. /\ fromServer(q, m).server.alive = q.server.alive
          /\ fromServer(q, m).haveMsgCache = q.haveMsgCache
      BY DEF fromServer, serverHeard, updateDeadlines, ProxyStruct, Connection
    <2> QED BY <2>1, HeardFields DEF Becomes
  <1> QED BY <1>1, <1>2, <1>3, <1>4, <1>5

\* A message to the server that is not about the handshake changes no flags.
LEMMA KeptSent ==
    ASSUME NEW q \in ProxyStruct, NEW m, m.cmd \notin {"USER", "NICK"}
    PROVE  Kept(q, sendServer(q, m))
  <1>1. UpdateFromClient(q.server.session, m) = q.server.session
    BY FlagsFromClient DEF ProxyStruct, Connection
  <1> QED BY <1>1, KeptMethods DEF Kept

\* What is written to the server is seen by its session; the other messages of
\* the client leave the connection as it is.
LEMMA ClientKeeps ==
    ASSUME TypeOK, NEW m \in ClientMsgs,
           \/ ClientInvalid(m) \/ ClientIdles(m) \/ ClientRejoin(m) \/ ClientReturns(m)
           \/ ClientCommand(m) /\ m.cmd \in {"PING", "PONG", "QUIT"}
           \/ ClientJoin(m) /\ HaveChannel(p.client.session, m.target)
    PROVE  Kept(p, p')
  <1>0. p \in ProxyStruct
    BY DEF TypeOK
  <1> DEFINE q == fromClient(p, m)
  <1>1. q \in ProxyStruct /\ Kept(p, q) /\ q.server = p.server
    BY <1>0, ProxyTypes, KeptMethods
  <1> HIDE DEF q
  <1>a. ASSUME NEW r, Kept(q, r) PROVE Kept(p, r)
    BY <1>1, <1>a, BecomesTwice DEF Kept
  <1>2. CASE ClientInvalid(m)
    <2> DEFINE s == sendClient(p, Bare("OTHER"))
    <2>1. s \in ProxyStruct /\ Kept(p, s)
      BY <1>0, OwnMessages, ProxyTypes, KeptMethods
    <2> HIDE DEF s
    <2>2. Kept(s, dropClient(s))
      BY <2>1, KeptMethods
    <2>3. Kept(p, dropClient(s))
      BY <2>1, <2>2, BecomesTwice DEF Kept
    <2> QED BY <1>2, <2>3 DEF ClientInvalid, s
  <1>3. CASE ClientIdles(m)
    BY <1>1, <1>3 DEF ClientIdles, q
  <1>4. CASE ClientRejoin(m)
    <2> DEFINE r == [q EXCEPT !.preLogSession = GetChannel(@, m.target)]
               j == Msg("JOIN", q.client.session.nick, m.target, None)
    <2>1. m.target \in Channels
      BY <1>4 DEF ClientRejoin, HaveChannel
    <2>2. r \in ProxyStruct
      BY <1>1, <2>1 DEF ProxyStruct, GetChannel, Got, NewChannelState, Session, ChannelState
    <2>3. r.server = q.server /\ r.haveMsgCache = q.haveMsgCache
      BY <1>1 DEF ProxyStruct
    <2>4. j \in ServerMessages
      BY <1>1, <2>1, OwnMessages DEF ProxyStruct, Connection, Session
    <2> HIDE DEF r, j
    <2>5. Kept(q, r) /\ Kept(r, sendClient(r, j))
      BY <2>2, <2>3, <2>4, KeptSame, KeptMethods
    <2>6. Kept(p, sendClient(r, j))
      BY <1>a, <2>5, BecomesTwice DEF Kept
    <2> QED BY <1>4, <2>6 DEF ClientRejoin, q, r, j
  <1>5. CASE ClientReturns(m)
    <2> DEFINE r == [q EXCEPT !.client.session.nick = q.server.session.nick]
               w == Bare("MOTD")
    <2>1. r \in ProxyStruct /\ r.server = q.server /\ r.haveMsgCache = q.haveMsgCache
      BY <1>1 DEF ProxyStruct, Connection, Session
    <2>2. w.cmd = "MOTD"
      BY DEF Bare, Msg
    <2> HIDE DEF r, w
    <2>3. Kept(q, r) /\ Kept(r, sendServer(r, w))
      BY <2>1, <2>2, KeptSame, KeptSent
    <2>4. /\ Kept(p, sendServer(r, w))
          /\ Kept(p, reset(q)) /\ Kept(p, dropClient(q))
      BY <1>1, <1>a, <2>3, KeptMethods, BecomesTwice DEF Kept
    <2> QED BY <1>5, <2>4 DEF ClientReturns, q, r, w
  <1>6. CASE ClientCommand(m) /\ m.cmd \in {"PING", "PONG", "QUIT"}
    <2>1. /\ Kept(p, sendClient(q, Bare("PONG"))) /\ Kept(p, dropClient(q))
      BY <1>1, <1>a, OwnMessages, KeptMethods
    <2> QED BY <1>1, <1>6, <2>1 DEF ClientCommand, q
  <1>7. CASE ClientJoin(m) /\ HaveChannel(p.client.session, m.target)
    <2>1. UpdateFromClient(p.client.session, m) = p.client.session
      BY <1>0, <1>7, FlagsFromClient DEF ClientJoin, ProxyStruct, Connection
    <2>2. fromClient(p, m).client.session = p.client.session
      BY <1>0, <2>1, HeardFields
    <2>3. p' = fromClient(p, m)
      BY <1>7, <2>2 DEF ClientJoin
    <2> QED BY <1>1, <2>3 DEF q
  <1> QED BY <1>2, <1>3, <1>4, <1>5, <1>6, <1>7

\* What passes a message on.
Passes(m) ==
    \/ ClientRegisters(m)
    \/ ClientCommand(m) /\ m.cmd \notin {"PING", "PONG", "QUIT"}
    \/ ClientJoin(m) /\ ~HaveChannel(p.client.session, m.target)

LEMMA ClientPasses ==
    ASSUME TypeOK, NEW m \in ClientMsgs, Passes(m)
    PROVE  Becomes(p, p', UpdateFromClient(p.server.session, m))
  <1>0. p \in ProxyStruct
    BY DEF TypeOK
  <1> DEFINE q == fromClient(p, m)
  <1>1. q \in ProxyStruct /\ Kept(p, q) /\ q.server = p.server
    BY <1>0, ProxyTypes, KeptMethods
  <1>2. p' = sendServer(q, m)
    <2>1. CASE ClientRegisters(m)
      BY <2>1 DEF ClientRegisters
    <2>2. CASE ClientCommand(m) /\ m.cmd \notin {"PING", "PONG", "QUIT"}
      BY <2>2 DEF ClientCommand
    <2>3. CASE ClientJoin(m) /\ ~HaveChannel(p.client.session, m.target)
      <3>1. UpdateFromClient(p.client.session, m) = p.client.session
        BY <1>0, <2>3, FlagsFromClient DEF ClientJoin, ProxyStruct, Connection
      <3>2. q.client.session = p.client.session
        BY <1>0, <3>1, HeardFields
      <3> HIDE DEF q
      <3> QED BY <2>3, <3>2 DEF ClientJoin, q
    <2> QED BY <2>1, <2>2, <2>3 DEF Passes
  <1> HIDE DEF q
  <1>3. Becomes(q, sendServer(q, m), UpdateFromClient(p.server.session, m))
    BY <1>1, KeptMethods
  <1> QED BY <1>1, <1>2, <1>3, KeptFirst

\* RPL_WELCOME is left to its handler by Session.UpdateFromServer.
LEMMA WelcomeUpdates ==
    ASSUME NEW x \in Session, NEW m, m.cmd = "RPL_WELCOME"
    PROVE  UpdateFromServer(x, m) = x
  <1>1. HandshakeFromServer(x, m) = x
    BY DEF HandshakeFromServer, NickErrors, MotdEnds
  <1>2. ChannelsFromServer(x.channels, m) = x.channels
    BY DEF ChannelsFromServer
  <1>3. [x EXCEPT !.channels = ChannelsFromServer(@, m)] = x
    BY <1>2 DEF Session
  <1> QED BY <1>1, <1>3 DEF UpdateFromServer, AboutMe

\* A message of the server is seen by its session, and RPL_MYINFO completes the
\* cache, whatever becomes of the write to the client.
LEMMA ServerBecomes ==
    ASSUME TypeOK, NEW m \in ServerMessages, handleServerEvent(m)
    PROVE  /\ p'.server.open => /\ p.server.open
                                /\ p'.server.alive => p.server.alive
                                /\ p'.server.session = Hears(p.server.session, m)
           /\ m.cmd = "RPL_MYINFO" => p'.haveMsgCache
           /\ m.cmd # "RPL_MYINFO" => p'.haveMsgCache = p.haveMsgCache
  <1> DEFINE x == Hears(p.server.session, m)
             f == fromServer(p, m)
  <1>0. p \in ProxyStruct
    BY DEF TypeOK
  <1>1. /\ f \in ProxyStruct /\ f.client = p.client
        /\ Becomes(p, f, UpdateFromServer(p.server.session, m))
    BY <1>0, ProxyTypes, KeptMethods, HeardFields
  <1> HIDE DEF f
  <1>h. m.cmd # "RPL_WELCOME" => Becomes(p, f, x)
    BY <1>1 DEF Hears
  <1> HIDE DEF x
  <1>a. ASSUME NEW r, Kept(f, r), m.cmd # "RPL_WELCOME" PROVE Becomes(p, r, x)
    BY <1>h, <1>a, BecomesTwice
  <1>b. ASSUME Becomes(p, p', x), m.cmd # "RPL_MYINFO" PROVE
          /\ p'.server.open => /\ p.server.open
                               /\ p'.server.alive => p.server.alive
                               /\ p'.server.session = x
          /\ m.cmd = "RPL_MYINFO" => p'.haveMsgCache
          /\ m.cmd # "RPL_MYINFO" => p'.haveMsgCache = p.haveMsgCache
    BY <1>b DEF Becomes
  <1>2. CASE ServerInvalid(m)
    <2>1. ~p'.server.open /\ p'.haveMsgCache = p.haveMsgCache
      BY <1>0, <1>2 DEF ServerInvalid, reset, shutdown, emptyConnection, ProxyStruct
    <2> QED BY <1>2, <2>1 DEF ServerInvalid
  <1>3. CASE ServerKeepalive(m)
    <2>1. Bare("PONG").cmd \notin {"USER", "NICK"}
      BY DEF Bare, Msg
    <2>2. Kept(f, sendServer(f, Bare("PONG")))
      BY <1>1, <2>1, KeptSent
    <2>3. m.cmd # "RPL_WELCOME"
      BY <1>3 DEF ServerKeepalive
    <2>4. Becomes(p, p', x)
      BY <1>3, <1>a, <1>h, <2>2, <2>3 DEF ServerKeepalive, f
    <2> QED BY <1>3, <1>b, <2>4 DEF ServerKeepalive, x
  <1>4. CASE ServerForward(m) \/ ServerEndOfMotd(m) \/ ServerEndOfNames(m)
    <2>2. m.cmd \notin {"RPL_MYINFO", "RPL_WELCOME"}
      BY <1>4 DEF ServerForward, ServerEndOfMotd, ServerEndOfNames, ForwardedCmds,
                  NickErrors, MotdEnds
    <2>1. Becomes(p, p', x)
      BY <1>1, <1>4, <1>a, <2>2, KeptMethods DEF ServerForward, ServerEndOfMotd,
                                                 ServerEndOfNames, f
    <2> QED BY <1>b, <2>1, <2>2 DEF x
  <1>5. CASE ServerWelcome(m)
    <2> DEFINE r == [f EXCEPT !.server.session.nick = m.arg]
               s == sendClient(r, m)
               u == [s EXCEPT !.client.session.nick = m.arg]
    <2>0. m.arg \in Names /\ m.cmd = "RPL_WELCOME"
      BY <1>5, MessageFields DEF ServerWelcome
    <2>1. r \in ProxyStruct /\ Becomes(p, r, x)
      <3>1. /\ r \in ProxyStruct
            /\ r.haveMsgCache = f.haveMsgCache
            /\ r.server.open = f.server.open /\ r.server.alive = f.server.alive
            /\ r.server.session = [f.server.session EXCEPT !.nick = m.arg]
        BY <1>1, <2>0 DEF ProxyStruct, Connection, Session
      <3>2. UpdateFromServer(p.server.session, m) = p.server.session
        BY <1>0, <2>0, WelcomeUpdates DEF ProxyStruct, Connection
      <3>3. x = [p.server.session EXCEPT !.nick = m.arg]
        BY <2>0 DEF Hears, x
      <3> HIDE DEF r
      <3> QED BY <1>1, <3>1, <3>2, <3>3 DEF Becomes
    <2> HIDE DEF r
    <2>2. s \in ProxyStruct /\ Kept(r, s)
      BY <2>1, ProxyTypes, KeptMethods
    <2> HIDE DEF s
    <2>3. u.server = s.server /\ u.haveMsgCache = s.haveMsgCache
      BY <2>2 DEF ProxyStruct
    <2> HIDE DEF u
    <2>4. Becomes(p, s, x)
      BY <2>1, <2>2, BecomesTwice
    <2>5. Becomes(p, u, x)
      BY <2>3, <2>4, KeptSame, BecomesTwice
    <2>6. Becomes(p, reset(f), x)
      BY <1>1 DEF Becomes, reset, shutdown, emptyConnection, ProxyStruct
    <2>7. Becomes(p, p', x)
      BY <1>5, <2>4, <2>5, <2>6 DEF ServerWelcome, f, r, s, u
    <2> QED BY <1>b, <2>0, <2>7 DEF x
  <1>6. CASE ServerInfo(m)
    <2> DEFINE q == [f EXCEPT !.msgCache = @ \cup {m.cmd}]
               s == sendClient(q, m)
               u == [s EXCEPT !.haveMsgCache = @ \/ m.cmd = "RPL_MYINFO"]
    <2>1. q \in ProxyStruct /\ q.server = f.server /\ q.haveMsgCache = f.haveMsgCache
      BY <1>1, <1>6 DEF ServerInfo, ProxyStruct
    <2> HIDE DEF q
    <2>2. s \in ProxyStruct /\ Kept(f, q) /\ Kept(q, s)
      BY <2>1, ProxyTypes, KeptMethods, KeptSame
    <2> HIDE DEF s
    <2>3. Becomes(p, s, x)
      <3>1. Kept(f, s)
        BY <2>2, BecomesTwice DEF Kept
      <3> QED BY <1>6, <1>a, <3>1 DEF ServerInfo, InfoCmds
    <2>4. u.server = s.server /\ u.haveMsgCache = (s.haveMsgCache \/ m.cmd = "RPL_MYINFO")
      BY <2>2 DEF ProxyStruct
    <2>5. s.haveMsgCache \in BOOLEAN
      BY <2>2 DEF ProxyStruct
    <2>6. p' = u
      BY <1>6 DEF ServerInfo, f, q, s
    <2> HIDE DEF u
    <2> QED BY <2>3, <2>4, <2>5, <2>6 DEF Becomes, x
  <1>7. CASE ServerText(m) \/ ServerMembership(m)
    <2>1. m.cmd \notin {"RPL_MYINFO", "RPL_WELCOME"}
      BY <1>7 DEF ServerText, ServerMembership, TextCmds, MembershipCmds
    <2>2. Becomes(p, f, x) /\ Becomes(p, sendClient(f, m), x)
      BY <1>1, <1>a, <1>h, <2>1, KeptMethods
    <2>3. Becomes(p, p', x)
      BY <1>7, <2>2 DEF ServerText, ServerMembership, f
    <2> QED BY <1>b, <2>1, <2>3 DEF x
  <1> QED BY <1>2, <1>3, <1>4, <1>5, <1>6, <1>7 DEF handleServerEvent

\* The rest of a handler, and peers that go away.
LEMMA RestKeeps ==
    ASSUME TypeOK, ClientGone \/ ServerGone \/ Stop \/ HandlerStep \/ ClientDies
    PROVE  Kept(p, p')
  <1>0. p \in ProxyStruct
    BY DEF TypeOK
  <1>1. CASE ClientGone \/ ServerGone \/ Stop
    BY <1>0, <1>1, KeptMethods DEF ClientGone, ServerGone, Stop
  <1>2. CASE rejoinChannel
    <2>1. CASE ~WriteOk(p.client)
      <3>1. Msg("RPL_ENDOFNAMES", None, task.name, None) \in ServerMessages
        BY <1>2, OwnMessages DEF rejoinChannel, TypeOK, Tasks
      <3> QED BY <1>0, <1>2, <2>1, <3>1, KeptMethods DEF rejoinChannel
    <2>2. CASE WriteOk(p.client)
      <3>1. p'.server = p.server /\ p'.haveMsgCache = p.haveMsgCache
        BY <1>0, <1>2, <2>2 DEF rejoinChannel, ProxyStruct
      <3> QED BY <3>1, KeptSame
    <2> QED BY <2>1, <2>2
  <1>3. CASE ReplaySend \/ ReplayAborts
    <2>1. Log[task.next] \in ServerMessages
      BY <1>3, CurrentMessage DEF ReplaySend, ReplayAborts
    <2> QED BY <1>0, <1>3, <2>1, KeptMethods DEF ReplaySend, ReplayAborts
  <1>4. CASE ReplayFails \/ ReplayEnds
    BY <1>4, KeptSame DEF ReplayFails, ReplayEnds
  <1>5. CASE ClientDies
    <2>1. p'.server = p.server /\ p'.haveMsgCache = p.haveMsgCache
      BY <1>0, <1>5 DEF ClientDies, ProxyStruct
    <2> QED BY <2>1, KeptSame
  <1> QED BY <1>1, <1>2, <1>3, <1>4, <1>5 DEF HandlerStep

\* A new client finds the connection, or there is a new one.
LEMMA AcceptKeeps ==
    ASSUME TypeOK, Accept
    PROVE  IF p.server.open /\ Done(p.server.session)
             THEN Kept(p, p')
             ELSE /\ p'.haveMsgCache = p.haveMsgCache
                  /\ p'.server.open => p'.server.session = NewSession
  <1> DEFINE d == dropClient(p)
             q == [d EXCEPT !.client = setup(@)]
             n == [q EXCEPT !.server = setup(@)]
  <1>0. p \in ProxyStruct
    BY DEF TypeOK
  <1>1. /\ d \in ProxyStruct /\ d.haveMsgCache = p.haveMsgCache
        /\ d.server = IF Done(p.server.session) THEN p.server ELSE shutdown(p.server)
        /\ ~shutdown(p.server).open
    BY <1>0, ProxyTypes DEF dropClient, shutdown, emptyConnection, ProxyStruct
  <1> HIDE DEF d
  <1>2. q \in ProxyStruct /\ q.server = d.server /\ q.haveMsgCache = d.haveMsgCache
    BY <1>1, ConnectionTypes DEF ProxyStruct
  <1> HIDE DEF q
  <1>3. (q.server.open /\ p' = q) \/ (~q.server.open /\ p' \in {dropClient(q), n})
    BY DEF Accept, d, q
  <1>4. CASE p.server.open /\ Done(p.server.session)
    BY <1>1, <1>2, <1>3, <1>4, KeptSame
  <1>5. CASE ~(p.server.open /\ Done(p.server.session))
    <2>1. ~q.server.open
      BY <1>1, <1>2, <1>5
    <2>2. /\ ~dropClient(q).server.open
          /\ dropClient(q).haveMsgCache = q.haveMsgCache
      BY <1>2, <2>1, KeptMethods DEF Kept, Becomes
    <2>3. n.server.session = NewSession /\ n.haveMsgCache = q.haveMsgCache
      BY <1>2 DEF setup, updateDeadlines, ProxyStruct, Connection
    <2> QED BY <1>1, <1>2, <1>3, <1>5, <2>1, <2>2, <2>3
  <1> QED BY <1>4, <1>5

-----------------------------------------------------------------------------
(* The invariant                                                           *)

\* The server's messages are well formed, and the proxy has cached the welcome
\* sequence when it believes that it is over.
SentOK(q, s, in) ==
    /\ ServerOK(s)
    /\ in \in Seq(Honest)
    /\ q.server.open /\ q.server.session.haveMOTD => q.haveMsgCache
    /\ Cached(q.haveMsgCache, s, in)

\* What the proxy knows of the registration and what is on its way agree with
\* the server.
RegisterOK(q, s, in) == Reaches(q.server) => Tracked(q.server.session, s, in)

\* What the proxy will know of the channels is the truth.
ViewOK(q, s, in) ==
    /\ MembersOK(s)
    /\ Reaches(q.server) => Agrees(FoldLeft(Hears, q.server.session, in), s)

\* Nobody is kicked: the proxy takes the one who kicks out of the channel.
Unkicked == "kick" \notin OtherEvents /\ \A m \in ClientMsgs : m.cmd # "KICK"

\* Every message of the client is passed on only if the handshake of both
\* sessions allows it: a second NICK before the first was answered is hurried.
Patient(m) ==
    m.cmd = "NICK" /\ p.server.open /\ ~Done(p.server.session)
        => ~p.server.session.haveNick

\* The network goes on, or the connection is lost.
LEMMA FollowOK ==
    ASSUME SentOK(p, srv, inbox), Kept(p, p'), NEW kept, kept \in {TRUE, p'.server.open},
           Follow(kept)
    PROVE  /\ SentOK(p', srv', inbox')
           /\ RegisterOK(p, srv, inbox) => RegisterOK(p', srv', inbox')
           /\ ViewOK(p, srv, inbox) => ViewOK(p', srv', inbox')
  <1>1. CASE kept
    <2>1. srv' = srv /\ inbox' = inbox
      BY <1>1 DEF Follow
    <2>2. SentOK(p', srv', inbox')
      BY <2>1 DEF SentOK, Kept, Becomes, SameHandshake
    <2>3. ASSUME RegisterOK(p, srv, inbox), Reaches(p'.server)
          PROVE  Tracked(p'.server.session, srv, inbox)
      <3>1. /\ Reaches(p.server)
            /\ SameHandshake(p'.server.session, p.server.session)
        BY <2>3 DEF Kept, Becomes, Reaches, SameHandshake
      <3> QED BY <2>3, <3>1, TrackedFlags DEF RegisterOK
    <2>4. ASSUME ViewOK(p, srv, inbox)
          PROVE  ViewOK(p', srv, inbox)
      <3>1. Reaches(p'.server) => /\ Reaches(p.server)
                                  /\ p'.server.session = p.server.session
        BY DEF Kept, Becomes, Reaches
      <3> QED BY <2>4, <3>1 DEF ViewOK
    <2> QED BY <2>1, <2>2, <2>3, <2>4 DEF RegisterOK
  <1>2. CASE ~kept
    <2>1. srv' = Unregistered(srv) /\ inbox' = <<>> /\ ~p'.server.open
      BY <1>2 DEF Follow
    <2>2. ServerOK(srv') /\ Cached(p'.haveMsgCache, srv', inbox') /\ inbox' \in Seq(Honest)
      BY <2>1, UnregisteredFields, TrackedNew DEF SentOK
    <2>3. ViewOK(p, srv, inbox) => ViewOK(p', srv', inbox')
      BY <2>1, AgreesNew DEF SentOK, ViewOK, Reaches
    <2> QED BY <2>1, <2>2, <2>3 DEF SentOK, RegisterOK, Reaches
  <1> QED BY <1>1, <1>2

\* The connection was replaced.
LEMMA ReplacedOK ==
    ASSUME SentOK(p, srv, inbox), Follow(FALSE),
           p'.server.open => p'.server.session = NewSession
    PROVE  /\ SentOK(p', srv', inbox') /\ RegisterOK(p', srv', inbox')
           /\ ViewOK(p, srv, inbox) => ViewOK(p', srv', inbox')
  <1>1. srv' = Unregistered(srv) /\ inbox' = <<>>
    BY DEF Follow
  <1>2. /\ ServerOK(srv') /\ Cached(p'.haveMsgCache, srv', inbox')
        /\ inbox' \in Seq(Honest)
        /\ Tracked(NewSession, srv', inbox')
    BY <1>1, UnregisteredFields, TrackedNew DEF SentOK
  <1>3. ~NewSession.haveMOTD
    BY DEF NewSession
  <1>4. ViewOK(p, srv, inbox) => ViewOK(p', srv', inbox')
    BY <1>1, AgreesNew DEF SentOK, ViewOK, Reaches
  <1> QED BY <1>2, <1>3, <1>4 DEF SentOK, RegisterOK, Reaches

\* A message was written to the server.
LEMMA RequestOK ==
    ASSUME TypeOK, SentOK(p, srv, inbox), NEW m \in Requests, Request(m),
           Becomes(p, p', UpdateFromClient(p.server.session, m))
    PROVE  /\ SentOK(p', srv', inbox')
           /\ RegisterOK(p, srv, inbox) /\ Patient(m) => RegisterOK(p', srv', inbox')
           /\ ViewOK(p, srv, inbox) /\ m.cmd # "KICK" => ViewOK(p', srv', inbox')
  <1> DEFINE x == p.server.session
             y == UpdateFromClient(x, m)
             t == Served(srv, m)
             b == inbox \o Answers(srv, t, m)
  <1>1. x \in Session /\ p.haveMsgCache \in BOOLEAN
    BY DEF TypeOK, ProxyStruct, Connection
  <1>2. y.haveMOTD = x.haveMOTD
    BY <1>1 DEF UpdateFromClient, HandshakeFromClient, Session
  <1>3. p'.server.open /\ p'.server.session.haveMOTD => p'.haveMsgCache
    <2> HIDE DEF y
    <2> QED BY <1>2 DEF SentOK, Becomes, SameHandshake, y
  <1>4. CASE Reaches(p.server)
    <2>1. srv' = t /\ inbox' = b
      BY <1>4 DEF Request
    <2>2. ServerOK(t)
      BY ServedFields DEF SentOK
    <2>3. b \in Seq(Honest)
      <3>1. Answers(srv, t, m) \in Seq(Honest)
        BY AnswersSay DEF SentOK
      <3> QED BY <3>1, Sent DEF SentOK
    <2>4. Cached(p'.haveMsgCache, t, b)
      <3>1. p'.haveMsgCache = p.haveMsgCache
        BY DEF Becomes
      <3>2. Cached(p.haveMsgCache, t, b)
        BY <1>1, CachedServes DEF SentOK
      <3> QED BY <3>1, <3>2
    <2>5. ASSUME RegisterOK(p, srv, inbox), Patient(m), Reaches(p'.server)
          PROVE  Tracked(p'.server.session, t, b)
      <3>1. Tracked(x, srv, inbox) /\ (m.cmd = "NICK" /\ ~Done(x) => ~x.haveNick)
        BY <1>4, <2>5 DEF RegisterOK, Patient, Reaches
      <3>2. Tracked(y, t, b)
        BY <1>1, <3>1, TrackedServes DEF SentOK
      <3>3. SameHandshake(p'.server.session, y)
        BY <2>5 DEF Becomes, Reaches, SameHandshake
      <3> HIDE DEF t, b, y
      <3> QED BY <3>2, <3>3, TrackedFlags
    <2>6. ASSUME ViewOK(p, srv, inbox), m.cmd # "KICK"
          PROVE  MembersOK(t) /\ Agrees(FoldLeft(Hears, y, b), t)
      <3> DEFINE a == Answers(srv, t, m)
      <3>1. inbox \in Seq(Honest) /\ a \in Seq(Honest) /\ ServerOK(srv) /\ MembersOK(srv)
        BY <2>6, AnswersSay DEF SentOK, ViewOK
      <3>2. y \in Session /\ SameView(x, y) /\ SameView(x, x)
        BY <1>1 DEF UpdateFromClient, HandshakeFromClient, Session, SameView
      <3> HIDE DEF y
      <3>3. /\ FoldLeft(Hears, y, inbox) \in Session
            /\ SameView(FoldLeft(Hears, x, inbox), FoldLeft(Hears, y, inbox))
        BY <1>1, <3>1, <3>2, FoldView DEF SameView
      <3>4. Agrees(FoldLeft(Hears, y, inbox), srv)
        BY <1>4, <2>6, <3>3, AgreesView DEF ViewOK
      <3>5. Agrees(FoldLeft(Hears, FoldLeft(Hears, y, inbox), a), t)
        BY <2>6, <3>1, <3>3, <3>4, AgreesServes
      <3>6. FoldLeft(Hears, y, b) = FoldLeft(Hears, FoldLeft(Hears, y, inbox), a)
        <4>1. b = inbox \o a
          OBVIOUS
        <4> HIDE DEF a, b
        <4> QED BY <3>1, <4>1, FoldConcat
      <3>7. MembersOK(t)
        BY <3>1, MembersServes
      <3> HIDE DEF a, b, t
      <3> QED BY <3>5, <3>6, <3>7
    <2>7. Reaches(p'.server) => p'.server.session = y
      BY DEF Becomes, Reaches
    <2> HIDE DEF t, b, y
    <2>8. ViewOK(p, srv, inbox) /\ m.cmd # "KICK" => ViewOK(p', srv', inbox')
      BY <2>1, <2>6, <2>7 DEF ViewOK
    <2> QED BY <1>3, <2>1, <2>2, <2>3, <2>4, <2>5, <2>8 DEF SentOK, RegisterOK
  <1>5. CASE ~Reaches(p.server)
    <2>1. Follow(p'.server.open)
      BY <1>5 DEF Request
    <2>2. ~Reaches(p'.server)
      BY <1>5 DEF Becomes, Reaches
    <2>3. CASE p'.server.open
      <3>1. srv' = srv /\ inbox' = inbox /\ p'.haveMsgCache = p.haveMsgCache
        BY <2>1, <2>3 DEF Follow, Becomes
      <3> QED BY <1>3, <2>2, <3>1 DEF SentOK, RegisterOK, ViewOK
    <2>4. CASE ~p'.server.open
      <3>1. srv' = Unregistered(srv) /\ inbox' = <<>>
        BY <2>1, <2>4 DEF Follow
      <3>2. /\ ServerOK(srv') /\ Cached(p'.haveMsgCache, srv', inbox')
            /\ inbox' \in Seq(Honest)
        BY <3>1, UnregisteredFields, TrackedNew DEF SentOK
      <3>3. ViewOK(p, srv, inbox) => ViewOK(p', srv', inbox')
        BY <2>2, <3>1, AgreesNew DEF SentOK, ViewOK
      <3> QED BY <2>4, <3>2, <3>3, <2>2 DEF SentOK, RegisterOK
    <2> QED BY <2>3, <2>4
  <1> QED BY <1>4, <1>5

\* The proxy reads.
LEMMA NetServerOK ==
    ASSUME TypeOK, SentOK(p, srv, inbox), NetServer
    PROVE  /\ SentOK(p', srv', inbox')
           /\ RegisterOK(p, srv, inbox) => RegisterOK(p', srv', inbox')
           /\ ViewOK(p, srv, inbox) => ViewOK(p', srv', inbox')
  <1> DEFINE m == Head(inbox)
             x == p.server.session
             y == UpdateFromServer(x, m)
  <1>0. /\ inbox \in Seq(Honest) /\ inbox # <<>> /\ m \in Honest /\ m \in ServerMessages
        /\ Tail(inbox) \in Seq(Honest)
    BY Taken, HonestMessage DEF SentOK, NetServer
  <1>1. x \in Session /\ p.haveMsgCache \in BOOLEAN
    BY DEF TypeOK, ProxyStruct, Connection
  <1>2. /\ p'.server.open => /\ p.server.open
                             /\ p'.server.alive => p.server.alive
                             /\ p'.server.session = Hears(x, m)
                             /\ SameHandshake(p'.server.session, y)
        /\ m.cmd = "RPL_MYINFO" => p'.haveMsgCache
        /\ m.cmd # "RPL_MYINFO" => p'.haveMsgCache = p.haveMsgCache
    BY <1>0, <1>1, ServerBecomes, HearsFields DEF NetServer
  <1>3. CASE ~p'.server.open
    <2>1. Follow(FALSE)
      BY <1>3 DEF NetServer
    <2> QED BY <1>3, <2>1, ReplacedOK
  <1>4. CASE p'.server.open
    <2>1. srv' = srv /\ inbox' = Tail(inbox)
      BY <1>4 DEF NetServer
    <2>2. /\ Cached(p.haveMsgCache \/ m.cmd = "RPL_MYINFO", srv, Tail(inbox))
          /\ m.cmd \in MotdEnds => p.haveMsgCache
      BY <1>0, <1>1, CachedReads DEF SentOK
    <2>3. y.haveMOTD => x.haveMOTD \/ m.cmd \in MotdEnds
      <3>1. SameHandshake(y, HandshakeFromServer(x, m))
        BY <1>0, <1>1, FlagsFromServer
      <3>2. HandshakeFromServer(x, m).haveMOTD => x.haveMOTD \/ m.cmd \in MotdEnds
        BY <1>1 DEF HandshakeFromServer, Session
      <3> QED BY <3>1, <3>2 DEF SameHandshake
    <2>4. "RPL_MYINFO" \notin MotdEnds
      BY DEF MotdEnds
    <2>5. ASSUME RegisterOK(p, srv, inbox), Reaches(p'.server)
          PROVE  Tracked(p'.server.session, srv, Tail(inbox))
      <3>1. Tracked(x, srv, inbox)
        BY <1>2, <2>5 DEF RegisterOK, Reaches
      <3>2. Tracked(y, srv, Tail(inbox))
        BY <1>0, <1>1, <3>1, TrackedReads
      <3> HIDE DEF y
      <3> QED BY <1>2, <1>4, <3>2, TrackedFlags
    <2> HIDE DEF m, y
    <2>6. p'.server.session.haveMOTD => p'.haveMsgCache
      BY <1>2, <1>4, <2>2, <2>3 DEF SentOK, SameHandshake
    <2>7. Cached(p'.haveMsgCache, srv, Tail(inbox))
      BY <1>2, <2>2 DEF Cached
    <2>8. ViewOK(p, srv, inbox) => ViewOK(p', srv', inbox')
      <3>1. FoldLeft(Hears, x, inbox) = FoldLeft(Hears, Hears(x, m), Tail(inbox))
        BY <1>0, FoldHead DEF m
      <3>2. Reaches(p'.server) => Reaches(p.server) /\ p'.server.session = Hears(x, m)
        BY <1>2 DEF Reaches
      <3> QED BY <2>1, <3>1, <3>2 DEF ViewOK
    <2> QED BY <1>0, <2>1, <2>5, <2>6, <2>7, <2>8 DEF SentOK, RegisterOK
  <1> QED BY <1>3, <1>4

\* One message of the client.
LEMMA NetClientOK ==
    ASSUME TypeOK, LinksOK(p), SentOK(p, srv, inbox), NEW m \in ClientMsgs, NetClient(m)
    PROVE  /\ SentOK(p', srv', inbox')
           /\ "nick" \notin Hurried /\ RegisterOK(p, srv, inbox)
                  => RegisterOK(p', srv', inbox')
           /\ Unkicked /\ ViewOK(p, srv, inbox) => ViewOK(p', srv', inbox')
  <1>1. m \in Requests
    BY MessagesAssumption DEF Requests
  <1>2. "nick" \notin Hurried => Patient(m)
    <2> SUFFICES ASSUME "nick" \notin Hurried, m.cmd = "NICK", p.server.open,
                        ~Done(p.server.session), p.server.session.haveNick
                 PROVE  FALSE
      BY DEF Patient
    <2>1. SameHandshake(p.client.session, p.server.session)
      BY DEF LinksOK
    <2>2. p.client.session.haveNick /\ ~Done(p.client.session)
      BY <2>1 DEF SameHandshake, Done
    <2> QED BY <2>2 DEF NetClient
  <1>3. CASE /\ ClientInvalid(m) \/ ClientIdles(m) \/ ClientRejoin(m)
             /\ Follow(p'.server.open)
    BY <1>3, ClientKeeps, FollowOK
  <1>4. CASE Passes(m) /\ Request(m)
    BY <1>1, <1>2, <1>4, ClientPasses, RequestOK DEF Unkicked
  <1>5. CASE ClientReturns(m) /\ Request(Bare("MOTD"))
    <2> DEFINE w == Bare("MOTD")
    <2>1. w \in Requests /\ w.cmd = "MOTD"
      BY DEF Requests, Bare, Msg
    <2> HIDE DEF w
    <2>2. UpdateFromClient(p.server.session, w) = p.server.session
      BY <2>1, FlagsFromClient DEF TypeOK, ProxyStruct, Connection
    <2>3. Becomes(p, p', UpdateFromClient(p.server.session, w))
      BY <1>5, <2>2, ClientKeeps DEF Kept
    <2>4. Patient(w) /\ Request(w)
      BY <1>5, <2>1 DEF Patient, w
    <2> QED BY <2>1, <2>3, <2>4, RequestOK
  <1>6. CASE ClientReturns(m) /\ Follow(p'.server.open)
    BY <1>6, ClientKeeps, FollowOK
  <1>7. CASE /\ \/ ClientCommand(m) /\ m.cmd \in {"PING", "PONG", "QUIT"}
                \/ ClientJoin(m) /\ HaveChannel(p.client.session, m.target)
             /\ Follow(TRUE)
    BY <1>7, ClientKeeps, FollowOK
  <1> QED BY <1>3, <1>4, <1>5, <1>6, <1>7 DEF NetClient, Passes

\* The other users say something that is not about the handshake, or leave the
\* proxy alone.
LEMMA AnnouncedOK ==
    ASSUME SentOK(p, srv, inbox), p' = p, ServerOK(srv'),
           srv'.nick = srv.nick, srv'.user = srv.user, srv'.registered = srv.registered,
           NEW m \in Honest, m.cmd \notin NickErrors \cup MotdEnds,
           inbox' \in {inbox, Append(inbox, m)}
    PROVE  /\ SentOK(p', srv', inbox')
           /\ RegisterOK(p, srv, inbox) => RegisterOK(p', srv', inbox')
  <1> DEFINE b == inbox \o <<m>>
  <1>1. <<m>> \in Seq(Honest) /\ inbox \in Seq(Honest) /\ Plain(<<m>>)
    BY DEF SentOK, Plain
  <1>2. inbox' \in {inbox, b}
    BY <1>1, AppendIsConcat
  <1>3. /\ ~Holds(<<m>>, NickErrors) /\ ~Holds(<<m>>, MotdEnds)
        /\ Ready(<<m>>)
    BY <1>1, PlainSays
  <1>4. /\ b \in Seq(Honest)
        /\ \A cmds : Holds(b, cmds) <=> Holds(inbox, cmds) \/ Holds(<<m>>, cmds)
        /\ \A cmds : Once(inbox, cmds) /\ ~Holds(<<m>>, cmds) => Once(b, cmds)
        /\ Ready(inbox) => Ready(b)
    BY <1>1, <1>3, Sent
  <1> HIDE DEF b
  <1>5. ASSUME NEW have, Cached(have, srv, inbox) PROVE Cached(have, srv', inbox')
    BY <1>2, <1>4, <1>5 DEF Cached
  <1>6. ASSUME NEW x, Tracked(x, srv, inbox) PROVE Tracked(x, srv', inbox')
    <2>1. Tracked(x, srv, inbox')
      BY <1>2, <1>3, <1>4, <1>6 DEF Tracked
    <2>2. SameHandshake(x, x)
      BY DEF SameHandshake
    <2> QED BY <2>1, <2>2, TrackedFlags
  <1>7. inbox' \in Seq(Honest)
    BY <1>1, <1>2, <1>4
  <1> QED BY <1>5, <1>6, <1>7 DEF SentOK, RegisterOK

LEMMA OtherUsersOK ==
    ASSUME TypeOK, SentOK(p, srv, inbox), OtherUsers
    PROVE  /\ SentOK(p', srv', inbox')
           /\ RegisterOK(p, srv, inbox) => RegisterOK(p', srv', inbox')
           /\ Unkicked /\ ViewOK(p, srv, inbox) => ViewOK(p', srv', inbox')
           /\ UNCHANGED vars
  <1> USE DEF NickErrors, MotdEnds, Msg
  <1>0. srv \in Server /\ ServerOK(srv) /\ \A c \in Channels : IsFiniteSet(srv.members[c])
    BY DEF SentOK, ServerOK
  <1>f. ASSUME NEW c \in Channels, NEW x
        PROVE  /\ IsFiniteSet(srv.members[c] \cup {x})
               /\ IsFiniteSet(srv.members[c] \ {x})
    <2>1. IsFiniteSet(srv.members[c])
      BY <1>0
    <2> QED BY <2>1, FS_AddElement, FS_RemoveElement
  <1>s. ASSUME srv' \in Server,
               srv'.nick = srv.nick, srv'.user = srv.user, srv'.registered = srv.registered,
               \A c \in Channels : IsFiniteSet(srv'.members[c])
        PROVE  ServerOK(srv')
    BY <1>0, <1>s DEF ServerOK
  <1>1. ASSUME NEW n \in Nicks, NEW c \in Channels, OtherJoins(n, c)
        PROVE  /\ SentOK(p', srv', inbox')
               /\ RegisterOK(p, srv, inbox) => RegisterOK(p', srv', inbox')
    <2> DEFINE m == Msg("JOIN", n, c, None)
    <2>1. /\ srv' \in Server /\ srv'.nick = srv.nick /\ srv'.user = srv.user
          /\ srv'.registered = srv.registered
          /\ \A d \in Channels : srv'.members[d] \in {srv.members[d], srv.members[d] \cup {n}}
      BY <1>0, <1>1 DEF OtherJoins, Server
    <2>2. ServerOK(srv')
      <3>1. ASSUME NEW d \in Channels PROVE IsFiniteSet(srv'.members[d])
        <4>1. /\ IsFiniteSet(srv.members[d])
              /\ \A x : IsFiniteSet(srv.members[d] \cup {x}) /\ IsFiniteSet(srv.members[d] \ {x})
          BY <1>0, <1>f
        <4> QED BY <2>1, <4>1
      <3> QED BY <1>s, <2>1, <3>1
    <2>3. m \in Honest /\ m.cmd \notin NickErrors \cup MotdEnds
      BY HonestReplies DEF Names
    <2>4. p' = p /\ inbox' \in {inbox, Append(inbox, m)}
      BY <1>1 DEF OtherJoins, Happens, Announce, vars
    <2> HIDE DEF m
    <2> QED BY <2>1, <2>2, <2>3, <2>4, AnnouncedOK
  <1>2. ASSUME NEW n \in Nicks, NEW c \in Channels, OtherParts(n, c)
        PROVE  /\ SentOK(p', srv', inbox')
               /\ RegisterOK(p, srv, inbox) => RegisterOK(p', srv', inbox')
    <2> DEFINE m == Msg("PART", n, c, None)
    <2>1. /\ srv' \in Server /\ srv'.nick = srv.nick /\ srv'.user = srv.user
          /\ srv'.registered = srv.registered
          /\ \A d \in Channels : srv'.members[d] \in {srv.members[d], srv.members[d] \ {n}}
      BY <1>0, <1>2 DEF OtherParts, Server
    <2>2. ServerOK(srv')
      <3>1. ASSUME NEW d \in Channels PROVE IsFiniteSet(srv'.members[d])
        <4>1. /\ IsFiniteSet(srv.members[d])
              /\ \A x : IsFiniteSet(srv.members[d] \cup {x}) /\ IsFiniteSet(srv.members[d] \ {x})
          BY <1>0, <1>f
        <4> QED BY <2>1, <4>1
      <3> QED BY <1>s, <2>1, <3>1
    <2>3. m \in Honest /\ m.cmd \notin NickErrors \cup MotdEnds
      BY HonestReplies DEF Names
    <2>4. p' = p /\ inbox' \in {inbox, Append(inbox, m)}
      BY <1>2 DEF OtherParts, Happens, Announce, vars
    <2> HIDE DEF m
    <2> QED BY <2>1, <2>2, <2>3, <2>4, AnnouncedOK
  <1>3. ASSUME NEW n \in Nicks, NEW c \in Channels, NEW v \in Nicks, OtherKicks(n, c, v)
        PROVE  /\ SentOK(p', srv', inbox')
               /\ RegisterOK(p, srv, inbox) => RegisterOK(p', srv', inbox')
    <2> DEFINE m == Msg("KICK", n, c, v)
    <2>1. /\ srv' \in Server /\ srv'.nick = srv.nick /\ srv'.user = srv.user
          /\ srv'.registered = srv.registered
          /\ \A d \in Channels : srv'.members[d] \in {srv.members[d], srv.members[d] \ {v}}
      BY <1>0, <1>3 DEF OtherKicks, Server
    <2>2. ServerOK(srv')
      <3>1. ASSUME NEW d \in Channels PROVE IsFiniteSet(srv'.members[d])
        <4>1. /\ IsFiniteSet(srv.members[d])
              /\ \A x : IsFiniteSet(srv.members[d] \cup {x}) /\ IsFiniteSet(srv.members[d] \ {x})
          BY <1>0, <1>f
        <4> QED BY <2>1, <4>1
      <3> QED BY <1>s, <2>1, <3>1
    <2>3. m \in Honest /\ m.cmd \notin NickErrors \cup MotdEnds
      BY HonestReplies DEF Names
    <2>4. p' = p /\ inbox' \in {inbox, Append(inbox, m)}
      BY <1>3 DEF OtherKicks, Happens, Announce, vars
    <2> HIDE DEF m
    <2> QED BY <2>1, <2>2, <2>3, <2>4, AnnouncedOK
  <1>4. ASSUME NEW n \in Nicks, NEW new \in Nicks, OtherNick(n, new)
        PROVE  /\ SentOK(p', srv', inbox')
               /\ RegisterOK(p, srv, inbox) => RegisterOK(p', srv', inbox')
    <2> DEFINE m == Msg("NICK", n, new, None)
    <2>1. Renamed(srv, n, new) \in [Channels -> SUBSET Nicks]
      BY <1>0 DEF Renamed, Server
    <2>2. /\ srv' \in Server /\ srv'.nick = srv.nick /\ srv'.user = srv.user
          /\ srv'.registered = srv.registered
          /\ srv'.members = Renamed(srv, n, new)
      BY <1>0, <1>4, <2>1 DEF OtherNick, Server
    <2>3. \A d \in Channels : IsFiniteSet(srv'.members[d])
      <3> SUFFICES ASSUME NEW d \in Channels PROVE IsFiniteSet(srv'.members[d])
        OBVIOUS
      <3>1. IsFiniteSet((srv.members[d] \ {n}) \cup {new})
        BY <1>f, FS_AddElement
      <3> QED BY <1>0, <2>2, <3>1 DEF Renamed
    <2>4. ServerOK(srv')
      BY <1>s, <2>2, <2>3
    <2>5. m \in Honest /\ m.cmd \notin NickErrors \cup MotdEnds
      BY HonestReplies DEF Names
    <2>6. p' = p /\ inbox' \in {inbox, Append(inbox, m)}
      BY <1>4 DEF OtherNick, Happens, Announce, vars
    <2> HIDE DEF m
    <2> QED BY <2>2, <2>4, <2>5, <2>6, AnnouncedOK
  <1>5. ASSUME NEW n \in Nicks, OtherQuits(n)
        PROVE  /\ SentOK(p', srv', inbox')
               /\ RegisterOK(p, srv, inbox) => RegisterOK(p', srv', inbox')
    <2> DEFINE m == Msg("QUIT", n, None, None)
    <2>1. /\ srv' \in Server /\ srv'.nick = srv.nick /\ srv'.user = srv.user
          /\ srv'.registered = srv.registered
          /\ \A d \in Channels : srv'.members[d] = srv.members[d] \ {n}
      BY <1>0, <1>5 DEF OtherQuits, Server
    <2>2. ServerOK(srv')
      <3>1. ASSUME NEW d \in Channels PROVE IsFiniteSet(srv'.members[d])
        <4>1. /\ IsFiniteSet(srv.members[d])
              /\ \A x : IsFiniteSet(srv.members[d] \cup {x}) /\ IsFiniteSet(srv.members[d] \ {x})
          BY <1>0, <1>f
        <4> QED BY <2>1, <4>1
      <3> QED BY <1>s, <2>1, <3>1
    <2>3. m \in Honest /\ m.cmd \notin NickErrors \cup MotdEnds
      BY HonestReplies DEF Names
    <2>4. p' = p /\ inbox' \in {inbox, Append(inbox, m)}
      BY <1>5 DEF OtherQuits, Happens, Announce, vars
    <2> HIDE DEF m
    <2> QED BY <2>1, <2>2, <2>3, <2>4, AnnouncedOK
  <1>6. ASSUME NEW n \in Nicks, NEW c \in Channels, NEW t \in Texts, OtherSpeaks(n, c, t)
        PROVE  /\ SentOK(p', srv', inbox')
               /\ RegisterOK(p, srv, inbox) => RegisterOK(p', srv', inbox')
    <2> DEFINE m == Msg("PRIVMSG", n, c, t)
    <2>1. m \in Honest /\ m.cmd \notin NickErrors \cup MotdEnds
      BY HonestReplies DEF Names
    <2>2. p' = p /\ srv' = srv /\ inbox' \in {inbox, Append(inbox, m)}
      BY <1>6 DEF OtherSpeaks, Happens, Announce, vars
    <2> HIDE DEF m
    <2> QED BY <1>0, <2>1, <2>2, AnnouncedOK
  <1>7. UNCHANGED vars
    BY DEF OtherUsers, OtherJoins, OtherParts, OtherKicks, OtherNick, OtherQuits,
           OtherSpeaks, Happens
  <1>8. Unkicked /\ ViewOK(p, srv, inbox) => ViewOK(p', srv', inbox')
    <2>1. p.server.session \in Session /\ p' = p
      BY <1>7 DEF TypeOK, ProxyStruct, Connection, vars
    <2> QED BY <2>1, OtherUsersView DEF Unkicked, ViewOK, SentOK
  <1> QED BY <1>1, <1>2, <1>3, <1>4, <1>5, <1>6, <1>7, <1>8 DEF OtherUsers

\* The server closes the connection, and what it sent before is still read.
LEMMA ServerClosesOK ==
    ASSUME TypeOK, LinksOK(p), SentOK(p, srv, inbox), ServerCloses
    PROVE  /\ TypeOK' /\ LinksOK(p')
           /\ SentOK(p', srv', inbox') /\ RegisterOK(p', srv', inbox')
           /\ ViewOK(p, srv, inbox) => ViewOK(p', srv', inbox')
  <1>1. p \in ProxyStruct
    BY DEF TypeOK
  <1>2. /\ p' \in ProxyStruct /\ p'.client = p.client
        /\ p'.haveMsgCache = p.haveMsgCache
        /\ p'.server.open = p.server.open /\ ~p'.server.alive
        /\ p'.server.session = p.server.session
    BY <1>1 DEF ServerCloses, ProxyStruct, Connection
  <1>3. TypeOK'
    BY <1>2 DEF ServerCloses, TypeOK, history
  <1>4. LinksOK(p')
    BY <1>2 DEF LinksOK, OutlivesOK
  <1>5. srv' = Unregistered(srv) /\ inbox' = inbox
    BY DEF ServerCloses
  <1>6. ServerOK(srv') /\ ~srv'.registered
    BY <1>5, UnregisteredFields DEF SentOK
  <1>7. SentOK(p', srv', inbox')
    BY <1>2, <1>5, <1>6 DEF SentOK, Cached
  <1>8. RegisterOK(p', srv', inbox')
    BY <1>2 DEF RegisterOK, Reaches
  <1>9. ViewOK(p, srv, inbox) => ViewOK(p', srv', inbox')
    BY <1>2, <1>5, AgreesNew DEF SentOK, ViewOK, Reaches
  <1> QED BY <1>3, <1>4, <1>7, <1>8, <1>9

-----------------------------------------------------------------------------
(* The theorems                                                            *)

\* The steps of the network that the proxy takes are steps that module Proxy
\* knows; in the others the proxy does not move.
LEMMA NetStepIsAnyStep ==
    ASSUME TypeOK, SentOK(p, srv, inbox), [NetNext]_nvars, ~ServerCloses
    PROVE  [AnyStep]_vars
  <1>1. CASE NetAccept \/ NetGone \/ NetRestart
    BY <1>1 DEF NetAccept, NetGone, NetRestart, AnyStep, Lifecycle
  <1>2. CASE NetServer
    <2>1. Head(inbox) \in ServerMessages
      BY <1>2, Taken, HonestMessage DEF NetServer, SentOK
    <2> QED BY <1>2, <2>1 DEF NetServer, AnyStep
  <1>3. CASE NetHandler \/ NetClientDies
    BY <1>3 DEF NetHandler, NetClientDies, AnyStep, Environment
  <1>4. CASE OtherUsers
    BY <1>4, OtherUsersOK
  <1>5. ASSUME NEW m \in ClientMsgs, NetClient(m) PROVE AnyStep
    BY <1>5 DEF NetClient, AnyStep, ClientEvent, handleClientEvent
  <1>6. CASE UNCHANGED nvars
    BY <1>6 DEF nvars
  <1> QED BY <1>1, <1>2, <1>3, <1>4, <1>5, <1>6 DEF NetNext, NetLives

\* No step of the network breaks the invariants; none but a hurried NICK breaks
\* what the proxy knows of the registration, and none but a kick what it knows of
\* the channels.
LEMMA NetStep ==
    ASSUME TypeOK, LinksOK(p), SentOK(p, srv, inbox), [NetNext]_nvars
    PROVE  /\ TypeOK' /\ LinksOK(p') /\ SentOK(p', srv', inbox')
           /\ "nick" \notin Hurried /\ RegisterOK(p, srv, inbox)
                  => RegisterOK(p', srv', inbox')
           /\ Unkicked /\ ViewOK(p, srv, inbox) => ViewOK(p', srv', inbox')
  <1>1. CASE ServerCloses
    BY <1>1, ServerClosesOK
  <1>2. CASE ~ServerCloses
    <2>1. TypeOK' /\ LinksOK(p')
      BY <1>2, NetStepIsAnyStep, TypeStep, LinkStep
    <2>2. CASE NetAccept
      <3>1. Follow(p.server.open /\ Done(p.server.session)) /\ Accept
        BY <2>2 DEF NetAccept
      <3>2. CASE p.server.open /\ Done(p.server.session)
        <4>1. Kept(p, p') /\ Follow(TRUE)
          BY <3>1, <3>2, AcceptKeeps DEF Follow
        <4> QED BY <2>1, <4>1, FollowOK
      <3>3. CASE ~(p.server.open /\ Done(p.server.session))
        <4>1. /\ p'.server.open => p'.server.session = NewSession
              /\ Follow(FALSE)
          BY <3>1, <3>3, AcceptKeeps DEF Follow
        <4> QED BY <2>1, <4>1, ReplacedOK
      <3> QED BY <2>1, <3>2, <3>3
    <2>3. CASE NetGone
      <3>1. Kept(p, p') /\ Follow(p'.server.open)
        BY <2>3, RestKeeps DEF NetGone
      <3> QED BY <2>1, <3>1, FollowOK
    <2>4. CASE NetRestart
      <3>1. ~reset(p).server.open /\ ~NewProxy.server.open
        BY DEF reset, shutdown, NewProxy, emptyConnection, TypeOK, ProxyStruct, Connection
      <3>2. ~p'.server.open
        BY <2>4, <3>1 DEF NetRestart, Stop, Restart
      <3> QED BY <2>1, <2>4, <3>2, ReplacedOK DEF NetRestart
    <2>5. CASE NetServer
      BY <2>1, <2>5, NetServerOK
    <2>6. CASE NetHandler
      <3>1. Kept(p, p') /\ Follow(p'.server.open)
        BY <2>6, RestKeeps DEF NetHandler
      <3> QED BY <2>1, <3>1, FollowOK
    <2>7. CASE NetClientDies
      <3>1. Kept(p, p') /\ Follow(TRUE)
        BY <2>7, RestKeeps DEF NetClientDies, Follow
      <3> QED BY <2>1, <3>1, FollowOK
    <2>8. CASE OtherUsers
      BY <2>1, <2>8, OtherUsersOK
    <2>9. ASSUME NEW m \in ClientMsgs, NetClient(m)
          PROVE  /\ SentOK(p', srv', inbox')
                 /\ "nick" \notin Hurried /\ RegisterOK(p, srv, inbox)
                        => RegisterOK(p', srv', inbox')
                 /\ Unkicked /\ ViewOK(p, srv, inbox) => ViewOK(p', srv', inbox')
      BY <2>9, NetClientOK
    <2>10. CASE UNCHANGED nvars
      BY <2>1, <2>10 DEF nvars, vars
    <2> QED
      BY <1>2, <2>1, <2>2, <2>3, <2>4, <2>5, <2>6, <2>7, <2>8, <2>9, <2>10 DEF NetNext, NetLives
  <1> QED BY <1>1, <1>2

NetInv == TypeOK /\ LinksOK(p) /\ SentOK(p, srv, inbox)

\* At first there is no connection, and the server knows nothing of us.
LEMMA NetInitOK ==
    ASSUME NetInit
    PROVE  NetInv /\ RegisterOK(p, srv, inbox) /\ ViewOK(p, srv, inbox)
  <1>1. TypeOK /\ LinksOK(p)
    <2>1. TypeOK
      BY InitialTypes DEF NetInit, Init, TypeOK
    <2>2. LinksOK(p)
      BY DEF NetInit, Init, LinksOK, OutlivesOK, NewProxy, emptyConnection
    <2> QED BY <2>1, <2>2
  <1>2. srv \in Server /\ ServerOK(srv) /\ ~srv.registered
    <2>1. srv = [nick |-> None, user |-> FALSE, registered |-> FALSE, others |-> Others,
                 members |-> [c \in Channels |-> {}]]
      BY DEF NetInit
    <2>2. srv \in Server
      BY <2>1, NetworkAssumption DEF Server, Names
    <2>3. \A c \in Channels : IsFiniteSet(srv.members[c])
      BY <2>1, FS_EmptySet
    <2> QED BY <2>1, <2>2, <2>3 DEF ServerOK
  <1>3. inbox = <<>> /\ ~p.server.open
    BY DEF NetInit, Init, NewProxy, emptyConnection
  <1>4. SentOK(p, srv, inbox)
    BY <1>2, <1>3 DEF SentOK, Cached, Ready
  <1>5. MembersOK(srv)
    BY NetworkAssumption, NamesAssumption DEF NetInit, MembersOK
  <1> QED BY <1>1, <1>3, <1>4, <1>5 DEF NetInv, RegisterOK, ViewOK, Reaches

LEMMA NetInvariant == NetSpec => []NetInv
  <1>1. NetInit => NetInv
    BY NetInitOK
  <1>2. NetInv /\ [NetNext]_nvars => NetInv'
    BY NetStep DEF NetInv
  <1> QED BY <1>1, <1>2, PTL DEF NetSpec

\* As long as clients wait for the answer to a NICK before they send another,
\* the proxy knows of its registration as soon as it has read what the server
\* sent: the flags of server.session say Done whatever the interleaving of
\* refused nicks, rejections of them on their way, connections that replace
\* each other and clients that come and go.
THEOREM RegisteredTheorem ==
    ASSUME "nick" \notin Hurried
    PROVE  NetSpec => []RegisteredMeansDone
  <1> DEFINE Inv == NetInv /\ RegisterOK(p, srv, inbox)
  <1>1. NetInit => Inv
    BY NetInitOK
  <1>2. Inv /\ [NetNext]_nvars => Inv'
    BY NetStep DEF NetInv
  <1>3. Inv => RegisteredMeansDone
    <2> SUFFICES ASSUME Inv, Reaches(p.server), srv.registered, inbox = <<>>,
                        ~Done(p.server.session)
                 PROVE  FALSE
      BY DEF RegisteredMeansDone
    <2> DEFINE x == p.server.session
    <2>1. Tracked(x, srv, inbox) /\ ServerOK(srv)
      BY DEF RegisterOK, NetInv, SentOK
    <2> HIDE DEF x
    <2>2. \A cmds : ~Holds(inbox, cmds)
      BY DEF Holds
    <2> QED BY <2>1, <2>2 DEF Tracked, ServerOK, Done, x
  <1> QED BY <1>1, <1>2, <1>3, PTL DEF NetSpec

\* As long as nobody kicks, what the proxy will believe once it has read what
\* is on its way is what the server believes: our nick, the channels we are in
\* and exactly their users, whatever the other users, the client and the end of
\* connections do meanwhile.  Session.UpdateFromServer is applied to messages
\* that the server sent at different moments, and a client's JOIN, PART and NICK
\* overtake them; the session is right because it is moved by the answers alone.
\* (A KICK is excluded since UpdateFromServer takes the one who kicks out of the
\* channel instead of the one who is kicked.)
THEOREM ViewTheorem ==
    ASSUME "kick" \notin OtherEvents, \A m \in ClientMsgs : m.cmd # "KICK"
    PROVE  NetSpec => []ServerViewExact
  <1> DEFINE Inv == NetInv /\ ViewOK(p, srv, inbox)
  <1>0. Unkicked
    BY DEF Unkicked
  <1>1. NetInit => Inv
    BY NetInitOK
  <1>2. Inv /\ [NetNext]_nvars => Inv'
    BY <1>0, NetStep DEF NetInv
  <1>3. Inv => ServerViewExact
    BY DEF ViewOK, Agrees, AgreesIn, ServerViewExact
  <1> QED BY <1>1, <1>2, <1>3, PTL DEF NetSpec

\* No client takes the user's session away: when the handshake of a server's
\* connection is done, every step but that of the idler's own end leaves it
\* open and done, because the end of the MOTD is read after RPL_MYINFO
\* completed the cache, so that handleHandshakeMessage never resets both.
THEOREM LoggedInTheorem == NetSpec => NeverLoggedOut
  <1> DEFINE Stays == SessionEnds => ~NetLives
  <1>1. NetInv /\ [NetNext]_nvars => [Stays]_nvars
    <2> SUFFICES ASSUME NetInv, NetLives, Steady(p)
                 PROVE  p'.server.open /\ Done(p'.server.session)
      BY DEF SessionEnds, Steady
    <2>0. TypeOK /\ p.haveMsgCache
      BY DEF NetInv, SentOK, Steady, Done
    <2>1. CASE NetAccept \/ NetGone \/ NetHandler \/ NetClientDies
      BY <2>0, <2>1, SteadyRest DEF NetAccept, NetGone, NetHandler, NetClientDies, Environment
    <2>3. CASE NetServer
      <3>1. Head(inbox) \in Honest /\ Head(inbox) \in ServerMessages
        BY <2>3, Taken, HonestMessage DEF NetInv, SentOK, NetServer
      <3> QED BY <2>0, <2>3, <3>1, SteadyServer DEF NetServer, Honest
    <2>4. CASE OtherUsers
      BY <2>4, OtherUsersOK DEF NetInv, Steady, vars
    <2>5. CASE ServerCloses
      BY <2>0, <2>5 DEF ServerCloses, TypeOK, ProxyStruct, Connection, Steady
    <2>6. ASSUME NEW m \in ClientMsgs, NetClient(m)
          PROVE  p'.server.open /\ Done(p'.server.session)
      BY <2>0, <2>6, SteadyClient DEF NetClient, handleClientEvent
    <2> QED BY <2>1, <2>3, <2>4, <2>5, <2>6 DEF NetLives
  <1>2. NetSpec => [][Stays]_nvars
    <2> HIDE DEF Stays
    <2> QED BY <1>1, NetInvariant, PTL DEF NetSpec
  <1> QED BY <1>2 DEF NeverLoggedOut

=============================================================================
