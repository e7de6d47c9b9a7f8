----------------------------- MODULE MCNetwork -----------------------------
(***************************************************************************)
(* Small instances of Network for TLC: two nicks that we may use, one of   *)
(* them also wanted by others, one other user and one channel.             *)
(***************************************************************************)
EXTENDS Network

CONSTANTS me, bob, chan, t1

TwoNicks == {me, bob}
OneChannel == {chan}
OneText == {t1}
Nothing == {}

Bob == {bob}

Nick(n)    == Msg("NICK", None, n, None)
JoinChan   == Msg("JOIN", None, chan, None)
PartChan   == Msg("PART", None, chan, None)
KickBob    == Msg("KICK", None, chan, bob)

LoginOnly    == {Nick(me), Bare("USER")}
LoginAndJoin == LoginOnly \cup {JoinChan}
TwoLogins    == LoginAndJoin \cup {Nick(bob), PartChan}
AllCommands  == LoginAndJoin \cup {PartChan, KickBob, Bare("QUIT"), Bare("PING"), Bare("INVALID")}

NetMessages == ServerMessages

Comings   == {"join", "part"}
NotKicked == {"join", "part", "nick", "close"}
AllEvents == EventKinds

AllHurries == Hurries
Reconnects == {"connect"}

ClientDrops == {"clientDies"}

=============================================================================
