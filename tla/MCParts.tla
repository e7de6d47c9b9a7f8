------------------------------ MODULE MCParts ------------------------------
(***************************************************************************)
(* The parts around the proxy, for TLC: how the messages of a connection   *)
(* are read (Reader) and how it is kept alive (Keepalive), the two message *)
(* stores (SqlStore, Ephemeral), and the rest of package irc: a line is    *)
(* read and written (Codec), a message validated (Validate), a client id   *)
(* or a mask parsed (Names), RateLimit runs (Filters), AutoPing and        *)
(* AutoPong run (PingPong).  None of them looks at the state of another,   *)
(* so one is chosen, and the others have nothing to do.                    *)
(***************************************************************************)
EXTENDS Reader, Keepalive, MCStores, Codec, Validate, Names, Filters, PingPong

CONSTANT Chosen     \* the parts that are checked

VARIABLE part       \* the one that runs

connectionVars == <<readerVars, keepaliveVars>>
storesVars     == <<sqlVars, memoryVars>>
textVars       == <<codecVars, validateVars, namesVars>>
filterVars     == <<limitVars, pingPongVars>>

vars == <<part, connectionVars, storesVars, textVars, filterVars>>

-----------------------------------------------------------------------------
(* A part that has nothing to do: no connection was made, or it is gone;   *)
(* nothing is stored; the function has returned.                           *)

ConnectionDropped ==
    /\ conn = "dropped" /\ PingSent = FALSE /\ ticked = FALSE
    /\ age = 0 /\ phase = 0 /\ wait = 0 /\ asked = -1 /\ quiet = 0
    /\ unread = 0 /\ answers = FALSE

NoLine ==
    /\ stage = "rejected"
    /\ line = [chars |-> <<>>, eol |-> "LF"] /\ text = [chars |-> <<>>, eol |-> "LF"]
    /\ msg = NoMessage /\ again = NoMessage

NothingToValidate ==
    /\ outcome = "refused"
    /\ message = [server |-> FALSE, cmd |-> "", params |-> 0]

NoName == done = TRUE /\ idText = <<>> /\ mask = <<>> /\ input = <<>>

LimitReturned ==
    /\ pc = "returned" /\ src = "closed" /\ dstClosed = TRUE
    /\ left = MaxQuota /\ tick = FALSE
    /\ taken = 0 /\ copied = 0 /\ window = 0 /\ ticks = 0

PingPongReturned ==
    /\ ping = "returned" /\ pong = "returned"
    /\ canceled = TRUE /\ timedOut = FALSE /\ pingSent = FALSE
    /\ timer = "drained" /\ listening = FALSE /\ quick = FALSE

\* A log of one name is as good as another to the cursor of a store at rest.
StoresEmpty == StoresInit /\ cur = noCursor(CHOOSE k \in Keys : TRUE)

-----------------------------------------------------------------------------

PartsInit ==
    /\ part \in Chosen
    /\ ReaderInit
    /\ IF part = "keepalive" THEN KeepaliveInit    ELSE ConnectionDropped
    /\ IF part = "stores"    THEN StoresInit       ELSE StoresEmpty
    /\ IF part = "codec"     THEN CodecInit        ELSE NoLine
    /\ IF part = "validate"  THEN ValidateInit     ELSE NothingToValidate
    /\ IF part = "names"     THEN NamesInit        ELSE NoName
    /\ IF part = "limit"     THEN LimitInit        ELSE LimitReturned
    /\ IF part = "pingpong"  THEN PingPongInit     ELSE PingPongReturned

PartsNext ==
    /\ UNCHANGED part
    /\ \/ /\ part = "reader" /\ ReaderNext
          /\ UNCHANGED <<keepaliveVars, storesVars, textVars, filterVars>>
       \/ /\ part = "keepalive" /\ KeepaliveNext
          /\ UNCHANGED <<readerVars, storesVars, textVars, filterVars>>
       \/ /\ part = "stores" /\ StoresNext
          /\ UNCHANGED <<connectionVars, textVars, filterVars>>
       \/ /\ part = "codec" /\ CodecNext
          /\ UNCHANGED <<connectionVars, storesVars, validateVars, namesVars, filterVars>>
       \/ /\ part = "validate" /\ ValidateNext
          /\ UNCHANGED <<connectionVars, storesVars, codecVars, namesVars, filterVars>>
       \/ /\ part = "names" /\ Apply
          /\ UNCHANGED <<connectionVars, storesVars, codecVars, validateVars, filterVars>>
       \/ /\ part = "limit" /\ LimitNext
          /\ UNCHANGED <<connectionVars, storesVars, textVars, pingPongVars>>
       \/ /\ part = "pingpong" /\ PingPongNext
          /\ UNCHANGED <<connectionVars, storesVars, textVars, limitVars>>

PartsSpec ==
    PartsInit /\ [][PartsNext]_vars /\ ReaderFairness /\ LimitFairness /\ PingPongFairness

MCFromServer ==
    {"", "JOIN", "PART", "KICK", "NICK", "PRIVMSG", "NOTICE", "QUIT", "PING", "OTHER",
     "RPL_TOPIC", "RPL_NAMEREPLY", "RPL_WELCOME", "RPL_YOURHOST", "RPL_CREATED",
     "RPL_MYINFO", "RPL_ENDOFNAMES", "RPL_ENDOFMOTD"}

MCFromClient ==
    {"", "JOIN", "PART", "KICK", "NICK", "USER", "PASS", "PRIVMSG", "QUIT", "PING", "OTHER"}

=============================================================================
