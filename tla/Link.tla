-------------------------------- MODULE Link --------------------------------
(***************************************************************************)
(* What the proxy's select loop may assume of one of its connections: the  *)
(* messages of the peer arrive in order, each once, and the end of input   *)
(* after all of them; a connection that was shut down delivers nothing.    *)
(***************************************************************************)
EXTENDS Naturals, Sequences

CONSTANTS
    Messages,   \* what a peer may send
    Bad         \* a line that ReadMessage cannot parse

VARIABLES
    up,         \* the connection is not empty
    queue,      \* what was sent and not handled
    over,       \* nothing more is coming
    taken       \* what was handled of this connection

linkVars == <<up, queue, over, taken>>

Connect ==
    /\ ~up
    /\ up' = TRUE /\ over' = FALSE
    /\ queue' = <<>> /\ taken' = <<>>

Say(m) ==
    /\ up /\ ~over
    /\ queue' = Append(queue, m)
    /\ UNCHANGED <<up, over, taken>>

Finish ==
    /\ up
    /\ over' = TRUE
    /\ UNCHANGED <<up, queue, taken>>

\* An unreadable line ends the connection like the end of input.
Break ==
    /\ up /\ queue # <<>> /\ Head(queue) = Bad
    /\ queue' = <<>> /\ over' = TRUE
    /\ UNCHANGED <<up, taken>>

Take ==
    /\ up /\ queue # <<>> /\ Head(queue) # Bad
    /\ taken' = Append(taken, Head(queue))
    /\ queue' = Tail(queue)
    /\ UNCHANGED <<up, over>>

\* The end of input is handled.
End ==
    /\ up /\ over /\ queue = <<>>
    /\ up' = FALSE /\ over' = FALSE /\ taken' = <<>>
    /\ UNCHANGED queue

\* The proxy drops the connection.
Drop ==
    /\ up
    /\ up' = FALSE /\ over' = FALSE /\ queue' = <<>> /\ taken' = <<>>

LinkInit == up = FALSE /\ queue = <<>> /\ over = FALSE /\ taken = <<>>

LinkNext ==
    \/ Connect \/ Finish \/ Break \/ Take \/ End \/ Drop
    \/ \E m \in Messages \cup {Bad} : Say(m)

LinkSpec == LinkInit /\ [][LinkNext]_linkVars

=============================================================================
