------------------------------- MODULE Reader -------------------------------
(***************************************************************************)
(* How a connection's messages reach the proxy's select loop: the peer,    *)
(* the buffer of ReadMessage's scanner, the goroutine that irc.ReadAll     *)
(* starts for each connection, its unbuffered channel, and connection's    *)
(* setup and shutdown (proxy/proxy.go).  A connection that was shut down   *)
(* is replaced by a new one, while its goroutine may still be running.     *)
(***************************************************************************)
EXTENDS Naturals, Sequences

CONSTANTS
    Messages,   \* what a peer may send
    Bad,        \* a line that ReadMessage cannot parse, such as an empty one
    MaxConns,   \* bound on the connections that are ever set up
    MaxSent     \* bound on the messages sent on each

ASSUME ReaderAssumption ==
    /\ Bad \notin Messages
    /\ MaxConns \in Nat /\ MaxSent \in Nat

VARIABLES
    wire,       \* for each connection, what was sent and not read
    hungUp,     \* the peer has closed it
    closed,     \* the proxy has closed it
    buf,        \* lines in the scanner's buffer
    routine,    \* where its goroutine is
    got,        \* the message that the goroutine has read last
    current,    \* the connection the proxy uses, 0 if it is empty
    run,        \* where the proxy is
    handled     \* history: the messages of current that were handled

readerVars == <<wire, hungUp, closed, buf, routine, got, current, run, handled>>

Conns == 1..MaxConns

-----------------------------------------------------------------------------
(* The peer.                                                               *)

\* What is sent to a connection that the proxy has closed is never read.
PeerWrites(c, m) ==
    /\ routine[c] # "none" /\ ~hungUp[c] /\ ~closed[c]
    /\ Len(handled) + Len(wire[c]) + Len(buf[c]) < MaxSent
    /\ wire' = [wire EXCEPT ![c] = Append(@, m)]
    /\ UNCHANGED <<hungUp, closed, buf, routine, got, current, run, handled>>

PeerLeaves(c) ==
    /\ routine[c] # "none" /\ ~hungUp[c] /\ ~closed[c]
    /\ hungUp' = [hungUp EXCEPT ![c] = TRUE]
    /\ UNCHANGED <<wire, closed, buf, routine, got, current, run, handled>>

-----------------------------------------------------------------------------
(* The goroutine of ReadAll, and ReadMessage in it.                        *)

\* The scanner needs more input, and reads what there is.
Fill(c) ==
    /\ routine[c] = "read" /\ buf[c] = <<>>
    /\ ~closed[c] /\ wire[c] # <<>>
    /\ \E n \in 1..Len(wire[c]) :
         /\ buf' = [buf EXCEPT ![c] = SubSeq(wire[c], 1, n)]
         /\ wire' = [wire EXCEPT ![c] = SubSeq(@, n + 1, Len(@))]
    /\ UNCHANGED <<hungUp, closed, routine, got, current, run, handled>>

\* The next line, which is there even if the connection has been closed.
ReadMessage(c) ==
    /\ routine[c] = "read" /\ buf[c] # <<>>
    /\ buf' = [buf EXCEPT ![c] = Tail(@)]
    /\ got' = [got EXCEPT ![c] = Head(buf[c])]
    /\ routine' = [routine EXCEPT ![c] = IF Head(buf[c]) = Bad THEN "ended" ELSE "send"]
    /\ UNCHANGED <<wire, hungUp, closed, current, run, handled>>

\* Mutant: a connection whose peer has left is given up with input unread.
ReadEndsEarly(c) ==
    /\ routine[c] = "read" /\ buf[c] = <<>>
    /\ closed[c] \/ hungUp[c]
    /\ routine' = [routine EXCEPT ![c] = "ended"]
    /\ UNCHANGED <<wire, hungUp, closed, buf, got, current, run, handled>>

\* Mutant: the goroutine goes on reading when the peer has left.
ReadEndsOnClose(c) ==
    /\ routine[c] = "read" /\ buf[c] = <<>>
    /\ closed[c]
    /\ routine' = [routine EXCEPT ![c] = "ended"]
    /\ UNCHANGED <<wire, hungUp, closed, buf, got, current, run, handled>>

\* ReadMessage returns an error: the goroutine closes its channel and ends.
ReadEnds(c) ==
    /\ routine[c] = "read" /\ buf[c] = <<>>
    /\ closed[c] \/ (hungUp[c] /\ wire[c] = <<>>)
    /\ routine' = [routine EXCEPT ![c] = "ended"]
    /\ UNCHANGED <<wire, hungUp, closed, buf, got, current, run, handled>>

-----------------------------------------------------------------------------
(* The proxy.                                                              *)

setup ==
    /\ run = "select" /\ current = 0
    /\ \E c \in Conns :
         /\ routine[c] = "none" /\ \A b \in 1..(c - 1) : routine[b] # "none"
         /\ routine' = [routine EXCEPT ![c] = "read"]
         /\ current' = c
    /\ handled' = <<>>
    /\ UNCHANGED <<wire, hungUp, closed, buf, got, run>>

\* A message is received and handled.
Receive ==
    /\ run = "select" /\ current # 0
    /\ routine[current] = "send"
    /\ handled' = Append(handled, got[current])
    /\ routine' = [routine EXCEPT ![current] = "read"]
    /\ UNCHANGED <<wire, hungUp, closed, buf, got, current, run>>

\* Mutant: the channel is not drained.
shutdownAtOnce ==
    /\ run = "select" /\ current # 0
    /\ closed' = [closed EXCEPT ![current] = TRUE]
    /\ current' = 0
    /\ handled' = <<>>
    /\ UNCHANGED <<wire, hungUp, buf, routine, got, run>>

\* shutdown, at the end of input or for any other reason: Close ...
shutdown ==
    /\ run = "select" /\ current # 0
    /\ closed' = [closed EXCEPT ![current] = TRUE]
    /\ run' = "drain"
    /\ handled' = <<>>
    /\ UNCHANGED <<wire, hungUp, buf, routine, got, current>>

EndOfInput == current # 0 /\ routine[current] = "ended" /\ shutdown

\* ... and receive until the channel is closed.
Drain ==
    /\ run = "drain"
    /\ \/ /\ routine[current] = "send"
          /\ routine' = [routine EXCEPT ![current] = "read"]
          /\ UNCHANGED <<current, run>>
       \/ /\ routine[current] = "ended"
          /\ current' = 0
          /\ run' = "select"
          /\ UNCHANGED routine
    /\ UNCHANGED <<wire, hungUp, closed, buf, got, handled>>

-----------------------------------------------------------------------------

ReaderInit ==
    /\ wire = [c \in Conns |-> <<>>] /\ buf = [c \in Conns |-> <<>>]
    /\ hungUp = [c \in Conns |-> FALSE] /\ closed = [c \in Conns |-> FALSE]
    /\ routine = [c \in Conns |-> "none"] /\ got = [c \in Conns |-> Bad]
    /\ current = 0 /\ run = "select" /\ handled = <<>>

Goroutine(c) == Fill(c) \/ ReadMessage(c) \/ ReadEnds(c)

ReaderNext ==
    \/ \E c \in Conns : \/ \E m \in Messages \cup {Bad} : PeerWrites(c, m)
                        \/ PeerLeaves(c) \/ Goroutine(c)
    \/ setup \/ Receive \/ shutdown \/ Drain

\* Goroutines are scheduled, and the proxy receives from a channel that is ready.
ReaderFairness ==
    /\ \A c \in Conns : WF_readerVars(Goroutine(c))
    /\ WF_readerVars(Drain) /\ WF_readerVars(Receive) /\ WF_readerVars(EndOfInput)

ReaderSpec == ReaderInit /\ [][ReaderNext]_readerVars /\ ReaderFairness

-----------------------------------------------------------------------------
(* Properties                                                              *)

InUse == current # 0 /\ run = "select"

\* The messages of the current connection that have not been handled: the one
\* that its goroutine is sending, those in the buffer, and those on the wire.
\* What follows a line that cannot be read is lost.
Queue ==
    IF InUse /\ routine[current] # "ended"
      THEN (IF routine[current] = "send" THEN <<got[current]>> ELSE <<>>)
             \o buf[current] \o wire[current]
      ELSE <<>>

\* Nothing more is coming.
Over == InUse /\ (hungUp[current] \/ routine[current] = "ended")

AsLink == INSTANCE Link WITH up <- InUse, queue <- Queue, over <- Over, taken <- handled

\* The select loop sees every message of the current connection in order, the
\* end of input only after all of them, and nothing of an earlier connection,
\* although buffer, channel and goroutine outlive the connection.
ImplementsLink == AsLink!LinkSpec

\* shutdown leaves no goroutine behind: "Make sure the message queue is empty,
\* otherwise we'll leak the goroutine".
NoGoroutineLeaks == \A c \in Conns : closed[c] ~> routine[c] = "ended"

\* A peer that leaves is noticed, after everything it sent: the reader and the
\* select loop never wait for each other.
LeavingIsNoticed == \A c \in Conns : current = c /\ hungUp[c] ~> current # c

=============================================================================
