----------------------------- MODULE Keepalive -----------------------------
(***************************************************************************)
(* The keepalive of one connection in time (proxy/proxy.go: Run's ticker,  *)
(* checkTimeout, updateDeadlines).  Time is counted in units of which      *)
(* pingTime has T; durations, not dates, are the state.  Both deadlines    *)
(* are set to T after the moment they are set at, so "age" stands for      *)
(* whichever of them PingSent selects.                                     *)
(*                                                                         *)
(* Run takes what is ready in any order, each within Stall units: so long  *)
(* may handlers and their writes keep it busy.  The peer answers a PING    *)
(* within Delay units, until it falls silent.                              *)
(***************************************************************************)
EXTENDS Integers

CONSTANTS
    T,          \* pingTime
    Delay,      \* how long a peer takes to answer a PING
    Stall,      \* how long Run leaves something that is ready
    MaxUnread   \* bound on the messages that wait to be read

ASSUME TimeAssumption ==
    /\ T \in Nat /\ Delay \in Nat /\ Stall \in Nat
    /\ MaxUnread \in Nat \ {0}
    /\ Delay + Stall < T

VARIABLES
    conn,       \* "open"; closed because it was "dropped" or a write "failed"
    PingSent,   \* connection.PingSent
    age,        \* time since the deadline that PingSent selects was set
    phase,      \* time since the ticker fired
    ticked,     \* a tick is in ticker.C
    unread,     \* messages from the peer that wait to be read
    wait,       \* how long the first of them has been waiting
    answers,    \* the peer answers PINGs
    asked,      \* time since the PING that it has yet to answer, or -1
    quiet       \* history: time since Run read a message

time == <<age, phase, wait, asked, quiet>>
keepaliveVars == <<conn, PingSent, ticked, unread, answers, time>>

\* setup: the ticker has been running all along, a tick may be waiting.
KeepaliveInit ==
    /\ conn = "open"
    /\ PingSent = FALSE /\ age = 0
    /\ phase \in 0..T - 1 /\ ticked \in {t \in BOOLEAN : t => phase <= Stall}
    /\ unread = 0 /\ wait = 0
    /\ answers = TRUE /\ asked = -1
    /\ quiet = 0

-----------------------------------------------------------------------------

\* Whether now.After(deadline).  The deadline was set a little after the event
\* that caused it, so a deadline that is exactly T old may or may not have passed.
After(late) == age > T \/ (late /\ age = T)

\* Mutant: DropDeadline stays what it was.
pingedOldDeadline ==
    /\ PingSent' = TRUE
    /\ age' = age

\* Mutant: PingSent is not set.
pingedUnmarked ==
    /\ PingSent' = FALSE
    /\ age' = 0

\* A PING was written.
pinged ==
    /\ PingSent' = TRUE
    /\ age' = 0

\* The peer that answers sees a PING; an earlier one is answered with it.
Asked == asked' = IF answers /\ asked = -1 THEN 0 ELSE asked

\* The ticker's case of Run: nothing is due; or the connection is dropped; or
\* a PING is sent, which a peer that is gone may make fail.
checkTimeout(late) ==
    /\ conn = "open" /\ ticked
    /\ ticked' = FALSE
    /\ \/ ~After(late) /\ UNCHANGED <<conn, PingSent, time>>
       \/ /\ After(late) /\ PingSent
          /\ conn' = "dropped"
          /\ UNCHANGED <<PingSent, time>>
       \/ /\ After(late) /\ ~PingSent
          /\ pinged
          /\ Asked
          /\ UNCHANGED <<conn, phase, wait, quiet>>
       \/ /\ After(late) /\ ~PingSent
          /\ ~answers
          /\ conn' = "failed"
          /\ UNCHANGED <<PingSent, time>>
    /\ UNCHANGED <<unread, answers>>

\* A message is read: updateDeadlines.  The next one has not waited longer.
updateDeadlines ==
    /\ conn = "open" /\ unread > 0
    /\ PingSent' = FALSE /\ age' = 0 /\ quiet' = 0
    /\ unread' = unread - 1
    /\ wait' \in IF unread = 1 THEN {0} ELSE 0..wait
    /\ UNCHANGED <<conn, ticked, answers, phase, asked>>

-----------------------------------------------------------------------------
(* The peer, and time.                                                     *)

\* A message is sent: the answer that is due, or another one.
PeerSends ==
    /\ conn = "open" /\ unread < MaxUnread
    /\ unread' = unread + 1
    /\ asked' \in {asked, -1}
    /\ UNCHANGED <<conn, PingSent, ticked, answers, age, phase, wait, quiet>>

\* From now on the peer answers no PING.
PeerFallsSilent ==
    /\ answers
    /\ answers' = FALSE /\ asked' = -1
    /\ UNCHANGED <<conn, PingSent, ticked, unread, age, phase, wait, quiet>>

\* Nothing may be left for longer than it can be; the ticker fires every T, and
\* its channel holds one tick.
Pass ==
    /\ conn = "open"
    /\ ticked => phase < Stall
    /\ unread > 0 => wait < Stall
    /\ asked < Delay
    /\ age' = age + 1 /\ quiet' = quiet + 1
    /\ phase' = IF phase + 1 = T THEN 0 ELSE phase + 1
    /\ ticked' = (ticked \/ phase + 1 = T)
    /\ wait' = IF unread > 0 THEN wait + 1 ELSE wait
    /\ asked' = IF asked >= 0 THEN asked + 1 ELSE asked
    /\ UNCHANGED <<conn, PingSent, unread, answers>>

KeepaliveNext ==
    \/ \E late \in BOOLEAN : checkTimeout(late)
    \/ updateDeadlines \/ PeerSends \/ PeerFallsSilent \/ Pass

KeepaliveSpec == KeepaliveInit /\ [][KeepaliveNext]_keepaliveVars

-----------------------------------------------------------------------------
(* Properties                                                              *)

\* A peer that answers PINGs is never dropped, whatever else Run is doing, if
\* its answer and Run's delay fit into pingTime.
AnswererKept == conn = "dropped" => ~answers

\* A peer that has not been heard of for four pingTimes and a stall is gone: up
\* to two until the PING, up to two until the ticker sees its deadline pass.
SilenceEnds == conn = "open" => quiet <= 4 * T + Stall

=============================================================================
