------------------------------ MODULE PingPong ------------------------------
(***************************************************************************)
(* AutoPing and AutoPong of irc/filters/filters.go: two goroutines, joined *)
(* by unbuffered channels as in TestAutoPingPong.  AutoPing's PINGs go to  *)
(* AutoPong, whose PONGs come back to AutoPing; others send messages to    *)
(* both as well.  A send and its receive are one step, enabled when both   *)
(* goroutines have got there; the readers of "forward" are always there,   *)
(* eventually.                                                             *)
(***************************************************************************)
EXTENDS Naturals

VARIABLES
    ping,       \* where AutoPing is
    pong,       \* where AutoPong is
    pingSent,   \* AutoPing's variable
    timer,      \* "armed", "fired" (in timer.C) or "drained"
    canceled,   \* ctx is done
    timedOut,   \* AutoPing has called disconnect
    listening,  \* AutoPong's side of the line is up
    quick       \* pingTime is longer than everything the goroutines do: if so,
                \* the timer fires only when they have done it

pingPongVars == <<ping, pong, pingSent, timer, canceled, timedOut, listening, quick>>

PingPoints == {"select", "drain", "forward", "reply", "returned"}
PongPoints == {"select", "forward", "reply", "returned"}

PingPongInit ==
    /\ ping = "select" /\ pong = "select"
    /\ pingSent = FALSE
    /\ timer = "armed"
    /\ canceled = FALSE /\ timedOut = FALSE
    /\ listening = TRUE
    /\ quick \in BOOLEAN

-----------------------------------------------------------------------------
(* AutoPing.                                                               *)

\* What follows when m was taken from "in" and the timer is no longer running.
Restarted(m) ==
    /\ timer' = "armed"
    /\ pingSent' = FALSE
    /\ ping' = IF m = "PONG" THEN "select" ELSE "forward"

\* A message is received.  If the timer could not be stopped, because it has
\* fired, its channel is drained; a PONG is not forwarded.
Incoming(m) ==
    /\ ping = "select"
    /\ IF timer = "armed"
         THEN Restarted(m)
         ELSE ping' = "drain" /\ UNCHANGED <<timer, pingSent>>

DrainTimer ==
    /\ ping = "drain"
    /\ timer = "fired"
    /\ \E m \in {"PONG", "OTHER"} : Restarted(m)
    /\ UNCHANGED <<pong, canceled, timedOut, listening, quick>>

\* Mutant: PingSent is not looked at.
ExpiryIgnoresPing ==
    /\ ping = "select"
    /\ timer = "fired"
    /\ timer' = "drained"
    /\ ping' = "returned" /\ canceled' = TRUE /\ timedOut' = TRUE
    /\ UNCHANGED <<pong, pingSent, listening, quick>>

\* The timer's case: a PING is due, or the peer has not answered the last one.
Expiry ==
    /\ ping = "select"
    /\ timer = "fired"
    /\ timer' = "drained"
    /\ IF pingSent
         THEN ping' = "returned" /\ canceled' = TRUE /\ timedOut' = TRUE
         ELSE ping' = "reply" /\ UNCHANGED <<canceled, timedOut>>
    /\ UNCHANGED <<pong, pingSent, listening, quick>>

\* Mutant: the timer is not started again.
PingedOnce ==
    /\ ping = "reply"
    /\ pingSent' = TRUE
    /\ ping' = "select"
    /\ UNCHANGED timer

\* The PING was taken.
Pinged ==
    /\ ping = "reply"
    /\ timer' = "armed"
    /\ pingSent' = TRUE
    /\ ping' = "select"

Forwarded ==
    /\ ping = "forward"
    /\ ping' = "select"
    /\ UNCHANGED <<pong, pingSent, timer, canceled, timedOut, listening, quick>>

\* Mutant: AutoPing does not look at ctx while it sends.
PingReturnsAtSelect ==
    /\ canceled
    /\ ping = "select"
    /\ ping' = "returned"
    /\ UNCHANGED <<pong, pingSent, timer, canceled, timedOut, listening, quick>>

\* ctx.Done() is ready in every select; the drain is not a select.
PingReturns ==
    /\ canceled
    /\ ping \in {"select", "forward", "reply"}
    /\ ping' = "returned"
    /\ UNCHANGED <<pong, pingSent, timer, canceled, timedOut, listening, quick>>

-----------------------------------------------------------------------------
(* AutoPong.                                                               *)

\* AutoPing's PING reaches AutoPong, or is lost with the line.
PingTaken ==
    /\ Pinged
    /\ \/ listening /\ pong = "select" /\ pong' = "reply"
       \/ ~listening /\ UNCHANGED pong
    /\ UNCHANGED <<canceled, timedOut, listening, quick>>

\* AutoPong answers.
PongTaken ==
    /\ pong = "reply" /\ listening
    /\ Incoming("PONG")
    /\ pong' = "select"
    /\ UNCHANGED <<canceled, timedOut, listening, quick>>

PongForwarded ==
    /\ pong = "forward"
    /\ pong' = "select"
    /\ UNCHANGED <<ping, pingSent, timer, canceled, timedOut, listening, quick>>

PongReturns ==
    /\ canceled
    /\ pong # "returned"
    /\ pong' = "returned"
    /\ UNCHANGED <<ping, pingSent, timer, canceled, timedOut, listening, quick>>

-----------------------------------------------------------------------------
(* The timer, and everybody else.                                          *)

\* Whether nothing is left to do until the timer fires.
Idle == ping = "select" /\ (listening => pong = "select")

TimerFires ==
    /\ timer = "armed"
    /\ quick => Idle
    /\ timer' = "fired"
    /\ UNCHANGED <<ping, pong, pingSent, canceled, timedOut, listening, quick>>

\* Somebody else sends to AutoPing, or to AutoPong.
OtherToPing ==
    /\ Incoming("OTHER")
    /\ UNCHANGED <<pong, canceled, timedOut, listening, quick>>

OtherToPong ==
    /\ pong = "select"
    /\ pong' = "forward"
    /\ UNCHANGED <<ping, pingSent, timer, canceled, timedOut, listening, quick>>

LineBreaks ==
    /\ listening
    /\ listening' = FALSE
    /\ UNCHANGED <<ping, pong, pingSent, timer, canceled, timedOut, quick>>

Cancel ==
    /\ ~canceled
    /\ canceled' = TRUE
    /\ UNCHANGED <<ping, pong, pingSent, timer, timedOut, listening, quick>>

\* What the goroutines and the readers of "forward" do by themselves.
PingStep == DrainTimer \/ Expiry \/ Forwarded \/ PingTaken
PongStep == PongTaken \/ PongForwarded

PingPongNext ==
    \/ PingStep \/ PongStep \/ PingReturns \/ PongReturns
    \/ TimerFires \/ OtherToPing \/ OtherToPong \/ LineBreaks \/ Cancel

\* Every goroutine runs on, and of the ready cases of a select each is taken in
\* the end; the timer fires.
PingPongFairness ==
    /\ WF_pingPongVars(PingStep) /\ WF_pingPongVars(PongStep)
    /\ SF_pingPongVars(PingReturns) /\ SF_pingPongVars(PongReturns)
    /\ WF_pingPongVars(TimerFires)

PingPongSpec == PingPongInit /\ [][PingPongNext]_pingPongVars /\ PingPongFairness

-----------------------------------------------------------------------------
(* Properties                                                              *)

\* AutoPing never waits for a timer that is not running, neither in its select
\* nor when it drains timer.C, which nothing can interrupt.
TimerRuns ==
    /\ ping = "drain" => timer = "fired"
    /\ ping = "select" => timer \in {"armed", "fired"}

\* A peer that answers is not disconnected, if pingTime leaves it the time.
PongPreventsTimeout == quick /\ timedOut => ~listening

\* A canceled context ends both goroutines, wherever they are.
CancelEndsBoth == canceled ~> ping = "returned" /\ pong = "returned"

=============================================================================
