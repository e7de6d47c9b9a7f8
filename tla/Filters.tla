------------------------------ MODULE Filters ------------------------------
(***************************************************************************)
(* RateLimit of irc/filters/filters.go: a goroutine that copies messages   *)
(* from src to dst, two unbuffered channels, against a ticker.  Messages   *)
(* are told apart by their number only.                                    *)
(***************************************************************************)
EXTENDS Integers

CONSTANTS
    MaxQuota,       \* parameter of RateLimit
    MaxMessages,    \* bound on the messages that src ever yields
    MaxTicks        \* bound on the ticks that are counted

ASSUME QuotaAssumption ==
    /\ MaxQuota \in Nat
    /\ MaxMessages \in Nat /\ MaxTicks \in Nat

VARIABLES
    pc,         \* "select", "send", "refill" or "returned"
    left,       \* the quota
    tick,       \* a tick is in ticker.C
    src,        \* "empty", "ready" (a sender waits) or "closed"
    dstClosed,
    taken,      \* messages taken from src
    copied,     \* messages that dst's reader has
    window,     \* history: messages copied since a moment that somebody chose
    ticks       \* history: ticks of the ticker since that moment

limitVars == <<pc, left, tick, src, dstClosed, taken, copied, window, ticks>>

\* The other parameter, initQuota, is not used.
LimitInit ==
    /\ pc = "select"
    /\ left = MaxQuota
    /\ tick = FALSE
    /\ src = "empty" /\ dstClosed = FALSE
    /\ taken = 0 /\ copied = 0 /\ window = 0 /\ ticks = 0

\* The quota at the top of the loop.
Capped(quota) == IF quota > MaxQuota THEN MaxQuota ELSE quota

\* The select's first case.
Refresh ==
    /\ pc = "select" /\ tick
    /\ tick' = FALSE
    /\ left' = Capped(left + 1)
    /\ UNCHANGED <<pc, src, dstClosed, taken, copied, window, ticks>>

\* Its second case: src yields a message, or is closed.
Take ==
    /\ pc = "select" /\ src = "ready"
    /\ src' = "empty"
    /\ taken' = taken + 1
    /\ pc' = "send"
    /\ UNCHANGED <<left, tick, dstClosed, copied, window, ticks>>

\* Mutants: the close is noticed while a message is still to be sent; dst is
\* not closed.
SourceClosedWhileSending ==
    /\ pc \in {"select", "send"} /\ src = "closed"
    /\ dstClosed' = TRUE
    /\ pc' = "returned"
    /\ UNCHANGED <<left, tick, src, taken, copied, window, ticks>>

SourceClosedOnly ==
    /\ pc = "select" /\ src = "closed"
    /\ pc' = "returned"
    /\ UNCHANGED <<left, tick, src, dstClosed, taken, copied, window, ticks>>

SourceClosed ==
    /\ pc = "select" /\ src = "closed"
    /\ dstClosed' = TRUE
    /\ pc' = "returned"
    /\ UNCHANGED <<left, tick, src, taken, copied, window, ticks>>

\* dst's reader takes the message.
Send ==
    /\ pc = "send"
    /\ copied' = copied + 1 /\ window' = window + 1
    /\ left' = left - 1
    /\ pc' = IF left - 1 = 0 THEN "refill" ELSE "select"
    /\ UNCHANGED <<tick, src, dstClosed, taken, ticks>>

\* Mutant: nothing is waited for.
RefillNow ==
    /\ pc = "refill"
    /\ left' = Capped(left + 1)
    /\ pc' = "select"
    /\ UNCHANGED <<tick, src, dstClosed, taken, copied, window, ticks>>

\* The quota is used up: the next tick is waited for.
Refill ==
    /\ pc = "refill" /\ tick
    /\ tick' = FALSE
    /\ left' = Capped(left + 1)
    /\ pc' = "select"
    /\ UNCHANGED <<src, dstClosed, taken, copied, window, ticks>>

\* The ticker's channel holds one tick; more are dropped.  None is sent after
\* RateLimit has returned and stopped the ticker.
Tick ==
    /\ pc # "returned"
    /\ ~tick \/ ticks < MaxTicks
    /\ tick' = TRUE
    /\ ticks' = IF ticks < MaxTicks THEN ticks + 1 ELSE ticks
    /\ UNCHANGED <<pc, left, src, dstClosed, taken, copied, window>>

Offer ==
    /\ src = "empty" /\ taken < MaxMessages
    /\ src' = "ready"
    /\ UNCHANGED <<pc, left, tick, dstClosed, taken, copied, window, ticks>>

CloseSource ==
    /\ src = "empty"
    /\ src' = "closed"
    /\ UNCHANGED <<pc, left, tick, dstClosed, taken, copied, window, ticks>>

\* The observer starts counting anew.
StartWindow ==
    /\ copied > 0
    /\ window' = 0 /\ ticks' = 0
    /\ UNCHANGED <<pc, left, tick, src, dstClosed, taken, copied>>

LimitNext ==
    \/ Refresh \/ Take \/ SourceClosed \/ Send \/ Refill
    \/ Tick \/ Offer \/ CloseSource \/ StartWindow

\* The goroutine runs, dst has a reader, and the ticker ticks.
LimitFairness ==
    /\ WF_limitVars(Refresh \/ Take \/ SourceClosed \/ Send \/ Refill)
    /\ SF_limitVars(Take \/ SourceClosed)
    /\ WF_limitVars(~tick /\ Tick)

LimitSpec == LimitInit /\ [][LimitNext]_limitVars /\ LimitFairness

-----------------------------------------------------------------------------
(* Properties                                                              *)

\* In any period, however many messages come: no more than MaxQuota of them and
\* one for every tick, and one for a tick that was waiting, are copied, if
\* MaxQuota is not 0.
RateBounded == MaxQuota > 0 /\ ticks < MaxTicks => window <= MaxQuota + ticks + 1

\* Nothing is lost, and dst is closed only after all of src has been copied.
ClosedWhenCopied ==
    /\ copied <= taken
    /\ dstClosed => src = "closed" /\ copied = taken

\* "When src is closed, RateLimit will close dst and then return."
ClosesInTheEnd == src = "closed" ~> dstClosed

=============================================================================
