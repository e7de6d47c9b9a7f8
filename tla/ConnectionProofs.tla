-------------------------- MODULE ConnectionProofs -------------------------
(***************************************************************************)
(* Theorems about a connection of the proxy.  Keepalive: a peer that       *)
(* answers PINGs in time is never dropped, and a silent one is gone after  *)
(* four pingTimes and a stall, for every pingTime, delay and stall with    *)
(* Delay + Stall < T.  Reader: buffer, goroutine and channel implement     *)
(* module Link, for any number of messages and connections.                *)
(***************************************************************************)
EXTENDS Reader, Keepalive, SequenceTheorems, TLAPS

-----------------------------------------------------------------------------
(* A peer that answers.                                                    *)

\* What the clocks are, and what bounds them: Pass lets no time go by while
\* something has been left for as long as it can be.
ClocksOK ==
    /\ conn \in {"open", "dropped", "failed"}
    /\ PingSent \in BOOLEAN /\ ticked \in BOOLEAN /\ answers \in BOOLEAN
    /\ age \in Nat /\ phase \in Nat
    /\ unread \in Nat
    /\ wait \in 0..Stall
    /\ asked \in -1..Delay

\* While a PING is out, the answer is either due, and the PING is not older than
\* the time the peer has had, or it is waiting to be read.
AnswerOnItsWay ==
    PingSent /\ answers =>
        \/ asked >= 0 /\ age <= asked
        \/ unread > 0 /\ age <= Delay + wait

KInv == ClocksOK /\ AnswerOnItsWay /\ AnswererKept

-----------------------------------------------------------------------------

LEMMA KInvInit == KeepaliveInit => KInv
<1> SUFFICES ASSUME KeepaliveInit
             PROVE  KInv
  OBVIOUS
<1>1. ClocksOK
  <2>1. ticked \in BOOLEAN /\ PingSent \in BOOLEAN /\ answers \in BOOLEAN
    BY Zenon DEF KeepaliveInit
  <2>2. age \in Nat /\ phase \in Nat /\ unread \in Nat /\ wait \in 0..Stall
    BY TimeAssumption DEF TimeAssumption, KeepaliveInit
  <2>3. conn \in {"open", "dropped", "failed"} /\ asked \in -1..Delay
    BY TimeAssumption DEF TimeAssumption, KeepaliveInit
  <2> QED  BY <2>1, <2>2, <2>3 DEF ClocksOK
<1>2. AnswerOnItsWay /\ AnswererKept
  BY DEF KeepaliveInit, AnswerOnItsWay, AnswererKept
<1> QED  BY <1>1, <1>2 DEF KInv

\* By the time DropDeadline has passed, a peer that answers has been heard, so
\* the connection that is dropped is another one's.
LEMMA KInvCheckTimeout ==
  ASSUME KInv, NEW late \in BOOLEAN, checkTimeout(late)
  PROVE  KInv'
<1> USE TimeAssumption DEF TimeAssumption, KInv, ClocksOK, AnswerOnItsWay, AnswererKept
<1>1. CASE ~After(late) /\ UNCHANGED <<conn, PingSent, time>>
  BY <1>1 DEF checkTimeout, time
<1>2. CASE After(late) /\ PingSent /\ conn' = "dropped" /\ UNCHANGED <<PingSent, time>>
  <2>1. age >= T
    BY <1>2 DEF After
  <2>2. ~answers
    BY <1>2, <2>1
  <2> QED  BY <1>2, <2>2 DEF checkTimeout, time
<1>3. CASE After(late) /\ ~PingSent /\ pinged /\ Asked /\ UNCHANGED <<conn, phase, wait, quiet>>
  <2>1. PingSent' \in BOOLEAN /\ ticked' \in BOOLEAN /\ answers' \in BOOLEAN
    BY <1>3, Zenon DEF checkTimeout, pinged
  <2>2. asked' \in -1..Delay /\ (answers => asked' >= 0)
    BY <1>3 DEF Asked
  <2>3. AnswerOnItsWay'
    BY <1>3, <2>2 DEF checkTimeout, pinged
  <2> QED  BY <1>3, <2>1, <2>2, <2>3 DEF checkTimeout, pinged
<1>4. CASE After(late) /\ ~PingSent /\ ~answers /\ conn' = "failed"
             /\ UNCHANGED <<PingSent, time>>
  BY <1>4 DEF checkTimeout, time
<1> QED  BY <1>1, <1>2, <1>3, <1>4 DEF checkTimeout

LEMMA KInvStep == KInv /\ [KeepaliveNext]_keepaliveVars => KInv'
<1> SUFFICES ASSUME KInv, [KeepaliveNext]_keepaliveVars
             PROVE  KInv'
  OBVIOUS
<1>1. ASSUME NEW late \in BOOLEAN, checkTimeout(late)
      PROVE  KInv'
  BY <1>1, KInvCheckTimeout
<1> USE TimeAssumption DEF TimeAssumption, KInv, ClocksOK, AnswerOnItsWay, AnswererKept
<1>2. CASE updateDeadlines
  <2>1. wait' \in 0..Stall
    BY <1>2 DEF updateDeadlines
  <2>2. PingSent' \in BOOLEAN /\ ticked' \in BOOLEAN /\ answers' \in BOOLEAN
    BY <1>2, Zenon DEF updateDeadlines
  <2>3. AnswerOnItsWay' /\ AnswererKept'
    BY <1>2 DEF updateDeadlines
  <2>4. age' \in Nat /\ unread' \in Nat /\ UNCHANGED <<conn, phase, asked>>
    BY <1>2 DEF updateDeadlines
  <2> QED  BY <2>1, <2>2, <2>3, <2>4
<1>3. CASE PeerSends
  BY <1>3 DEF PeerSends
<1>4. CASE PeerFallsSilent
  <2>1. PingSent' \in BOOLEAN /\ ticked' \in BOOLEAN /\ answers' \in BOOLEAN
    BY <1>4, Zenon DEF PeerFallsSilent
  <2>2. asked' \in -1..Delay /\ UNCHANGED <<conn, age, phase, unread, wait>>
    BY <1>4 DEF PeerFallsSilent
  <2>3. AnswerOnItsWay' /\ AnswererKept'
    BY <1>4 DEF PeerFallsSilent
  <2> QED  BY <2>1, <2>2, <2>3
<1>5. CASE Pass
  <2>1. wait' \in 0..Stall /\ asked' \in -1..Delay
    BY <1>5 DEF Pass
  <2>2. phase' \in Nat
    BY <1>5 DEF Pass
  <2>3. AnswerOnItsWay'
    BY <1>5 DEF Pass
  <2> QED  BY <1>5, <2>1, <2>2, <2>3 DEF Pass
<1>6. CASE UNCHANGED keepaliveVars
  BY <1>6 DEF keepaliveVars, time
<1> QED  BY <1>1, <1>2, <1>3, <1>4, <1>5, <1>6 DEF KeepaliveNext

\* checkTimeout never drops a peer that answers PINGs within Delay, although it
\* may run before the answer that is already waiting to be read.
THEOREM AnswererIsKept == KeepaliveSpec => []AnswererKept
<1>1. KInv => AnswererKept
  BY DEF KInv
<1> QED  BY <1>1, KInvInit, KInvStep, PTL DEF KeepaliveSpec

-----------------------------------------------------------------------------
(* The end of a silence.                                                   *)

\* The ticker fires every T, and its tick does not wait for longer than Stall.
TickerOK ==
    /\ phase \in 0..T - 1
    /\ ticked => phase <= Stall
    /\ quiet \in Nat

\* Until the PING, Run has checked that no more than T had passed at the last
\* tick it took.
BeforePing ==
    /\ quiet = age
    /\ IF ticked THEN age <= 2 * T + phase ELSE age <= T + phase

\* After it, DropDeadline passes before the ticker has fired twice.
AfterPing ==
    IF ticked
      THEN \/ quiet <= 3 * T + phase /\ age >= T + phase - Stall
           \/ quiet <= 4 * T + phase /\ age >= 2 * T + phase - Stall
      ELSE \/ quiet <= 2 * T + phase /\ age >= phase - Stall
           \/ quiet <= 3 * T + phase /\ age >= T + phase - Stall

SilenceInv ==
    /\ TickerOK
    /\ conn = "open" => IF PingSent THEN AfterPing ELSE BeforePing

LEMMA SilenceInit == KeepaliveInit => SilenceInv
<1> SUFFICES ASSUME KeepaliveInit
             PROVE  SilenceInv
  OBVIOUS
<1>1. TickerOK
  BY DEF KeepaliveInit, TickerOK
<1>2. BeforePing /\ ~PingSent
  BY TimeAssumption DEF KeepaliveInit, BeforePing, TimeAssumption
<1> QED  BY <1>1, <1>2 DEF SilenceInv

\* A tick that finds no deadline passed is not older than the deadline.
LEMMA SilenceCheckTimeout ==
  ASSUME KInv, SilenceInv, NEW late \in BOOLEAN, checkTimeout(late)
  PROVE  SilenceInv'
<1> USE TimeAssumption DEF TimeAssumption
<1>0. /\ age \in Nat /\ phase \in 0..T - 1 /\ phase <= Stall /\ quiet \in Nat
      /\ ticked /\ conn = "open" /\ ~ticked' /\ UNCHANGED <<phase, quiet>>
  BY DEF KInv, ClocksOK, SilenceInv, TickerOK, checkTimeout, time
<1>1. TickerOK'
  BY <1>0 DEF TickerOK
<1>2. CASE ~After(late) /\ UNCHANGED <<conn, PingSent, time>>
  <2>1. age <= T
    BY <1>0, <1>2 DEF After
  <2>2. CASE PingSent
    BY <1>0, <1>1, <1>2, <2>1, <2>2 DEF SilenceInv, AfterPing, time
  <2>3. CASE ~PingSent
    BY <1>0, <1>1, <1>2, <2>1, <2>3 DEF SilenceInv, BeforePing, time
  <2> QED  BY <2>2, <2>3
<1>3. CASE conn' # "open"
  BY <1>1, <1>3 DEF SilenceInv
<1>4. CASE After(late) /\ ~PingSent /\ pinged
  BY <1>0, <1>1, <1>4 DEF SilenceInv, BeforePing, AfterPing, pinged
<1> QED  BY <1>2, <1>3, <1>4 DEF checkTimeout

LEMMA SilenceStep ==
  ASSUME KInv, SilenceInv, [KeepaliveNext]_keepaliveVars
  PROVE  SilenceInv'
<1> USE TimeAssumption DEF TimeAssumption
<1>0. /\ age \in Nat /\ phase \in 0..T - 1 /\ quiet \in Nat
      /\ PingSent \in BOOLEAN /\ ticked \in BOOLEAN
  BY DEF KInv, ClocksOK, SilenceInv, TickerOK
<1>1. ASSUME NEW late \in BOOLEAN, checkTimeout(late)
      PROVE  SilenceInv'
  BY <1>1, SilenceCheckTimeout
<1>2. CASE updateDeadlines
  BY <1>0, <1>2 DEF updateDeadlines, SilenceInv, TickerOK, BeforePing
<1>3. CASE PeerSends \/ PeerFallsSilent \/ UNCHANGED keepaliveVars
  <2>1. UNCHANGED <<conn, PingSent, ticked, age, phase, quiet>>
    BY <1>3 DEF PeerSends, PeerFallsSilent, keepaliveVars, time
  <2> QED  BY <2>1 DEF SilenceInv, TickerOK, BeforePing, AfterPing
<1>4. CASE Pass
  <2>1. /\ conn = "open" /\ age' = age + 1 /\ quiet' = quiet + 1
        /\ UNCHANGED <<conn, PingSent>>
    BY <1>4 DEF Pass
  <2>2. CASE phase + 1 = T
    <3>1. ~ticked /\ ticked' /\ phase' = 0
      <4>1. ~(phase < Stall) /\ phase' = 0
        BY <1>0, <1>4, <2>2 DEF Pass
      <4>2. ~ticked /\ ticked'
        BY <1>4, <2>2, <4>1, Zenon DEF Pass
      <4> QED  BY <4>1, <4>2
    <3>2. TickerOK'
      BY <1>0, <2>1, <3>1 DEF TickerOK
    <3>3. CASE PingSent
      BY <1>0, <2>1, <2>2, <3>1, <3>2, <3>3 DEF SilenceInv, AfterPing
    <3>4. CASE ~PingSent
      BY <1>0, <2>1, <2>2, <3>1, <3>2, <3>4 DEF SilenceInv, BeforePing
    <3> QED  BY <3>3, <3>4
  <2>3. CASE phase + 1 # T
    <3>1. phase' = phase + 1 /\ (ticked' <=> ticked) /\ (ticked => phase < Stall)
      BY <1>0, <1>4, <2>3 DEF Pass
    <3>2. TickerOK'
      BY <1>0, <2>1, <2>3, <3>1 DEF TickerOK
    <3>3. CASE PingSent
      BY <1>0, <2>1, <3>1, <3>2, <3>3 DEF SilenceInv, AfterPing
    <3>4. CASE ~PingSent
      BY <1>0, <2>1, <3>1, <3>2, <3>4 DEF SilenceInv, BeforePing
    <3> QED  BY <3>3, <3>4
  <2> QED  BY <2>2, <2>3
<1> QED  BY <1>1, <1>2, <1>3, <1>4 DEF KeepaliveNext

\* Run's ticker ends a connection whose peer is silent, whatever the phase of
\* the ticker is and however late Run takes a tick: four pingTimes and a stall
\* suffice.
THEOREM SilenceIsEnded == KeepaliveSpec => []SilenceEnds
<1>1. KInv /\ SilenceInv => SilenceEnds
  <2> SUFFICES ASSUME KInv, SilenceInv, conn = "open"
               PROVE  quiet <= 4 * T + Stall
    BY DEF SilenceEnds
  <2>1. age \in Nat /\ phase \in 0..T - 1 /\ quiet \in Nat /\ (ticked => phase <= Stall)
    BY DEF KInv, ClocksOK, SilenceInv, TickerOK
  <2>2. CASE PingSent
    BY <2>1, <2>2, TimeAssumption DEF TimeAssumption, SilenceInv, AfterPing
  <2>3. CASE ~PingSent
    BY <2>1, <2>3, TimeAssumption DEF TimeAssumption, SilenceInv, BeforePing
  <2> QED  BY <2>2, <2>3
<1>2. KInv /\ SilenceInv /\ [KeepaliveNext]_keepaliveVars => SilenceInv'
  BY SilenceStep
<1> QED  BY <1>1, <1>2, KInvInit, KInvStep, SilenceInit, PTL DEF KeepaliveSpec

-----------------------------------------------------------------------------
(* The connection that the select loop sees.                               *)

Lines == Messages \cup {Bad}

\* What the buffers, goroutines and connections are.
ReaderTypeOK ==
    /\ wire \in [Conns -> Seq(Lines)] /\ buf \in [Conns -> Seq(Lines)]
    /\ hungUp \in [Conns -> BOOLEAN] /\ closed \in [Conns -> BOOLEAN]
    /\ routine \in [Conns -> {"none", "read", "send", "ended"}]
    /\ got \in [Conns -> Lines]
    /\ current \in Conns \cup {0}
    /\ run \in {"select", "drain"}

\* A connection that was not set up is empty, one in use has a goroutine and has
\* not been closed, and only lines that could be read are sent on.
GoroutinesOK ==
    /\ \A c \in Conns : /\ routine[c] = "none" => wire[c] = <<>> /\ buf[c] = <<>> /\ ~hungUp[c]
                                             /\ ~closed[c]
                        /\ routine[c] = "send" => got[c] # Bad
    /\ current # 0 => routine[current] # "none"
    /\ InUse => ~closed[current]
    /\ ~InUse => handled = <<>>

ReaderInv == ReaderTypeOK /\ GoroutinesOK

-----------------------------------------------------------------------------
(* Sequences.                                                              *)

LEMMA HeadAndTail ==
    ASSUME NEW S, NEW b \in Seq(S), b # <<>>
    PROVE  <<Head(b)>> \o Tail(b) = b
  <1>1. Len(b) \in Nat /\ 1 \in 1..Len(b) /\ Len(b) \in 1..Len(b)
    BY EmptySeq
  <1>2. SubSeq(b, 1, Len(b)) = <<b[1]>> \o SubSeq(b, 1 + 1, Len(b))
    BY <1>1, SubSeqRecursiveFirst
  <1>3. Tail(b) = SubSeq(b, 2, Len(b)) /\ Head(b) = b[1]
    BY TailIsSubSeq
  <1> QED BY <1>2, <1>3, SubSeqFull

\* Reading some of what is on the wire.
LEMMA TakeSome ==
    ASSUME NEW S, NEW w \in Seq(S), NEW n \in 1..Len(w)
    PROVE  /\ SubSeq(w, 1, n) \in Seq(S) /\ SubSeq(w, n + 1, Len(w)) \in Seq(S)
           /\ SubSeq(w, 1, n) \o SubSeq(w, n + 1, Len(w)) = w
  <1>1. Len(w) \in Nat /\ n \in Nat /\ n <= Len(w)
    BY LenProperties
  <1>2. SubSeq(w, 1, n) \in Seq(S) /\ SubSeq(w, n + 1, Len(w)) \in Seq(S)
    BY <1>1
  <1>3. 1 \in 1..Len(w) + 1 /\ n \in 1 - 1..Len(w) /\ Len(w) \in n..Len(w)
    BY <1>1
  <1> QED BY <1>2, <1>3, ConcatAdjacentSubSeq, SubSeqFull

\* A message before, and one after, the buffer and the wire.
LEMMA Before ==
    ASSUME NEW S, NEW m \in S, NEW b \in Seq(S), NEW w \in Seq(S)
    PROVE  /\ <<m>> \o b \o w # <<>>
           /\ Head(<<m>> \o b \o w) = m
           /\ Tail(<<m>> \o b \o w) = b \o w
  <1>1. <<m>> \in Seq(S) /\ Len(<<m>>) = 1
    OBVIOUS
  <1> DEFINE r == b \o w
  <1>2. r \in Seq(S) /\ <<m>> \o b \o w = <<m>> \o r
    BY <1>1, ConcatAssociative, ConcatProperties
  <1> HIDE DEF r
  <1>3. /\ <<m>> \o r \in Seq(S) /\ Len(<<m>> \o r) = Len(r) + 1
        /\ Len(r) \in Nat
        /\ \A j \in 1..Len(r) + 1 : (<<m>> \o r)[j] = IF j <= 1 THEN m ELSE r[j - 1]
    BY <1>1, <1>2, ConcatProperties, LenProperties
  <1>4. <<m>> \o r # <<>> /\ Head(<<m>> \o r) = m
    BY <1>3, EmptySeq
  <1>5. /\ Tail(<<m>> \o r) \in Seq(S) /\ Len(Tail(<<m>> \o r)) = Len(r)
        /\ \A j \in 1..Len(r) : Tail(<<m>> \o r)[j] = (<<m>> \o r)[j + 1]
    BY <1>3, <1>4, HeadTailProperties
  <1>6. \A j \in 1..Len(r) : Tail(<<m>> \o r)[j] = r[j]
    BY <1>3, <1>5
  <1>7. Tail(<<m>> \o r) = r
    BY <1>2, <1>3, <1>5, <1>6, SeqEqual
  <1> QED BY <1>2, <1>4, <1>7 DEF r

LEMMA Behind ==
    ASSUME NEW S, NEW m \in S, NEW b \in Seq(S), NEW w \in Seq(S)
    PROVE  b \o Append(w, m) = Append(b \o w, m)
  <1>1. <<m>> \in Seq(S)
    OBVIOUS
  <1> QED BY <1>1, AppendIsConcat, ConcatAssociative, ConcatProperties

-----------------------------------------------------------------------------

LEMMA ReaderInvInit == ReaderInit => ReaderInv
  <1> SUFFICES ASSUME ReaderInit PROVE ReaderInv
    OBVIOUS
  <1>1. <<>> \in Seq(Lines) /\ Bad \in Lines
    BY DEF Lines
  <1>2. ReaderTypeOK
    BY <1>1 DEF ReaderInit, ReaderTypeOK
  <1>3. GoroutinesOK
    BY DEF ReaderInit, GoroutinesOK, InUse
  <1> QED BY <1>2, <1>3 DEF ReaderInv

\* 0 is no connection.
LEMMA NoConnection == 0 \notin Conns
  BY DEF Conns

\* Every step keeps the types.
LEMMA ReaderTypes ==
    ASSUME ReaderInv, [ReaderNext]_readerVars
    PROVE  ReaderTypeOK'
  <1> USE DEF ReaderInv, ReaderTypeOK
  <1>1. ASSUME NEW c \in Conns, NEW m \in Lines, PeerWrites(c, m)
        PROVE  ReaderTypeOK'
    <2>1. Append(wire[c], m) \in Seq(Lines)
      BY <1>1, AppendProperties
    <2> QED BY <1>1, <2>1 DEF PeerWrites
  <1>2. ASSUME NEW c \in Conns, PeerLeaves(c) \/ ReadEnds(c)
        PROVE  ReaderTypeOK'
    BY <1>2 DEF PeerLeaves, ReadEnds
  <1>3. ASSUME NEW c \in Conns, Fill(c)
        PROVE  ReaderTypeOK'
    <2>1. PICK n \in 1..Len(wire[c]) :
             /\ buf' = [buf EXCEPT ![c] = SubSeq(wire[c], 1, n)]
             /\ wire' = [wire EXCEPT ![c] = SubSeq(@, n + 1, Len(@))]
      BY <1>3 DEF Fill
    <2>2. wire[c] \in Seq(Lines)
      OBVIOUS
    <2>3. /\ SubSeq(wire[c], 1, n) \in Seq(Lines)
          /\ SubSeq(wire[c], n + 1, Len(wire[c])) \in Seq(Lines)
      BY <2>2, TakeSome
    <2> QED BY <1>3, <2>1, <2>3 DEF Fill
  <1>4. ASSUME NEW c \in Conns, ReadMessage(c)
        PROVE  ReaderTypeOK'
    <2>1. Head(buf[c]) \in Lines /\ Tail(buf[c]) \in Seq(Lines)
      BY <1>4, HeadTailProperties DEF ReadMessage
    <2> QED BY <1>4, <2>1 DEF ReadMessage
  <1>5. CASE setup \/ Receive \/ shutdown \/ Drain
    BY <1>5 DEF setup, Receive, shutdown, Drain
  <1>6. CASE UNCHANGED readerVars
    BY <1>6 DEF readerVars
  <1> QED BY <1>1, <1>2, <1>3, <1>4, <1>5, <1>6 DEF ReaderNext, Goroutine, Lines

\* A step of one connection leaves the others, and what the proxy knows, alone.
LEMMA ReaderOthers ==
    ASSUME ReaderInv, NEW c \in Conns,
           \/ \E m \in Lines : PeerWrites(c, m)
           \/ PeerLeaves(c) \/ Goroutine(c)
    PROVE  /\ UNCHANGED <<closed, current, run, handled>>
           /\ \A d \in Conns : d # c => /\ wire'[d] = wire[d] /\ buf'[d] = buf[d]
                                        /\ hungUp'[d] = hungUp[d] /\ routine'[d] = routine[d]
                                        /\ got'[d] = got[d]
           /\ routine[c] # "none" /\ routine'[c] # "none"
  BY DEF ReaderInv, ReaderTypeOK, PeerWrites, PeerLeaves, Goroutine, Fill, ReadMessage, ReadEnds

LEMMA ReaderStep ==
    ASSUME ReaderInv, [ReaderNext]_readerVars
    PROVE  ReaderInv'
  <1> SUFFICES GoroutinesOK'
    BY ReaderTypes DEF ReaderInv
  <1>1. ASSUME NEW c \in Conns,
               \/ \E m \in Lines : PeerWrites(c, m)
               \/ PeerLeaves(c) \/ Goroutine(c)
        PROVE  GoroutinesOK'
    <2>1. routine'[c] = "send" => got'[c] # Bad
      BY <1>1 DEF ReaderInv, ReaderTypeOK, GoroutinesOK, PeerWrites, PeerLeaves, Goroutine,
                  Fill, ReadMessage, ReadEnds
    <2>2. InUse' = InUse
      BY <1>1, ReaderOthers DEF InUse
    <2>3. /\ UNCHANGED <<closed, current, run, handled>>
          /\ \A d \in Conns : d # c => /\ wire'[d] = wire[d] /\ buf'[d] = buf[d]
                                       /\ hungUp'[d] = hungUp[d] /\ routine'[d] = routine[d]
                                       /\ got'[d] = got[d]
          /\ routine[c] # "none" /\ routine'[c] # "none"
      BY <1>1, ReaderOthers
    <2>4. \A d \in Conns : /\ routine'[d] = "none" => /\ wire'[d] = <<>> /\ buf'[d] = <<>>
                                                       /\ ~hungUp'[d] /\ ~closed'[d]
                           /\ routine'[d] = "send" => got'[d] # Bad
      BY <2>1, <2>3 DEF ReaderInv, GoroutinesOK
    <2>5. current # 0 => routine'[current] # "none"
      BY <2>3 DEF ReaderInv, ReaderTypeOK, GoroutinesOK
    <2> QED BY <2>2, <2>3, <2>4, <2>5 DEF ReaderInv, GoroutinesOK
  <1>2. CASE setup
    BY <1>2, NoConnection DEF ReaderInv, ReaderTypeOK, GoroutinesOK, setup, InUse
  <1>3. CASE Receive
    BY <1>3, NoConnection DEF ReaderInv, ReaderTypeOK, GoroutinesOK, Receive, InUse
  <1>4. CASE shutdown
    BY <1>4, NoConnection DEF ReaderInv, ReaderTypeOK, GoroutinesOK, shutdown, InUse
  <1>5. CASE Drain
    BY <1>5, NoConnection DEF ReaderInv, ReaderTypeOK, GoroutinesOK, Drain, InUse
  <1>6. CASE UNCHANGED readerVars
    BY <1>6 DEF readerVars, ReaderInv, GoroutinesOK, InUse
  <1> QED BY <1>1, <1>2, <1>3, <1>4, <1>5, <1>6 DEF ReaderNext, Lines


-----------------------------------------------------------------------------
(* Every step is one of module Link, or changes nothing that it sees.      *)

LinkStep == AsLink!LinkNext \/ UNCHANGED <<InUse, Queue, Over, handled>>

\* The steps of connections that the proxy has shut down.
LEMMA LinkOthers ==
    ASSUME ReaderInv, NEW c \in Conns, ~InUse \/ c # current,
           \/ \E m \in Lines : PeerWrites(c, m)
           \/ PeerLeaves(c) \/ Goroutine(c)
    PROVE  LinkStep
  <1>1. /\ UNCHANGED <<closed, current, run, handled>>
        /\ \A d \in Conns : d # c => /\ wire'[d] = wire[d] /\ buf'[d] = buf[d]
                                     /\ hungUp'[d] = hungUp[d] /\ routine'[d] = routine[d]
                                     /\ got'[d] = got[d]
    BY ReaderOthers
  <1>2. InUse => current \in Conns
    BY DEF ReaderInv, ReaderTypeOK, InUse
  <1>3. InUse' = InUse
    BY <1>1 DEF InUse
  <1>4. Queue' = Queue /\ Over' = Over
    BY <1>1, <1>2, <1>3 DEF Queue, Over
  <1> QED BY <1>1, <1>3, <1>4 DEF LinkStep

\* Those of the peer and the goroutine of the current connection.
LEMMA LinkCurrent ==
    ASSUME ReaderInv, InUse,
           \/ \E m \in Lines : PeerWrites(current, m)
           \/ PeerLeaves(current) \/ Goroutine(current)
    PROVE  LinkStep
  <1> DEFINE sent == IF routine[current] = "send" THEN <<got[current]>> ELSE <<>>
  <1>1. /\ current \in Conns /\ current # 0 /\ InUse' /\ current' = current /\ handled' = handled
        /\ wire[current] \in Seq(Lines) /\ buf[current] \in Seq(Lines) /\ got[current] \in Lines
        /\ ~closed[current]
    BY ReaderOthers DEF ReaderInv, ReaderTypeOK, GoroutinesOK, InUse
  <1>2. Queue = IF routine[current] = "ended" THEN <<>> ELSE sent \o buf[current] \o wire[current]
    BY DEF Queue
  <1>3. Queue' = IF routine'[current] = "ended" THEN <<>>
                 ELSE (IF routine'[current] = "send" THEN <<got'[current]>> ELSE <<>>)
                        \o buf'[current] \o wire'[current]
    BY <1>1 DEF Queue
  <1>4. /\ Over = (hungUp[current] \/ routine[current] = "ended")
        /\ Over' = (hungUp'[current] \/ routine'[current] = "ended")
    BY <1>1 DEF Over
  <1>5. sent \in Seq(Lines)
    BY <1>1
  <1>6. ASSUME NEW m \in Lines, PeerWrites(current, m)
        PROVE  LinkStep
    <2>1. /\ wire'[current] = Append(wire[current], m) /\ ~hungUp[current]
          /\ UNCHANGED <<hungUp, buf, routine, got>>
      <3>1. ~hungUp[current] /\ wire' = [wire EXCEPT ![current] = Append(@, m)]
            /\ UNCHANGED <<hungUp, buf, routine, got>>
        BY <1>6, Zenon DEF PeerWrites
      <3>2. wire'[current] = Append(wire[current], m)
        BY <1>1, <3>1 DEF ReaderInv, ReaderTypeOK
      <3> QED BY <3>1, <3>2
    <2>2. CASE routine[current] = "ended"
      BY <1>1, <1>2, <1>3, <1>4, <2>1, <2>2 DEF LinkStep
    <2>3. CASE routine[current] # "ended"
      <3>1. sent \o buf[current] \in Seq(Lines)
        BY <1>1, <1>5, ConcatProperties
      <3> HIDE DEF sent
      <3>2. Queue' = Append(Queue, m)
        BY <1>1, <1>2, <1>3, <2>1, <2>3, <3>1, Behind DEF sent
      <3>3. AsLink!Say(m)
        BY <1>1, <1>4, <2>1, <2>3, <3>2 DEF AsLink!Say
      <3> QED BY <3>3 DEF LinkStep, AsLink!LinkNext, Lines
    <2> QED BY <2>2, <2>3
  <1>7. CASE PeerLeaves(current)
    <2>1. hungUp'[current] /\ UNCHANGED <<wire, buf, routine, got>>
      BY <1>1, <1>7 DEF PeerLeaves, ReaderInv, ReaderTypeOK
    <2>2. AsLink!Finish
      BY <1>1, <1>2, <1>3, <1>4, <2>1 DEF AsLink!Finish
    <2> QED BY <2>2 DEF LinkStep, AsLink!LinkNext
  <1>8. CASE Fill(current)
    <2>1. PICK n \in 1..Len(wire[current]) :
             /\ buf' = [buf EXCEPT ![current] = SubSeq(wire[current], 1, n)]
             /\ wire' = [wire EXCEPT ![current] = SubSeq(@, n + 1, Len(@))]
      BY <1>8 DEF Fill
    <2>2. /\ buf'[current] = SubSeq(wire[current], 1, n)
          /\ wire'[current] = SubSeq(wire[current], n + 1, Len(wire[current]))
          /\ routine[current] = "read" /\ buf[current] = <<>>
          /\ UNCHANGED <<routine, got, hungUp>>
      BY <1>1, <1>8, <2>1 DEF Fill, ReaderInv, ReaderTypeOK
    <2>3. Queue = wire[current]
      BY <1>1, <1>2, <2>2, ConcatEmptySeq
    <2>4. buf'[current] \in Seq(Lines) /\ wire'[current] \in Seq(Lines)
      BY <1>1, <2>2, TakeSome
    <2>5. Queue' = buf'[current] \o wire'[current]
      BY <1>3, <2>2, <2>4, ConcatEmptySeq
    <2>6. Queue' = Queue
      BY <1>1, <2>2, <2>3, <2>5, TakeSome
    <2> QED BY <1>1, <1>4, <2>2, <2>6 DEF LinkStep
  <1>9. CASE ReadMessage(current)
    <2>1. /\ routine[current] = "read" /\ buf[current] # <<>>
          /\ buf'[current] = Tail(buf[current]) /\ got'[current] = Head(buf[current])
          /\ routine'[current] = IF Head(buf[current]) = Bad THEN "ended" ELSE "send"
          /\ UNCHANGED <<wire, hungUp>>
      BY <1>1, <1>9 DEF ReadMessage, ReaderInv, ReaderTypeOK
    <2>2. Head(buf[current]) \in Lines /\ Tail(buf[current]) \in Seq(Lines)
      BY <1>1, <2>1, HeadTailProperties
    <2>3. Queue = <<Head(buf[current])>> \o Tail(buf[current]) \o wire[current]
      BY <1>1, <1>2, <2>1, HeadAndTail, ConcatEmptySeq
    <2>4. CASE Head(buf[current]) = Bad
      <3>1. Queue # <<>> /\ Head(Queue) = Bad
        <4> DEFINE h == Head(buf[current])
                   t == Tail(buf[current])
                   w == wire[current]
        <4>1. h \in Lines /\ t \in Seq(Lines) /\ w \in Seq(Lines) /\ h = Bad
              /\ Queue = <<h>> \o t \o w
          BY <1>1, <2>2, <2>3, <2>4
        <4> HIDE DEF h, t, w
        <4> QED BY <4>1, Before
      <3>2. Queue' = <<>> /\ Over'
        BY <1>3, <1>4, <2>1, <2>4
      <3>3. AsLink!Break
        BY <1>1, <3>1, <3>2 DEF AsLink!Break
      <3> QED BY <3>3 DEF LinkStep, AsLink!LinkNext
    <2>5. CASE Head(buf[current]) # Bad
      BY <1>1, <1>3, <1>4, <2>1, <2>3, <2>5 DEF LinkStep
    <2> QED BY <2>4, <2>5
  <1>10. CASE ReadEnds(current)
    <2>1. /\ routine[current] = "read" /\ buf[current] = <<>> /\ wire[current] = <<>>
          /\ hungUp[current]
          /\ routine'[current] = "ended" /\ UNCHANGED hungUp
      BY <1>1, <1>10 DEF ReadEnds, ReaderInv, ReaderTypeOK
    <2>2. Queue = <<>> /\ Queue' = <<>>
      BY <1>1, <1>2, <1>3, <2>1, ConcatEmptySeq
    <2>3. Over' = Over
      BY <1>4, <2>1
    <2> QED BY <1>1, <2>2, <2>3 DEF LinkStep
  <1> QED BY <1>6, <1>7, <1>8, <1>9, <1>10 DEF Goroutine

\* The proxy's own steps.
LEMMA LinkProxy ==
    ASSUME ReaderInv, setup \/ Receive \/ shutdown \/ Drain
    PROVE  LinkStep
  <1> USE NoConnection
  <1>1. CASE setup
    <2>1. /\ ~InUse /\ InUse' /\ current' \in Conns /\ handled' = <<>>
          /\ routine[current'] = "none" /\ routine'[current'] = "read"
          /\ UNCHANGED <<wire, buf, hungUp>>
      BY <1>1 DEF setup, InUse, ReaderInv, ReaderTypeOK
    <2>2. wire[current'] = <<>> /\ buf[current'] = <<>> /\ ~hungUp[current']
      BY <2>1 DEF ReaderInv, GoroutinesOK
    <2>3. <<>> \o <<>> \o <<>> = <<>>
      BY ConcatEmptySeq, EmptySeq
    <2>4. Queue' = <<>> /\ ~Over'
      BY <2>1, <2>2, <2>3 DEF Queue, Over
    <2>5. AsLink!Connect
      BY <2>1, <2>4 DEF AsLink!Connect, Over
    <2> QED BY <2>5 DEF LinkStep, AsLink!LinkNext
  <1>2. CASE Receive
    <2>1. /\ InUse /\ InUse' /\ current' = current /\ current \in Conns
          /\ routine[current] = "send" /\ routine'[current] = "read"
          /\ handled' = Append(handled, got[current]) /\ UNCHANGED <<wire, buf, hungUp>>
          /\ wire[current] \in Seq(Lines) /\ buf[current] \in Seq(Lines) /\ got[current] \in Lines
          /\ got[current] # Bad
      BY <1>2 DEF Receive, InUse, ReaderInv, ReaderTypeOK, GoroutinesOK
    <2>2. Queue = <<got[current]>> \o buf[current] \o wire[current]
      BY <2>1 DEF Queue
    <2>3. Queue' = buf[current] \o wire[current]
      BY <2>1, ConcatEmptySeq DEF Queue
    <2>4. Queue # <<>> /\ Head(Queue) = got[current] /\ Queue' = Tail(Queue)
      <3> DEFINE h == got[current]
                 b == buf[current]
                 w == wire[current]
      <3>1. h \in Lines /\ b \in Seq(Lines) /\ w \in Seq(Lines)
            /\ Queue = <<h>> \o b \o w /\ Queue' = b \o w
        BY <2>1, <2>2, <2>3
      <3> HIDE DEF h, b, w
      <3>2. Queue # <<>> /\ Head(Queue) = h /\ Queue' = Tail(Queue)
        BY <3>1, Before
      <3> QED BY <3>2 DEF h
    <2>5. Over' = Over
      BY <2>1 DEF Over
    <2>6. AsLink!Take
      BY <2>1, <2>4, <2>5 DEF AsLink!Take
    <2> QED BY <2>6 DEF LinkStep, AsLink!LinkNext
  <1>3. CASE shutdown
    <2>1. InUse /\ ~InUse' /\ handled' = <<>>
      BY <1>3 DEF shutdown, InUse
    <2>2. Queue' = <<>> /\ ~Over'
      BY <2>1 DEF Queue, Over
    <2>3. AsLink!Drop
      BY <2>1, <2>2 DEF AsLink!Drop, InUse, Over
    <2> QED BY <2>3 DEF LinkStep, AsLink!LinkNext
  <1>4. CASE Drain
    <2>1. ~InUse /\ ~InUse' /\ handled' = handled
      BY <1>4 DEF Drain, InUse
    <2>2. Queue' = Queue /\ Over' = Over
      BY <2>1 DEF Queue, Over
    <2> QED BY <2>1, <2>2 DEF LinkStep, InUse
  <1> QED BY <1>1, <1>2, <1>3, <1>4

LEMMA LinkSteps ==
    ASSUME ReaderInv, [ReaderNext]_readerVars
    PROVE  LinkStep
  <1>1. ASSUME NEW c \in Conns,
               \/ \E m \in Lines : PeerWrites(c, m)
               \/ PeerLeaves(c) \/ Goroutine(c)
        PROVE  LinkStep
    BY <1>1, LinkOthers, LinkCurrent
  <1>2. CASE setup \/ Receive \/ shutdown \/ Drain
    BY <1>2, LinkProxy
  <1>3. CASE UNCHANGED readerVars
    BY <1>3 DEF LinkStep, readerVars, InUse, Queue, Over
  <1> QED BY <1>1, <1>2, <1>3 DEF ReaderNext, Lines

\* However a connection's buffer, goroutine and channel interleave with the peer
\* and with a shutdown, and whatever earlier connections have left behind: the
\* select loop receives the peer's messages in order, each once, and the end of
\* input after all of them.
THEOREM LinkTheorem == ReaderSpec => ImplementsLink
  <1>1. ReaderInit => AsLink!LinkInit
    <2> SUFFICES ASSUME ReaderInit PROVE AsLink!LinkInit
      OBVIOUS
    <2>1. ~InUse /\ handled = <<>>
      BY DEF ReaderInit, InUse
    <2> QED BY <2>1 DEF AsLink!LinkInit, Queue, Over, InUse
  <1>2. ReaderInv /\ [ReaderNext]_readerVars => ReaderInv'
    BY ReaderStep
  <1>3. ReaderInv /\ [ReaderNext]_readerVars => [AsLink!LinkNext]_(AsLink!linkVars)
    BY LinkSteps DEF LinkStep, AsLink!linkVars
  <1> QED
    BY <1>1, <1>2, <1>3, ReaderInvInit, PTL DEF ReaderSpec, ImplementsLink, AsLink!LinkSpec

=============================================================================
