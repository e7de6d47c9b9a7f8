-------------------------- MODULE DeliveryProofs ---------------------------
(***************************************************************************)
(* Theorems about the texts: none is lost but in a write that reports no   *)
(* error, none is delivered twice unless a replay was cut short, and the   *)
(* proxy uses its logs as module Store says.                               *)
(***************************************************************************)
EXTENDS ProxyProofs, ProxyStore

\* Text x is message i of the log of t.
Holds(t, i, x) == i \in 1..Len(logs[t]) /\ x \in TextOf(logs[t][i])

\* The replay in progress has passed message i of the log of t.
Passed(t, i) == task.at = "replay" /\ task.name = t /\ i < task.next

\* Only texts that were received are logged or delivered.
OnlyReceived ==
    /\ delivered \subseteq received
    /\ \A t \in Targets, i \in Nat, x \in Texts : Holds(t, i, x) => x \in received

\* A text is in at most one place of one log.
LoggedOnce ==
    \A t, u \in Targets, i, j \in Nat, x \in Texts :
        Holds(t, i, x) /\ Holds(u, j, x) => t = u /\ i = j

\* A delivered text that is still in a log has been passed by the replay in
\* progress, or was sent by one that was cut short.
DeliveredIsPassed ==
    \A t \in Targets, i \in Nat, x \in Texts :
        Holds(t, i, x) /\ x \in delivered => x \in cut \/ Passed(t, i)

\* What a replay has passed was written, and is delivered or swallowed.
PassedIsWritten ==
    \A t \in Targets, i \in Nat, x \in Texts :
        Holds(t, i, x) /\ Passed(t, i) => x \in delivered \cup swallowed

\* TextsAccounted, place by place.
Accounted ==
    \A x \in received : \/ x \in delivered \cup unstored \cup swallowed
                       \/ \E t \in Targets, i \in Nat : Holds(t, i, x)

\* A writer that reports errors swallows nothing.
NothingSwallowed == WriteErrors => swallowed = {}

\* The inductive invariant.
DeliveryInv ==
    /\ OnlyReceived
    /\ LoggedOnce
    /\ DeliveredIsPassed
    /\ PassedIsWritten
    /\ Accounted
    /\ NothingSwallowed
    /\ NoDuplicates

-----------------------------------------------------------------------------

\* The texts that Replayed collects are those the cursor has passed.
LEMMA ReplayedIsPassed ==
    ASSUME TypeOK
    PROVE  /\ \A t \in Targets, i \in Nat, x \in Texts :
                 Holds(t, i, x) /\ Passed(t, i) => x \in Replayed
           /\ task.at = "replay" => task.name \in Targets /\ task.next \in Nat \ {0}
  <1>1. \A t \in Targets : logs[t] \in Seq(LoggedMessages)
    BY DEF TypeOK
  <1>2. \A t \in Targets : DOMAIN logs[t] = 1..Len(logs[t])
    BY <1>1, LenProperties
  <1>3. task.at = "replay" => task.name \in Targets /\ task.next \in Nat \ {0}
    BY DEF TypeOK, Tasks
  <1> QED BY <1>2, <1>3 DEF Holds, Passed, Replayed

\* A step that moves no text, and starts no replay but at the first message,
\* keeps the invariant, if what a replay had passed is now cut.
LEMMA QuietDelivery ==
    ASSUME TypeOK, DeliveryInv,
           \A t \in Targets, i \in Nat, x \in Texts : Holds(t, i, x)' = Holds(t, i, x),
           UNCHANGED <<received, delivered, resent, unstored, swallowed>>,
           \/ task' = task /\ cut' = cut
           \/ task'.at # "replay" /\ cut' = cut \cup Replayed
           \/ task.at # "replay" /\ task'.next = 1 /\ cut' = cut
    PROVE  DeliveryInv'
  <1>1. \A t \in Targets, i \in Nat, x \in Texts : Holds(t, i, x)' = Holds(t, i, x)
    OBVIOUS
  <1>2. OnlyReceived'
    BY <1>1 DEF DeliveryInv, OnlyReceived
  <1>3. LoggedOnce'
    BY <1>1 DEF DeliveryInv, LoggedOnce
  <1>4. \A t \in Targets, i \in Nat, x \in Texts :
            Holds(t, i, x) /\ (x \in cut \/ Passed(t, i)) => x \in cut' \/ Passed(t, i)'
    BY ReplayedIsPassed DEF Passed
  <1>5. DeliveredIsPassed'
    BY <1>1, <1>4 DEF DeliveryInv, DeliveredIsPassed
  <1>6. \A t \in Targets, i \in Nat, x \in Texts :
            Holds(t, i, x) /\ Passed(t, i)' => Passed(t, i)
    <2>1. \A t \in Targets, i \in Nat : i \in 1..Len(logs[t]) => ~(i < 1)
      OBVIOUS
    <2> QED BY <2>1 DEF Passed, Holds
  <1>7. PassedIsWritten'
    BY <1>1, <1>6 DEF DeliveryInv, PassedIsWritten
  <1>8. Accounted'
    <2> SUFFICES ASSUME NEW x \in received, x \notin delivered \cup unstored \cup swallowed
                 PROVE  \E t \in Targets, i \in Nat : Holds(t, i, x)'
      BY DEF Accounted
    <2>1. PICK t \in Targets, i \in Nat : Holds(t, i, x)
      BY DEF DeliveryInv, Accounted
    <2>2. x \in Texts
      BY DEF TypeOK
    <2> QED BY <1>1, <2>1, <2>2
  <1>9. NothingSwallowed' /\ NoDuplicates'
    BY DEF DeliveryInv, NothingSwallowed, NoDuplicates
  <1> QED BY <1>2, <1>3, <1>5, <1>7, <1>8, <1>9 DEF DeliveryInv

\* A message that logMessage takes becomes the last one of its target's log;
\* every other place of every log stays as it was.
LEMMA AppendLog ==
    ASSUME TypeOK, NEW m \in ServerMsgs, m.cmd \in LoggedCmds,
           logs' = [logs EXCEPT ![m.target] = Append(@, m)]
    PROVE  \A t \in Targets, i \in Nat, x \in Texts :
               Holds(t, i, x)' <=> \/ Holds(t, i, x)
                                   \/ /\ t = m.target /\ i = Len(logs[t]) + 1
                                      /\ x \in TextOf(m)
  <1>1. m \in LoggedMessages /\ m.target \in Targets
    BY MessageFields, MessagesAssumption DEF LoggedMessages
  <1>2. logs \in [Targets -> Seq(LoggedMessages)]
    BY DEF TypeOK
  <1> SUFFICES ASSUME NEW t \in Targets, NEW i \in Nat, NEW x \in Texts
               PROVE  Holds(t, i, x)' <=> \/ Holds(t, i, x)
                                          \/ /\ t = m.target /\ i = Len(logs[t]) + 1
                                             /\ x \in TextOf(m)
    OBVIOUS
  <1>3. CASE t # m.target
    <2>1. logs'[t] = logs[t]
      BY <1>1, <1>2, <1>3
    <2> QED BY <1>3, <2>1 DEF Holds
  <1>4. CASE t = m.target
    <2>1. logs'[t] = Append(logs[t], m) /\ logs[t] \in Seq(LoggedMessages)
      BY <1>1, <1>2, <1>4
    <2>2. /\ Len(logs'[t]) = Len(logs[t]) + 1
          /\ logs'[t][Len(logs[t]) + 1] = m
          /\ \A j \in 1..Len(logs[t]) : logs'[t][j] = logs[t][j]
          /\ Len(logs[t]) \in Nat
      BY <1>1, <2>1, AppendProperties, LenProperties
    <2>3. i \in 1..Len(logs'[t]) <=> i \in 1..Len(logs[t]) \/ i = Len(logs[t]) + 1
      BY <2>2
    <2>4. Len(logs[t]) + 1 \notin 1..Len(logs[t])
      BY <2>2
    <2>5. CASE i \in 1..Len(logs[t])
      BY <1>4, <2>2, <2>3, <2>4, <2>5 DEF Holds
    <2>6. CASE i = Len(logs[t]) + 1
      BY <1>4, <2>2, <2>3, <2>4, <2>6 DEF Holds
    <2>7. CASE i \notin 1..Len(logs[t]) /\ i # Len(logs[t]) + 1
      BY <2>3, <2>7 DEF Holds
    <2> QED BY <2>5, <2>6, <2>7
  <1> QED BY <1>3, <1>4

\* A new text is delivered, logged or refused, and was in no log before.
LEMMA TextDelivery ==
    ASSUME TypeOK, DeliveryInv, NEW m \in ServerMsgs, ServerText(m)
    PROVE  DeliveryInv'
  <1> DEFINE q == fromServer(p, m)
             new == m.arg
  <1>m. m \in ServerMessages
    BY MessagesAssumption
  <1>0. /\ task.at # "replay" /\ task' = task /\ cut' = cut
        /\ received' = received \cup {new} /\ new \notin received
        /\ m.cmd \in LoggedCmds
        /\ TextOf(m) = {new} /\ new \in Texts
    BY <1>m, MessageFields DEF ServerText, ServerReads, InSelect, TextOf, TextCmds, LoggedCmds
  <1>1. /\ \A t \in Targets, i \in Nat : ~Holds(t, i, new)
        /\ new \notin delivered
    BY <1>0 DEF DeliveryInv, OnlyReceived
  <1>2. \A t, i : ~Passed(t, i) /\ ~Passed(t, i)'
    BY <1>0 DEF Passed
  <1>3. received \subseteq Texts
    BY DEF TypeOK
  <1>4. CASE ForClient(q, m) /\ WriteOk(q.client)
    <2>1. logs' = logs /\ unstored' = unstored /\ resent' = resent
      BY <1>0, <1>1, <1>4 DEF ServerText, Written
    <2>2. \/ delivered' = delivered \cup {new} /\ swallowed' = swallowed
          \/ delivered' = delivered /\ swallowed' = swallowed \cup {new} /\ ~WriteErrors
      BY <1>0, <1>4 DEF ServerText, Written, Reaches, WriteOk
    <2>3. \A t \in Targets, i \in Nat, x \in Texts : Holds(t, i, x)' = Holds(t, i, x)
      BY <2>1 DEF Holds
    <2>4. OnlyReceived'
      BY <1>0, <2>2, <2>3 DEF DeliveryInv, OnlyReceived
    <2>5. LoggedOnce'
      BY <2>3 DEF DeliveryInv, LoggedOnce
    <2>6. DeliveredIsPassed'
      BY <1>0, <1>1, <1>2, <2>2, <2>3 DEF DeliveryInv, DeliveredIsPassed
    <2>7. PassedIsWritten'
      BY <1>2 DEF PassedIsWritten
    <2>8. Accounted'
      <3> SUFFICES ASSUME NEW x \in received, x \notin delivered \cup unstored \cup swallowed
                   PROVE  \E t \in Targets, i \in Nat : Holds(t, i, x)'
        BY <1>0, <2>1, <2>2 DEF Accounted
      <3>1. PICK t \in Targets, i \in Nat : Holds(t, i, x)
        BY DEF DeliveryInv, Accounted
      <3> QED BY <1>3, <2>3, <3>1
    <2>9. NothingSwallowed' /\ NoDuplicates'
      BY <1>0, <2>1, <2>2 DEF DeliveryInv, NothingSwallowed, NoDuplicates
    <2> QED BY <2>4, <2>5, <2>6, <2>7, <2>8, <2>9 DEF DeliveryInv
  <1>5. CASE ~(ForClient(q, m) /\ WriteOk(q.client))
    <2>1. logMessage(m) /\ UNCHANGED <<delivered, resent, swallowed>>
      BY <1>5 DEF ServerText
    <2>2. CASE logs' = logs /\ unstored' = unstored \cup {new}
      <3>1. \A t \in Targets, i \in Nat, x \in Texts : Holds(t, i, x)' = Holds(t, i, x)
        BY <2>2 DEF Holds
      <3>2. OnlyReceived'
        BY <1>0, <2>1, <3>1 DEF DeliveryInv, OnlyReceived
      <3>3. LoggedOnce'
        BY <3>1 DEF DeliveryInv, LoggedOnce
      <3>4. DeliveredIsPassed'
        BY <1>0, <1>2, <2>1, <3>1 DEF DeliveryInv, DeliveredIsPassed
      <3>5. PassedIsWritten'
        BY <1>2 DEF PassedIsWritten
      <3>6. Accounted'
        <4> SUFFICES ASSUME NEW x \in received, x \notin delivered \cup unstored \cup swallowed
                     PROVE  \E t \in Targets, i \in Nat : Holds(t, i, x)'
          BY <1>0, <2>1, <2>2 DEF Accounted
        <4>1. PICK t \in Targets, i \in Nat : Holds(t, i, x)
          BY DEF DeliveryInv, Accounted
        <4> QED BY <1>3, <3>1, <4>1
      <3>7. NothingSwallowed' /\ NoDuplicates'
        BY <1>0, <2>1 DEF DeliveryInv, NothingSwallowed, NoDuplicates
      <3> QED BY <3>2, <3>3, <3>4, <3>5, <3>6, <3>7 DEF DeliveryInv
    <2>3. CASE logs' = [logs EXCEPT ![m.target] = Append(@, m)] /\ unstored' = unstored
      <3> DEFINE end == Len(logs[m.target]) + 1
      <3>0. m.target \in Targets /\ end \in Nat
        <4>1. m.target \in Targets
          BY <1>m, MessageFields
        <4>2. logs[m.target] \in Seq(LoggedMessages)
          BY <4>1 DEF TypeOK
        <4> QED BY <4>1, <4>2, LenProperties
      <3>1. \A t \in Targets, i \in Nat, x \in Texts :
               Holds(t, i, x)' <=> Holds(t, i, x) \/ (t = m.target /\ i = end /\ x = new)
        BY <1>0, <2>3, AppendLog
      <3> HIDE DEF end
      <3>2. OnlyReceived'
        BY <1>0, <2>1, <3>1 DEF DeliveryInv, OnlyReceived
      <3>3. LoggedOnce'
        BY <1>1, <3>1 DEF DeliveryInv, LoggedOnce
      <3>4. DeliveredIsPassed'
        BY <1>0, <1>1, <1>2, <2>1, <3>1 DEF DeliveryInv, DeliveredIsPassed
      <3>5. PassedIsWritten'
        BY <1>2 DEF PassedIsWritten
      <3>6. Accounted'
        <4> SUFFICES ASSUME NEW x \in received', x \notin delivered \cup unstored \cup swallowed
                     PROVE  \E t \in Targets, i \in Nat : Holds(t, i, x)'
          BY <2>1, <2>3 DEF Accounted
        <4>1. CASE x = new
          BY <1>0, <3>0, <3>1, <4>1
        <4>2. CASE x # new
          <5>1. x \in received
            BY <1>0, <4>2
          <5>2. PICK t \in Targets, i \in Nat : Holds(t, i, x)
            BY <5>1 DEF DeliveryInv, Accounted
          <5>3. x \in Texts
            BY <1>3, <5>1
          <5>4. Holds(t, i, x)'
            BY <3>1, <5>2, <5>3
          <5> QED BY <5>4
        <4> QED BY <4>1, <4>2
      <3>7. NothingSwallowed' /\ NoDuplicates'
        BY <1>0, <2>1 DEF DeliveryInv, NothingSwallowed, NoDuplicates
      <3> QED BY <3>2, <3>3, <3>4, <3>5, <3>6, <3>7 DEF DeliveryInv
    <2> QED BY <1>0, <2>1, <2>2, <2>3 DEF logMessage
  <1> QED BY <1>4, <1>5

\* A membership message carries no text, whether it is logged or not.
LEMMA MembershipDelivery ==
    ASSUME TypeOK, DeliveryInv, NEW m \in ServerMsgs, ServerMembership(m)
    PROVE  DeliveryInv'
  <1>1. /\ task' = task /\ cut' = cut
        /\ UNCHANGED <<received, delivered, resent, swallowed>>
        /\ TextOf(m) = {}
    BY DEF ServerMembership, MembershipCmds, TextOf, TextCmds
  <1>2. \/ logs' = logs /\ unstored' = unstored
        \/ /\ m.cmd \in LoggedCmds /\ unstored' = unstored
           /\ logs' = [logs EXCEPT ![m.target] = Append(@, m)]
    BY <1>1 DEF ServerMembership, logMessage
  <1>3. \A t \in Targets, i \in Nat, x \in Texts : Holds(t, i, x)' = Holds(t, i, x)
    <2>1. CASE logs' = logs
      BY <2>1 DEF Holds
    <2>2. CASE m.cmd \in LoggedCmds /\ logs' = [logs EXCEPT ![m.target] = Append(@, m)]
      <3>1. \A t \in Targets, i \in Nat, x \in Texts : Holds(t, i, x)' <=> Holds(t, i, x)
        BY <1>1, <2>2, AppendLog
      <3>2. \A t \in Targets, i \in Nat, x \in Texts :
               Holds(t, i, x) \in BOOLEAN /\ Holds(t, i, x)' \in BOOLEAN
        BY DEF Holds
      <3> QED BY <3>1, <3>2
    <2> QED BY <1>2, <2>1, <2>2
  <1> QED BY <1>1, <1>2, <1>3, QuietDelivery

\* replayLog writes message task.next and moves on: its text was not delivered
\* before, unless a replay was cut short after it.
LEMMA ReplaySendDelivery ==
    ASSUME TypeOK, DeliveryInv, ReplaySend
    PROVE  DeliveryInv'
  <1> DEFINE name == task.name
             at == task.next
             sent == TextOf(logs[name][at])
  <1>1. /\ task.at = "replay" /\ name \in Targets /\ at \in Nat \ {0}
        /\ at \in 1..Len(logs[name])
    <2>1. name \in Targets /\ at \in Nat \ {0} /\ task.at = "replay"
      BY ReplayedIsPassed DEF ReplaySend
    <2>2. logs[name] \in Seq(LoggedMessages)
      BY <2>1 DEF TypeOK
    <2>3. Len(logs[name]) \in Nat /\ at <= Len(logs[name])
      BY <2>2, LenProperties DEF ReplaySend, Log
    <2> QED BY <2>1, <2>3
  <1>2. task'.at = "replay" /\ task'.name = name /\ task'.next = at + 1
    BY <1>1 DEF ReplaySend, TypeOK, Tasks
  <1>3. /\ UNCHANGED <<logs, received, cut, unstored>>
        /\ \/ /\ delivered' = delivered \cup sent /\ swallowed' = swallowed
              /\ resent' = resent \cup (sent \cap delivered)
           \/ /\ delivered' = delivered /\ swallowed' = swallowed \cup sent /\ ~WriteErrors
              /\ resent' = resent
    BY DEF ReplaySend, Written, Reaches, WriteOk, Log
  <1>4. \A x \in Texts : Holds(name, at, x) <=> x \in sent
    BY <1>1 DEF Holds
  <1>5. sent \subseteq Texts
    BY CurrentMessage, MessageFields DEF TextOf, ReplaySend, Log
  <1> HIDE DEF sent
  <1>6. \A t \in Targets, i \in Nat, x \in Texts : Holds(t, i, x)' = Holds(t, i, x)
    BY <1>3 DEF Holds
  <1>7. \A t \in Targets, i \in Nat : Passed(t, i)' <=> Passed(t, i) \/ (t = name /\ i = at)
    <2>1. \A i \in Nat : i < at + 1 <=> i < at \/ i = at
      BY <1>1
    <2> QED BY <1>1, <1>2, <2>1 DEF Passed
  <1>8. ~Passed(name, at)
    BY <1>1 DEF Passed
  <1> HIDE DEF name, at
  <1>9. \A t \in Targets, i \in Nat, x \in sent : Holds(t, i, x) => t = name /\ i = at
    BY <1>1, <1>4, <1>5 DEF DeliveryInv, LoggedOnce
  <1>10. OnlyReceived'
    BY <1>1, <1>3, <1>4, <1>5, <1>6 DEF DeliveryInv, OnlyReceived
  <1>11. LoggedOnce'
    BY <1>6 DEF DeliveryInv, LoggedOnce
  <1>12. DeliveredIsPassed'
    BY <1>3, <1>6, <1>7, <1>9 DEF DeliveryInv, DeliveredIsPassed
  <1>13. PassedIsWritten'
    BY <1>3, <1>4, <1>6, <1>7 DEF DeliveryInv, PassedIsWritten
  <1>14. Accounted'
    <2> SUFFICES ASSUME NEW x \in received, x \notin delivered \cup unstored \cup swallowed
                 PROVE  \E t \in Targets, i \in Nat : Holds(t, i, x)'
      BY <1>3 DEF Accounted
    <2>1. PICK t \in Targets, i \in Nat : Holds(t, i, x)
      BY DEF DeliveryInv, Accounted
    <2>2. x \in Texts
      BY DEF TypeOK
    <2> QED BY <1>6, <2>1, <2>2
  <1>15. sent \cap delivered \subseteq cut
    BY <1>1, <1>4, <1>5, <1>8 DEF DeliveryInv, DeliveredIsPassed
  <1>16. NothingSwallowed' /\ NoDuplicates'
    BY <1>3, <1>15 DEF DeliveryInv, NothingSwallowed, NoDuplicates
  <1> QED BY <1>10, <1>11, <1>12, <1>13, <1>14, <1>16 DEF DeliveryInv

\* The log that replayLog clears holds only what its loop has passed.
LEMMA ReplayEndsDelivery ==
    ASSUME TypeOK, DeliveryInv, ReplayEnds
    PROVE  DeliveryInv'
  <1>1. CASE logs' = logs /\ cut' = cut \cup Replayed
    <2>1. \A t \in Targets, i \in Nat, x \in Texts : Holds(t, i, x)' = Holds(t, i, x)
      BY <1>1 DEF Holds
    <2> QED BY <1>1, <2>1, QuietDelivery DEF ReplayEnds, Select
  <1>2. CASE logs' = [logs EXCEPT ![task.name] = <<>>] /\ cut' = cut
    <2>1. task.at = "replay" /\ task.name \in Targets /\ task.next \in Nat \ {0}
      BY ReplayedIsPassed DEF ReplayEnds
    <2>2. UNCHANGED <<received, delivered, resent, unstored, swallowed>> /\ task'.at # "replay"
      BY DEF ReplayEnds, Select
    <2>3. \A i \in 1..Len(logs[task.name]) : Passed(task.name, i)
      <3>1. logs[task.name] \in Seq(LoggedMessages)
        BY <2>1 DEF TypeOK
      <3>2. Len(logs[task.name]) \in Nat /\ task.next > Len(logs[task.name])
        BY <3>1, LenProperties DEF ReplayEnds, Log
      <3> QED BY <2>1, <3>2 DEF Passed
    <2>4. /\ \A t \in Targets : t # task.name => logs'[t] = logs[t]
          /\ logs'[task.name] = <<>>
      BY <1>2, <2>1 DEF TypeOK
    <2>5. \A i \in Nat : i \notin 1..Len(<<>>)
      OBVIOUS
    <2>6. \A t \in Targets, i \in Nat, x \in Texts :
              Holds(t, i, x)' <=> t # task.name /\ Holds(t, i, x)
      BY <2>1, <2>4, <2>5 DEF Holds
    <2>7. \A t \in Targets, i \in Nat : ~Passed(t, i)'
      BY <2>2 DEF Passed
    <2>8. OnlyReceived'
      BY <2>2, <2>6 DEF DeliveryInv, OnlyReceived
    <2>9. LoggedOnce'
      BY <2>6 DEF DeliveryInv, LoggedOnce
    <2>10. DeliveredIsPassed'
      <3>1. \A t \in Targets, i \in Nat : Passed(t, i) => t = task.name
        BY DEF Passed
      <3> QED BY <1>2, <2>2, <2>6, <3>1 DEF DeliveryInv, DeliveredIsPassed
    <2>11. PassedIsWritten'
      BY <2>7 DEF PassedIsWritten
    <2>12. Accounted'
      <3> SUFFICES ASSUME NEW x \in received, x \notin delivered \cup unstored \cup swallowed
                   PROVE  \E t \in Targets, i \in Nat : Holds(t, i, x)'
        BY <2>2 DEF Accounted
      <3>1. PICK t \in Targets, i \in Nat : Holds(t, i, x)
        BY DEF DeliveryInv, Accounted
      <3>2. x \in Texts
        BY DEF TypeOK
      <3>3. Holds(t, i, x) => i \in 1..Len(logs[t])
        BY DEF Holds
      <3>4. t # task.name
        BY <2>3, <3>1, <3>2, <3>3 DEF DeliveryInv, PassedIsWritten
      <3> QED BY <2>6, <3>1, <3>2, <3>4
    <2>13. NothingSwallowed' /\ NoDuplicates'
      BY <1>2, <2>2 DEF DeliveryInv, NothingSwallowed, NoDuplicates
    <2> QED BY <2>8, <2>9, <2>10, <2>11, <2>12, <2>13 DEF DeliveryInv
  <1> QED BY <1>1, <1>2 DEF ReplayEnds

\* Every step keeps the invariant.
LEMMA DeliveryStep ==
    ASSUME TypeOK, DeliveryInv, [Next]_vars
    PROVE  DeliveryInv'
  <1>q. ASSUME UNCHANGED <<logs, received, delivered, resent, unstored, swallowed>>,
               \/ task' = task /\ cut' = cut
               \/ task'.at # "replay" /\ cut' = cut \cup Replayed
               \/ task.at # "replay" /\ task'.next = 1 /\ cut' = cut
        PROVE  DeliveryInv'
    <2>1. \A t \in Targets, i \in Nat, x \in Texts : Holds(t, i, x)' = Holds(t, i, x)
      BY <1>q DEF Holds
    <2> QED BY <1>q, <2>1, QuietDelivery
  <1>r. task.at # "replay" => Replayed = {}
    BY DEF Replayed
  <1>1. CASE Accept \/ ClientGone \/ ServerGone \/ Tick
    BY <1>1, <1>q DEF Accept, ClientGone, ServerGone, Tick, history
  <1>2. CASE Stop
    <2>1. task.at # "replay" /\ task'.at # "replay"
      BY <1>2 DEF Stop, InSelect, Select
    <2> QED BY <1>2, <2>1, <1>q, <1>r DEF Stop, history
  <1>3. CASE Restart
    BY <1>3, <1>q DEF Restart, Select
  <1>4. ASSUME NEW m \in ClientMsgs,
               ClientInvalid(m) \/ ClientIdles(m) \/ ClientRegisters(m) \/ ClientReturns(m)
                 \/ ClientCommand(m) \/ ClientJoin(m)
        PROVE  DeliveryInv'
    <2>1. UNCHANGED <<task, logs, history>>
      BY <1>4 DEF ClientInvalid, ClientIdles, ClientRegisters, ClientReturns, ClientCommand,
                  ClientJoin
    <2> QED BY <2>1, <1>q DEF history
  <1>5. ASSUME NEW m \in ClientMsgs, ClientRejoin(m)
        PROVE  DeliveryInv'
    <2>1. task.at # "replay" /\ task'.at # "replay" /\ UNCHANGED <<logs, history>>
      BY <1>5 DEF ClientRejoin, ClientReads, InSelect, Select
    <2> QED BY <2>1, <1>q, <1>r DEF history
  <1>6. ASSUME NEW m \in ServerMsgs,
               ServerInvalid(m) \/ ServerKeepalive(m) \/ ServerForward(m) \/ ServerWelcome(m)
                 \/ ServerInfo(m)
        PROVE  DeliveryInv'
    <2>1. UNCHANGED <<task, logs, history>>
      BY <1>6 DEF ServerInvalid, ServerKeepalive, ServerForward, ServerWelcome, ServerInfo
    <2> QED BY <2>1, <1>q DEF history
  <1>7. ASSUME NEW m \in ServerMsgs, ServerEndOfMotd(m) \/ ServerEndOfNames(m)
        PROVE  DeliveryInv'
    <2>1. task.at # "replay" /\ task'.next = 1 /\ UNCHANGED <<logs, history>>
      BY <1>7 DEF ServerEndOfMotd, ServerEndOfNames, ServerReads, InSelect, replayLog
    <2> QED BY <2>1, <1>q DEF history
  <1>8. ASSUME NEW m \in ServerMsgs, ServerText(m)
        PROVE  DeliveryInv'
    BY <1>8, TextDelivery
  <1>9. ASSUME NEW m \in ServerMsgs, ServerMembership(m)
        PROVE  DeliveryInv'
    BY <1>9, MembershipDelivery
  <1>10. CASE rejoinChannel
    <2>1. /\ task.at # "replay" /\ UNCHANGED <<logs, history>>
          /\ task'.at # "replay" \/ task'.next = 1
      BY <1>10 DEF rejoinChannel, replayLog, Select
    <2> QED BY <2>1, <1>q, <1>r DEF history
  <1>11. CASE ReplaySend
    BY <1>11, ReplaySendDelivery
  <1>12. CASE ReplayAborts \/ ReplayFails
    BY <1>12, <1>q DEF ReplayAborts, ReplayFails, Select
  <1>13. CASE ReplayEnds
    BY <1>13, ReplayEndsDelivery
  <1>14. CASE Environment
    BY <1>14, <1>q DEF Environment, ClientDies, ServerDies, ClientDeadline, ServerDeadline,
                       history
  <1>15. CASE UNCHANGED vars
    BY <1>15, <1>q DEF vars, history
  <1> QED
    BY <1>1, <1>2, <1>3, <1>4, <1>5, <1>6, <1>7, <1>8, <1>9, <1>10, <1>11, <1>12, <1>13,
       <1>14, <1>15
       DEF Next, Lifecycle, ClientEvent, ServerEvent, handleClientEvent, handleServerEvent,
           HandlerStep

\* DeliveryInv holds in every reachable state.
LEMMA DeliveryInvariant == Spec => [](TypeOK /\ DeliveryInv)
  <1>1. Init => DeliveryInv
    <2> SUFFICES ASSUME Init PROVE DeliveryInv
      OBVIOUS
    <2>1. \A t \in Targets, i \in Nat, x \in Texts : ~Holds(t, i, x)
      <3>1. \A i \in Nat : i \notin 1..Len(<<>>)
        OBVIOUS
      <3> QED BY <3>1 DEF Init, Holds
    <2> QED BY <2>1 DEF Init, DeliveryInv, OnlyReceived, LoggedOnce, DeliveredIsPassed,
                        PassedIsWritten, Accounted, NothingSwallowed, NoDuplicates
  <1>2. TypeOK /\ DeliveryInv /\ [Next]_vars => DeliveryInv'
    BY DeliveryStep
  <1> QED BY <1>1, <1>2, TypeCorrect, PTL DEF Spec

\* Whatever is logged, replayed, cut short or crashed: a text reaches a client
\* a second time only if a replay that sent it ended without clearing the log.
THEOREM NoDuplicatesTheorem == Spec => []NoDuplicates
  <1>1. DeliveryInv => NoDuplicates
    BY DEF DeliveryInv
  <1> QED BY <1>1, DeliveryInvariant, PTL

\* The daemon's own writer included: a text that the proxy has handled was
\* delivered, waits in a log, was refused by the store, or was written without an
\* error to a client that was gone.
THEOREM TextsAccountedTheorem == Spec => []TextsAccounted
  <1>1. TypeOK /\ DeliveryInv => TextsAccounted
    <2> SUFFICES ASSUME TypeOK, DeliveryInv,
                        NEW x \in received, x \notin delivered \cup unstored \cup swallowed
                 PROVE  x \in LoggedTexts
      BY DEF TextsAccounted
    <2>1. PICK t \in Targets, i \in Nat : Holds(t, i, x)
      BY DEF DeliveryInv, Accounted
    <2>2. DOMAIN logs[t] = 1..Len(logs[t])
      BY LenProperties DEF TypeOK
    <2>3. x \in TextsOf(logs[t])
      BY <2>1, <2>2 DEF Holds, TextsOf
    <2> QED BY <2>3 DEF LoggedTexts
  <1> QED BY <1>1, DeliveryInvariant, PTL

\* With a writer that reports every write that does not get through, that is all
\* that can happen: no text is lost between sendClient, logMessage and replayLog.
COROLLARY NoMessageLostCorollary == Spec => [](WriteErrors => NoMessageLost)
  <1>1. DeliveryInv /\ TextsAccounted => (WriteErrors => NoMessageLost)
    BY DEF DeliveryInv, NothingSwallowed, TextsAccounted, NoMessageLost
  <1> QED BY <1>1, DeliveryInvariant, TextsAccountedTheorem, PTL

-----------------------------------------------------------------------------
(* The proxy as a user of the store.                                       *)

\* What is left of a sequence from its place i on, and from the next place on.
LEMMA TailOfRest ==
    ASSUME NEW S, NEW s \in Seq(S), NEW i \in 1..Len(s)
    PROVE  /\ SubSeq(s, i, Len(s)) # <<>>
           /\ Tail(SubSeq(s, i, Len(s))) = SubSeq(s, i + 1, Len(s))
  <1>1. Len(s) \in i..Len(s) /\ i \in Int /\ Len(s) \in Int
    BY LenProperties
  <1>2. Tail(SubSeq(s, i, Len(s))) = SubSeq(s, i + 1, Len(s))
    BY <1>1, HeadTailOfSubSeq
  <1>3. Len(SubSeq(s, i, Len(s))) # 0
    BY <1>1
  <1> QED BY <1>2, <1>3, EmptySeq

\* A cursor that moves on.
LEMMA CursorMoves ==
    ASSUME NEW S, NEW c \in [open : BOOLEAN, rest : S, ok : BOOLEAN], NEW t \in S
    PROVE  [c EXCEPT !.rest = t] = [open |-> c.open, rest |-> t, ok |-> c.ok]
  OBVIOUS

\* A step of module Store that also leaves the logs alone, but for one that a
\* replay has read to its end.
StoreStep ==
    /\ AsStore!StoreNext \/ UNCHANGED <<logs, Cursor>>
    /\ \A k \in Targets : Len(logs'[k]) < Len(logs[k]) =>
          Cursor.open /\ Cursor.ok /\ Cursor.rest = <<>> /\ logs'[k] = <<>>

\* What the handlers' writes, the peers and the clock do to the store: nothing.
LEMMA StoreIdle ==
    ASSUME TypeOK, UNCHANGED logs,
           task' = task \/ (task.at # "replay" /\ task'.at # "replay")
    PROVE  StoreStep
  <1>1. Cursor' = Cursor
    BY DEF Cursor, Log
  <1>2. \A k \in Targets : ~(Len(logs[k]) < Len(logs[k]))
    BY LenProperties DEF TypeOK
  <1> QED BY <1>1, <1>2 DEF StoreStep

\* replayLog asks for a cursor, which is at the first message.
LEMMA StoreReplay ==
    ASSUME TypeOK, NEW k \in Targets, UNCHANGED logs, task.at # "replay", task' = replayLog(k)
    PROVE  StoreStep
  <1>1. logs[k] \in Seq(LoggedMessages) /\ \A j \in Targets : ~(Len(logs[j]) < Len(logs[j]))
    BY LenProperties DEF TypeOK
  <1>2. SubSeq(logs[k], 1, Len(logs[k])) = logs[k]
    BY <1>1
  <1>3. Cursor' = [open |-> TRUE, rest |-> logs[k], ok |-> TRUE] /\ ~Cursor.open
    BY <1>2 DEF Cursor, Log, replayLog
  <1>4. AsStore!Replay(k)
    BY <1>3 DEF AsStore!Replay
  <1> QED BY <1>1, <1>4 DEF StoreStep, AsStore!StoreNext

\* logMessage appends.
LEMMA StoreLog ==
    ASSUME TypeOK, NEW m \in ServerMessages, logMessage(m), task.at # "replay", task' = task
    PROVE  StoreStep
  <1>1. Cursor' = Cursor
    BY DEF Cursor
  <1>2. CASE UNCHANGED logs
    BY <1>2, StoreIdle
  <1>3. CASE /\ m \in LoggedMessages
             /\ logs' = [logs EXCEPT ![m.target] = Append(@, m)]
    <2> DEFINE k == m.target
    <2>1. k \in Targets /\ logs[k] \in Seq(LoggedMessages)
      BY MessageFields DEF TypeOK
    <2> HIDE DEF k
    <2>2. logs' = [logs EXCEPT ![k] = Append(@, m)]
      BY <1>3 DEF k
    <2>3. logs'[k] = Append(logs[k], m) /\ \A j \in Targets : j # k => logs'[j] = logs[j]
      BY <2>1, <2>2 DEF TypeOK
    <2>4. Len(logs'[k]) = Len(logs[k]) + 1
      BY <2>1, <2>3, <1>3, AppendProperties
    <2>5. AsStore!LogMessage(k)
      BY <1>1, <1>3, <2>2, <2>4 DEF AsStore!LogMessage
    <2>6. \A j \in Targets : Len(logs[j]) \in Nat
      BY LenProperties DEF TypeOK
    <2>7. \A j \in Targets : ~(Len(logs'[j]) < Len(logs[j]))
      BY <2>3, <2>4, <2>6
    <2> QED BY <2>1, <2>5, <2>7 DEF StoreStep, AsStore!StoreNext
  <1> QED BY <1>2, <1>3 DEF logMessage, LoggedMessages

\* A message has been sent, and the cursor moves on.
LEMMA StoreAdvance ==
    ASSUME TypeOK, ReplaySend
    PROVE  StoreStep
  <1>1. /\ task.at = "replay" /\ task.next <= Len(Log) /\ UNCHANGED logs
        /\ task' = [task EXCEPT !.next = @ + 1]
    BY DEF ReplaySend
  <1>2. Log \in Seq(LoggedMessages) /\ task.next \in 1..Len(Log)
    BY <1>1, CurrentMessage
  <1>3. task'.at = "replay" /\ task'.name = task.name /\ task'.next = task.next + 1
    BY <1>1 DEF TypeOK, Tasks
  <1>4. Log' = Log
    BY <1>1, <1>3 DEF Log
  <1> DEFINE rest == SubSeq(Log, task.next, Len(Log))
  <1>5. rest # <<>> /\ Tail(rest) = SubSeq(Log, task.next + 1, Len(Log))
    BY <1>2, TailOfRest
  <1> HIDE DEF rest
  <1>6. Cursor = [open |-> TRUE, rest |-> rest, ok |-> TRUE]
    BY <1>1 DEF Cursor, rest
  <1>7. Cursor' = [open |-> TRUE, rest |-> Tail(rest), ok |-> TRUE]
    BY <1>3, <1>4, <1>5 DEF Cursor
  <1>8. AsStore!Advance
    <2>1. Cursor \in [open : BOOLEAN, rest : Seq(LoggedMessages), ok : BOOLEAN]
      BY <1>2, <1>6 DEF rest
    <2>2. /\ Cursor.rest = rest /\ Cursor.open = TRUE /\ Cursor.ok = TRUE
          /\ Tail(rest) \in Seq(LoggedMessages)
      <3>1. rest \in Seq(LoggedMessages)
        BY <1>2 DEF rest
      <3>2. Tail(rest) \in Seq(LoggedMessages)
        BY <1>5, <3>1, HeadTailProperties
      <3> QED BY <1>6, <3>2
    <2>5. Cursor' = [Cursor EXCEPT !.rest = Tail(@)]
      BY <1>7, <2>1, <2>2, CursorMoves
    <2>6. Cursor.open /\ Cursor.rest # <<>>
      BY <1>5, <1>6
    <2> QED BY <1>1, <2>5, <2>6 DEF AsStore!Advance
  <1>9. \A k \in Targets : ~(Len(logs[k]) < Len(logs[k]))
    BY LenProperties DEF TypeOK
  <1> QED BY <1>1, <1>8, <1>9 DEF StoreStep, AsStore!StoreNext

\* The replay ends early: its cursor is closed.
LEMMA StoreClose ==
    ASSUME TypeOK, UNCHANGED logs, task.at = "replay", task'.at # "replay"
    PROVE  StoreStep
  <1>1. Cursor.open /\ Cursor' = AsStore!closed
    BY DEF Cursor, AsStore!closed
  <1>2. \A k \in Targets : ~(Len(logs[k]) < Len(logs[k]))
    BY LenProperties DEF TypeOK
  <1> QED BY <1>1, <1>2 DEF StoreStep, AsStore!StoreNext, AsStore!Close

\* The replay is at the end of the log, and clears it.
LEMMA StoreClear ==
    ASSUME TypeOK, task.at = "replay", task.next > Len(Log), task'.at # "replay",
           logs' = [logs EXCEPT ![task.name] = <<>>]
    PROVE  StoreStep
  <1>1. /\ task.name \in Targets /\ task.next \in Nat
        /\ Log \in Seq(LoggedMessages) /\ Len(Log) \in Nat
    BY LenProperties DEF TypeOK, Tasks, Log
  <1>2. SubSeq(Log, task.next, Len(Log)) = <<>>
    BY <1>1
  <1>3. Cursor = [open |-> TRUE, rest |-> <<>>, ok |-> TRUE] /\ Cursor' = AsStore!closed
    BY <1>2 DEF Cursor, AsStore!closed
  <1>4. AsStore!Clear(task.name)
    BY <1>3 DEF AsStore!Clear
  <1>5. /\ logs'[task.name] = <<>>
        /\ \A k \in Targets : k # task.name => logs'[k] = logs[k]
    BY <1>1 DEF TypeOK
  <1>6. \A k \in Targets : ~(Len(logs[k]) < Len(logs[k]))
    BY LenProperties DEF TypeOK
  <1> QED BY <1>1, <1>3, <1>4, <1>5, <1>6 DEF StoreStep, AsStore!StoreNext

\* Every step of the proxy is one of these.
LEMMA StoreSteps ==
    ASSUME TypeOK, [Next]_vars
    PROVE  StoreStep
  <1> USE MessagesAssumption
  <1>1. CASE Accept \/ ClientGone \/ ServerGone \/ Tick \/ Environment \/ UNCHANGED vars
    BY <1>1, StoreIdle DEF Accept, ClientGone, ServerGone, Tick, Environment, ClientDies,
                           ServerDies, ClientDeadline, ServerDeadline, vars
  <1>2. CASE Stop
    BY <1>2, StoreIdle DEF Stop, InSelect, Select
  <1>3. CASE Restart \/ ReplayAborts \/ ReplayFails
    <2>1. task'.at # "replay" /\ UNCHANGED logs
      BY <1>3 DEF Restart, ReplayAborts, ReplayFails, Select
    <2> QED BY <2>1, StoreIdle, StoreClose
  <1>4. ASSUME NEW m \in ClientMsgs, handleClientEvent(m)
        PROVE  StoreStep
    <2>1. UNCHANGED logs /\ (task' = task \/ (task.at # "replay" /\ task'.at # "replay"))
      BY <1>4 DEF handleClientEvent, ClientInvalid, ClientIdles, ClientRegisters,
                  ClientReturns, ClientCommand, ClientJoin, ClientRejoin, ClientReads,
                  InSelect, Select
    <2> QED BY <2>1, StoreIdle
  <1>5. ASSUME NEW m \in ServerMsgs,
               ServerInvalid(m) \/ ServerKeepalive(m) \/ ServerForward(m) \/ ServerWelcome(m)
                 \/ ServerInfo(m)
        PROVE  StoreStep
    BY <1>5, StoreIdle DEF ServerInvalid, ServerKeepalive, ServerForward, ServerWelcome,
                           ServerInfo
  <1>6. ASSUME NEW m \in ServerMsgs, ServerEndOfMotd(m) \/ ServerEndOfNames(m)
        PROVE  StoreStep
    <2>1. task.at # "replay" /\ UNCHANGED logs
      BY <1>6 DEF ServerEndOfMotd, ServerEndOfNames, ServerReads, InSelect
    <2>2. \E k : task' = replayLog(k)
      BY <1>6 DEF ServerEndOfMotd, ServerEndOfNames
    <2>3. PICK k : task' = replayLog(k)
      BY <2>2
    <2>4. k \in Targets
      <3>1. task' \in Tasks /\ task'.at = "replay" /\ task'.name = k
        <4>1. TypeOK'
          BY <1>6, TypeStep, MessagesAssumption DEF AnyStep, handleServerEvent
        <4> QED BY <2>3, <4>1 DEF TypeOK, replayLog
      <3> QED BY <3>1 DEF Tasks
    <2> QED BY <2>1, <2>3, <2>4, StoreReplay
  <1>7. ASSUME NEW m \in ServerMsgs, ServerText(m) \/ ServerMembership(m)
        PROVE  StoreStep
    <2>1. task.at # "replay" /\ task' = task /\ (UNCHANGED logs \/ logMessage(m))
      BY <1>7 DEF ServerText, ServerMembership, ServerReads, InSelect
    <2> QED BY <2>1, StoreIdle, StoreLog
  <1>8. CASE rejoinChannel
    <2>1. /\ task.at = "names" /\ UNCHANGED logs
          /\ task' = replayLog(task.name) \/ task' = Select
      BY <1>8 DEF rejoinChannel
    <2>2. task.name \in Targets
      BY <2>1 DEF TypeOK, Tasks, Targets
    <2> QED BY <2>1, <2>2, StoreIdle, StoreReplay DEF Select
  <1>9. CASE ReplaySend
    BY <1>9, StoreAdvance
  <1>10. CASE ReplayEnds
    BY <1>10, StoreClear, StoreClose DEF ReplayEnds, Select
  <1> QED
    BY <1>1, <1>2, <1>3, <1>4, <1>5, <1>6, <1>7, <1>8, <1>9, <1>10
       DEF Next, Lifecycle, ClientEvent, ServerEvent, handleServerEvent, HandlerStep

\* The proxy keeps to the contract of the store, and empties only a log whose
\* messages a replay has sent, whatever happens to its connections and wherever
\* it is stopped or killed.
THEOREM UsesStoreTheorem == Spec => UsesStore
  <1>1. Init => AsStore!StoreInit
    <2> SUFFICES ASSUME Init PROVE AsStore!StoreInit
      OBVIOUS
    <2>1. task.at = "select" /\ logs = [t \in Targets |-> <<>>]
      BY DEF Init, Select
    <2>2. Cursor = AsStore!closed
      BY <2>1 DEF Cursor, AsStore!closed
    <2> QED BY <2>1, <2>2 DEF AsStore!StoreInit
  <1>2. TypeOK /\ [Next]_vars => StoreStep
    BY StoreSteps
  <1>3. StoreStep => [AsStore!StoreNext]_(AsStore!storeVars)
    BY DEF StoreStep, AsStore!storeVars
  <1> QED
    BY <1>1, <1>2, <1>3, TypeCorrect, PTL
       DEF Spec, UsesStore, AsStore!ReplayedStoreSpec, AsStore!StoreSpec,
           AsStore!ClearedWhenRead, StoreStep

=============================================================================
