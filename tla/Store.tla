------------------------------- MODULE Store -------------------------------
(***************************************************************************)
(* What a message store promises (storage/storage.go): for every name a    *)
(* log that LogMessage appends to and Clear empties, and cursors that read *)
(* a log from its first message to its last.  A cursor reads the log as it *)
(* was when Replay made it, whatever is logged or cleared afterwards.      *)
(***************************************************************************)
EXTENDS Naturals, Sequences

CONSTANTS
    Keys,       \* names of logs
    Entries     \* messages

VARIABLES
    log,        \* the messages of every log
    cursor      \* the one cursor: what it has still to return, and then whether
                \* it reports the end of the log or (ok = FALSE) an error

storeVars == <<log, cursor>>

closed == [open |-> FALSE, rest |-> <<>>, ok |-> TRUE]
failed == [open |-> TRUE,  rest |-> <<>>, ok |-> FALSE]

StoreTypeOK ==
    /\ log \in [Keys -> Seq(Entries)]
    /\ cursor \in [open : BOOLEAN, rest : Seq(Entries), ok : BOOLEAN]

LogMessage(k) ==
    /\ Len(log'[k]) = Len(log[k]) + 1
    /\ \E m \in Entries : log' = [log EXCEPT ![k] = Append(@, m)]
    /\ UNCHANGED cursor

\* The cursor points at the first message.
Replay(k) ==
    /\ ~cursor.open
    /\ cursor' \in {[open |-> TRUE, rest |-> log[k], ok |-> TRUE], failed}
    /\ UNCHANGED log

\* Get returned Head(cursor.rest), and the cursor moves on or breaks.
Advance ==
    /\ cursor.open /\ cursor.rest # <<>>
    /\ cursor' \in {[cursor EXCEPT !.rest = Tail(@)], failed}
    /\ UNCHANGED log

Close ==
    /\ cursor.open
    /\ cursor' = closed
    /\ UNCHANGED log

\* The reader may close its cursor in the same step.
Clear(k) ==
    /\ log' = [log EXCEPT ![k] = <<>>]
    /\ cursor' \in {cursor, closed}

StoreInit ==
    /\ log = [k \in Keys |-> <<>>]
    /\ cursor = closed

StoreNext ==
    \/ \E k \in Keys : LogMessage(k) \/ Replay(k) \/ Clear(k)
    \/ Advance \/ Close

StoreSpec == StoreInit /\ [][StoreNext]_storeVars

\* A log loses messages only in a step that ends a replay which has read all of
\* it without an error: what replayLog deletes has been sent.
ClearedWhenRead ==
    [][ \A k \in Keys : Len(log'[k]) < Len(log[k]) =>
            cursor.open /\ cursor.ok /\ cursor.rest = <<>> /\ log'[k] = <<>> ]_storeVars

\* A store and a user who clears only what was read.
ReplayedStoreSpec == StoreSpec /\ ClearedWhenRead

=============================================================================
