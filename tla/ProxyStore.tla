---------------------------- MODULE ProxyStore -----------------------------
(***************************************************************************)
(* The proxy as a user of the message store: its logs, and the position of *)
(* the replay in progress as a cursor, behave like module Store.           *)
(***************************************************************************)
EXTENDS Proxy

\* The cursor of replayLog.
Cursor ==
    [open |-> task.at = "replay",
     rest |-> IF task.at = "replay" THEN SubSeq(Log, task.next, Len(Log)) ELSE <<>>,
     ok   |-> TRUE]

AsStore == INSTANCE Store WITH
    Keys <- Targets, Entries <- LoggedMessages, log <- logs, cursor <- Cursor

\* The proxy reads and writes its logs as a store allows, one cursor at a time,
\* and empties a log only when all of it has been sent, whatever happens to its
\* connections and wherever it is stopped or killed: no message that is logged
\* between two replays is deleted by the end of the first.
UsesStore == AsStore!ReplayedStoreSpec

=============================================================================
