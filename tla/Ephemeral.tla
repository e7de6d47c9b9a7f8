----------------------------- MODULE Ephemeral -----------------------------
(***************************************************************************)
(* The store that keeps its logs in memory (storage/ephemeral): a map from *)
(* names to Go slices, and cursors that hold a slice of their own.  Slices *)
(* share arrays: an append writes into the array if it has room and        *)
(* otherwise copies it, so a cursor may look into an array that is being   *)
(* written to.  Heap addresses are indices of the sequence heap.           *)
(***************************************************************************)
EXTENDS Naturals, Sequences

CONSTANTS
    Keys,       \* names of logs
    Entries,    \* messages
    Unset,      \* an array element that no append has written
    MaxArrays,  \* bound on the arrays that are ever allocated
    MaxLen      \* bound on the length of a log

\* What is assumed of them.
EphemeralAssumption ==
    /\ Unset \notin Entries
    /\ MaxArrays \in Nat
    /\ MaxLen \in Nat

VARIABLES
    heap,       \* the arrays
    channels,   \* the map of store: a slice for every name
    msgs,       \* the slice of the cursor
    i,          \* the index of the cursor
    reading     \* there is a cursor that has not been closed

ephemeralVars == <<heap, channels, msgs, i, reading>>

Slices == [addr : Nat, len : Nat]

nil == [addr |-> 0, len |-> 0]

\* The elements of a slice.
Elements(s) == IF s = nil THEN <<>> ELSE SubSeq(heap[s.addr], 1, s.len)

NewStore ==
    /\ heap = <<>>
    /\ channels = [k \in Keys |-> nil]
    /\ msgs = nil
    /\ i = 0
    /\ reading = FALSE

\* append: in place, or into a new array of twice the capacity.
AppendInPlace(k, m) ==
    LET s == channels[k] IN
      /\ s.len < Len(heap[s.addr])
      /\ heap' = [heap EXCEPT ![s.addr][s.len + 1] = m]
      /\ channels' = [channels EXCEPT ![k].len = @ + 1]

AppendCopy(k, m) ==
    LET s == channels[k] IN
      /\ s.len = Len(heap[s.addr])
      /\ heap' = Append(heap, Elements(s) \o <<m>> \o [j \in 1..(s.len - 1) |-> Unset])
      /\ channels' = [channels EXCEPT ![k] = [addr |-> Len(heap) + 1, len |-> s.len + 1]]

LogMessage(k, m) ==
    /\ \/ /\ channels[k] = nil
          /\ heap' = Append(heap, <<m>>)
          /\ channels' = [channels EXCEPT ![k] = [addr |-> Len(heap) + 1, len |-> 1]]
       \/ /\ channels[k] # nil
          /\ AppendInPlace(k, m) \/ AppendCopy(k, m)
    /\ UNCHANGED <<msgs, i, reading>>

\* Mutant: the log's slice is emptied, and its array used again.
ClearTruncates(k) ==
    /\ channels' = [channels EXCEPT ![k].len = 0]
    /\ UNCHANGED <<heap, msgs, i, reading>>

Clear(k) ==
    /\ channels' = [channels EXCEPT ![k] = nil]
    /\ UNCHANGED <<heap, msgs, i, reading>>

\* A nil slice stands for EmptyCursor too.
Replay(k) ==
    /\ ~reading
    /\ msgs' = channels[k]
    /\ i' = 0
    /\ reading' = TRUE
    /\ UNCHANGED <<heap, channels>>

\* Get has returned a message, and the cursor moves on.
Advance ==
    /\ reading /\ i < msgs.len
    /\ i' = i + 1
    /\ UNCHANGED <<heap, channels, msgs, reading>>

Close ==
    /\ reading
    /\ msgs' = nil /\ i' = 0 /\ reading' = FALSE
    /\ UNCHANGED <<heap, channels>>

\* Named bounds: memory and the length of a log.
Room(k) == Len(heap) < MaxArrays /\ channels[k].len < MaxLen

EphemeralNext ==
    \/ \E k \in Keys : \/ \E m \in Entries : Room(k) /\ LogMessage(k, m)
                       \/ Replay(k) \/ Clear(k)
    \/ Advance \/ Close

EphemeralSpec == NewStore /\ [][EphemeralNext]_ephemeralVars

-----------------------------------------------------------------------------

Logs == [k \in Keys |-> Elements(channels[k])]

\* What the cursor is still going to return.  It reports no errors.
Cursor == [open |-> reading, rest |-> SubSeq(Elements(msgs), i + 1, msgs.len), ok |-> TRUE]

Abstract == INSTANCE Store WITH log <- Logs, cursor <- Cursor

\* The store in memory is a store: in particular an open cursor never sees what
\* LogMessage and Clear do to the array that it shares with the log.
ImplementsStore == Abstract!StoreSpec

=============================================================================
