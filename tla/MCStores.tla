------------------------------ MODULE MCStores ------------------------------
(***************************************************************************)
(* The two message stores, for TLC: the daemon uses the one or the other,  *)
(* so one of them is in its initial state.                                 *)
(***************************************************************************)
EXTENDS SqlStore

CONSTANTS Unset, MaxArrays, MaxLen

VARIABLES heap, channels, msgs, i, reading

Memory == INSTANCE Ephemeral

ASSUME MemoryAssumption == Memory!EphemeralAssumption

memoryVars == <<heap, channels, msgs, i, reading>>

StoresInit == SqlInit /\ Memory!NewStore

StoresNext ==
    \/ Memory!NewStore /\ SqlNext /\ UNCHANGED memoryVars
    \/ SqlInit /\ Memory!EphemeralNext /\ UNCHANGED sqlVars

StoresSpec == StoresInit /\ [][StoresNext]_<<sqlVars, memoryVars>>

\* The store in memory is a store: in particular an open cursor never sees what
\* LogMessage and Clear do to the array that it shares with the log.
MemoryImplementsStore == Memory!ImplementsStore

=============================================================================
