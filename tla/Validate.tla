------------------------------ MODULE Validate ------------------------------
(***************************************************************************)
(* Message.Validate (irc/validate.go) and what the code behind it relies   *)
(* on: the handlers and the sessions index Params without looking at its   *)
(* length.  A message is its command and the number of its parameters.     *)
(***************************************************************************)
EXTENDS Naturals

CONSTANTS
    FromServer, \* commands that the server sends
    FromClient  \* commands that the client sends

VARIABLES
    message,    \* the message that was read, and who sent it
    outcome     \* "read", "handled", "refused", or "panicked"

validateVars == <<message, outcome>>

-----------------------------------------------------------------------------

\* Mutant: the replies to NAMES are forgotten.
minParamsNoNames(cmd) ==
    CASE cmd \in {"PASS", "JOIN", "NICK"} -> 1
      [] cmd \in {"PRIVMSG", "NOTICE", "RPL_WELCOME", "RPL_YOURHOST", "RPL_CREATED"} -> 2
      [] cmd = "RPL_TOPIC" -> 3
      [] cmd = "USER" -> 4
      [] cmd = "RPL_MYINFO" -> 5
      [] OTHER -> 0

\* The table; Go's map yields 0 for a command that is not in it.
minParams(cmd) ==
    CASE cmd \in {"PASS", "JOIN", "NICK"} -> 1
      [] cmd \in {"PRIVMSG", "NOTICE", "RPL_WELCOME", "RPL_YOURHOST", "RPL_CREATED"} -> 2
      [] cmd \in {"RPL_TOPIC", "RPL_ENDOFNAMES"} -> 3
      [] cmd \in {"USER", "RPL_NAMEREPLY"} -> 4
      [] cmd = "RPL_MYINFO" -> 5
      [] OTHER -> 0

MaxParams == 15

\* Validate returns nil.
Valid(m) == m.cmd # "" /\ m.params <= MaxParams /\ m.params >= minParams(m.cmd)

\* How many parameters there must be for no index to be out of range: in the
\* sessions that a server's message updates, in handleServerEvent and logMessage,
ServerNeeds(cmd) ==
    CASE cmd \in {"JOIN", "PART", "KICK", "NICK", "PRIVMSG", "NOTICE", "RPL_MYINFO"} -> 1
      [] cmd \in {"RPL_WELCOME", "RPL_YOURHOST", "RPL_CREATED", "RPL_ENDOFNAMES"} -> 2
      [] cmd = "RPL_TOPIC" -> 3
      [] cmd = "RPL_NAMEREPLY" -> 4
      [] OTHER -> 0

\* and in handleClientEvent.
ClientNeeds(cmd) == IF cmd = "JOIN" THEN 1 ELSE 0

Needs(m) == IF m.server THEN ServerNeeds(m.cmd) ELSE ClientNeeds(m.cmd)

ValidateInit ==
    /\ outcome = "read"
    /\ message \in [server : {TRUE}, cmd : FromServer, params : 0..MaxParams + 1]
               \cup [server : {FALSE}, cmd : FromClient, params : 0..MaxParams + 1]

Refuse ==
    /\ outcome = "read" /\ ~Valid(message)
    /\ outcome' = "refused"
    /\ UNCHANGED message

\* The handler runs; Go panics at an index that is out of range.
Handle ==
    /\ outcome = "read" /\ Valid(message)
    /\ outcome' = IF message.params >= Needs(message) THEN "handled" ELSE "panicked"
    /\ UNCHANGED message

ValidateNext == Refuse \/ Handle

ValidateSpec == ValidateInit /\ [][ValidateNext]_validateVars

-----------------------------------------------------------------------------

\* "Minimum number of arguments for the command are supplied, if the command is
\* known": no handler indexes a parameter that a valid message does not have, but
\* for those of a server's PART or KICK that come without any: minParams does not
\* list the two, and the session indexes their first parameter.
ParamsSuffice ==
    outcome = "panicked" => message.server /\ message.cmd \in {"PART", "KICK"} /\ message.params = 0

=============================================================================
