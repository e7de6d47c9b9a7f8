----------------------------- MODULE Sandstorm -----------------------------
(***************************************************************************)
(* The Sandstorm daemon (cmd/sandstorm-irc-idler/main.go) and its web UI   *)
(* (sandstorm/webui/webui.go): HTTP handlers, each a goroutine of its own, *)
(* that talk over unbuffered channels to the select loop of main, and the  *)
(* proxy daemons that main stops and starts when the settings change.      *)
(*                                                                         *)
(* A daemon is what main can see of module Proxy: it takes a stop or a     *)
(* connection only in its select, is "busy" while a handler runs, and may  *)
(* be "stuck" in a write to a peer that does not read.                     *)
(***************************************************************************)
EXTENDS Naturals, FiniteSets

CONSTANTS
    Requests,   \* concurrent HTTP requests
    Configs,    \* server configurations with a port
    Zero,       \* the zero configuration, whose port is 0
    Broken,     \* what a configuration file holds after a write was cut short
    Caps,       \* ipNetwork capabilities
    NoCap,      \* nil
    Slots,      \* bound on the daemons that exist at once
    MaySave     \* {TRUE}, or {TRUE, FALSE} if the file may not be writable

ASSUME SandstormAssumption ==
    /\ Zero \notin Configs /\ Broken \notin Configs \cup {Zero}
    /\ NoCap \notin Caps
    /\ "none" \notin Slots \cup Requests
    /\ MaySave \subseteq BOOLEAN

VARIABLES
    main,           \* where main is, the connection that it is passing on, and
                    \* the capability that it is saving
    serverConfig,
    ipNetwork,
    daemon,         \* the daemon that main knows, or none
    daemons,        \* all the daemons
    req,            \* the HTTP handlers
    conn,           \* the websocket of a /connect request
    file,           \* serverConfigFile
    lastSet,        \* history: the configuration that a user set last
    saved           \* history: and none has been set since one was saved without error

history == <<lastSet, saved>>
vars == <<main, serverConfig, ipNetwork, daemon, daemons, req, conn, file, history>>

none == "none"

Running  == {"select", "busy", "stuck"}
Arguments == Configs \cup {Zero} \cup Caps \cup {none}

TypeOK ==
    /\ main \in [at : {"select", "saveCap", "save", "write", "newDaemon", "send"},
                conn : Requests \cup {none}, cap : Caps \cup {NoCap}]
    /\ serverConfig \in Configs \cup {Zero}
    /\ ipNetwork \in Caps \cup {NoCap}
    /\ daemon \in Slots \cup {none}
    /\ daemons \in [Slots -> [at : Running \cup {"stopping", "gone"}, config : Configs \cup {Zero},
                              cap : Caps \cup {NoCap}, client : Requests \cup {none}]]
    /\ req \in [Requests -> [kind : {none, "index", "settings", "cap", "connect"},
                             at : {"idle", "wait", "second", "open"}, arg : Arguments]]
    /\ conn \in [Requests -> {"none", "open", "closed"}]
    /\ file \in Configs \cup {Zero, Broken}
    /\ lastSet \in Configs \cup {Zero}
    /\ saved \in BOOLEAN

-----------------------------------------------------------------------------
(* The web UI.                                                             *)

Idle == [kind |-> none, at |-> "idle", arg |-> none]

\* Mutant: any port is accepted.
ValidateAny(config) == config \in Configs \cup {Zero}

Validate(config) == config # Zero

\* A handler starts, and reaches its first channel operation.  A form that
\* Validate rejects and a capability that cannot be claimed are answered at once.
Arrives(r) ==
    /\ req[r].at = "idle"
    /\ \E kind \in {"index", "settings", "cap", "connect"}, arg \in Arguments :
         /\ CASE kind = "settings" -> arg \in Configs \cup {Zero} /\ Validate(arg)
              [] kind = "cap" -> arg \in Caps
              [] OTHER -> arg = none
         /\ req' = [req EXCEPT ![r] = [kind |-> kind, at |-> "wait", arg |-> arg]]
    /\ UNCHANGED <<main, serverConfig, ipNetwork, daemon, daemons, conn, file, history>>

\* The websocket was closed, so /connect's handler returns.
Disconnected(r) ==
    /\ req[r].at = "open" /\ conn[r] = "closed"
    /\ req' = [req EXCEPT ![r] = Idle]
    /\ conn' = [conn EXCEPT ![r] = "none"]
    /\ UNCHANGED <<main, serverConfig, ipNetwork, daemon, daemons, file, history>>

-----------------------------------------------------------------------------
(* main's select loop.                                                     *)

Select == [at |-> "select", conn |-> none, cap |-> NoCap]

Waits(r, kind) == main.at = "select" /\ req[r].kind = kind /\ req[r].at = "wait"

AnswerNetwork(r) ==
    /\ Waits(r, "index")
    /\ req' = [req EXCEPT ![r].at = "second"]
    /\ UNCHANGED <<main, serverConfig, ipNetwork, daemon, daemons, conn, file, history>>

AnswerConfig(r) ==
    /\ main.at = "select" /\ req[r].at = "second"
    /\ req' = [req EXCEPT ![r] = Idle]
    /\ UNCHANGED <<main, serverConfig, ipNetwork, daemon, daemons, conn, file, history>>

TakeCap(r) ==
    /\ Waits(r, "cap")
    /\ main' = [main EXCEPT !.at = "saveCap", !.cap = req[r].arg]
    /\ req' = [req EXCEPT ![r] = Idle]
    /\ UNCHANGED <<serverConfig, ipNetwork, daemon, daemons, conn, file, history>>

\* The call of Sandstorm returns, with an error or without one; the capability is
\* used, and nothing reads back what was saved.
saveIpNetwork ==
    /\ main.at = "saveCap"
    /\ ipNetwork' = main.cap
    /\ main' = [main EXCEPT !.at = IF serverConfig # Zero THEN "newDaemon" ELSE "select",
                            !.cap = NoCap]
    /\ UNCHANGED <<serverConfig, daemon, daemons, req, conn, file, history>>

\* The handler is answered; the file is as it was.
TakeConfig(r) ==
    /\ Waits(r, "settings")
    /\ serverConfig' = req[r].arg
    /\ lastSet' = req[r].arg
    /\ saved' = FALSE
    /\ main' = [main EXCEPT !.at = "save"]
    /\ req' = [req EXCEPT ![r] = Idle]
    /\ UNCHANGED <<ipNetwork, daemon, daemons, conn, file>>

\* Where main goes when saveServerConfig has returned: a failure to save is logged,
\* and the new configuration used all the same.
Configured == main' = [main EXCEPT !.at = IF ipNetwork # NoCap THEN "newDaemon" ELSE "select"]

\* WriteFile opens the file, which truncates it; or Marshal or the open fails, and
\* the file keeps what it held.
saveServerConfig ==
    /\ main.at = "save"
    /\ \/ file' = Broken /\ main' = [main EXCEPT !.at = "write"]
       \/ FALSE \in MaySave /\ UNCHANGED file /\ Configured
    /\ UNCHANGED <<serverConfig, ipNetwork, daemon, daemons, req, conn, history>>

\* The rest of WriteFile.  An error may be one of the write, which was cut short,
\* or of the close after it.
WriteFile ==
    /\ main.at = "write"
    /\ saved' \in MaySave
    /\ file' \in IF saved' THEN {serverConfig} ELSE {serverConfig, Broken}
    /\ Configured
    /\ UNCHANGED <<serverConfig, ipNetwork, daemon, daemons, req, conn, lastSet>>

\* Mutant: a connection that nobody can take is forgotten.
TakeConnForgets(r) ==
    /\ Waits(r, "connect")
    /\ req' = [req EXCEPT ![r].at = "open"]
    /\ conn' = [conn EXCEPT ![r] = "open"]
    /\ main' = IF daemon = none THEN main ELSE [main EXCEPT !.at = "send", !.conn = r]
    /\ UNCHANGED <<serverConfig, ipNetwork, daemon, daemons, file, history>>

TakeConn(r) ==
    /\ Waits(r, "connect")
    /\ req' = [req EXCEPT ![r].at = "open"]
    /\ conn' = [conn EXCEPT ![r] = IF daemon = none THEN "closed" ELSE "open"]
    /\ main' = IF daemon = none THEN main ELSE [main EXCEPT !.at = "send", !.conn = r]
    /\ UNCHANGED <<serverConfig, ipNetwork, daemon, daemons, file, history>>

\* The websockets after a daemon has closed its client and taken taken.
Booted(client, taken) ==
    [r \in Requests |-> IF r = client /\ r # taken THEN "closed" ELSE conn[r]]

\* The daemon's accept case: the old client is booted, and the new one too if
\* the server cannot be connected to.
SendConn ==
    /\ main.at = "send"
    /\ daemons[daemon].at = "select"
    /\ \/ /\ conn' = Booted(daemons[daemon].client, main.conn)
          /\ daemons' = [daemons EXCEPT ![daemon].client = main.conn]
       \/ /\ conn' = [Booted(daemons[daemon].client, main.conn) EXCEPT ![main.conn] = "closed"]
          /\ daemons' = [daemons EXCEPT ![daemon].client = none]
    /\ main' = Select
    /\ UNCHANGED <<serverConfig, ipNetwork, daemon, req, file, history>>

\* Mutant: Stop does not wait for the daemon to be in its select.
StopDaemonAtOnce ==
    /\ main.at = "newDaemon" /\ daemon # none
    /\ daemon' = none
    /\ UNCHANGED <<main, serverConfig, ipNetwork, daemons, req, conn, file, history>>

\* Mutant: a daemon with a client does not look at its stop channel.
StopDaemonWhenIdle ==
    /\ main.at = "newDaemon" /\ daemon # none
    /\ daemons[daemon].at = "select" /\ daemons[daemon].client = none
    /\ daemons' = [daemons EXCEPT ![daemon].at = "stopping"]
    /\ daemon' = none
    /\ UNCHANGED <<main, serverConfig, ipNetwork, req, conn, file, history>>

\* newDaemon: Stop blocks until the daemon is in its select.
StopDaemon ==
    /\ main.at = "newDaemon" /\ daemon # none
    /\ daemons[daemon].at = "select"
    /\ daemons' = [daemons EXCEPT ![daemon].at = "stopping"]
    /\ daemon' = none
    /\ UNCHANGED <<main, serverConfig, ipNetwork, req, conn, file, history>>

StartDaemon ==
    /\ main.at = "newDaemon" /\ daemon = none
    /\ \E d \in Slots :
         /\ daemons[d].at = "gone"
         /\ daemon' = d
         /\ daemons' = [daemons EXCEPT ![d] = [at |-> "select", config |-> serverConfig,
                                               cap |-> ipNetwork, client |-> none]]
    /\ main' = [main EXCEPT !.at = "select"]
    /\ UNCHANGED <<serverConfig, ipNetwork, req, conn, file, history>>

-----------------------------------------------------------------------------
(* The daemons.                                                            *)

NoDaemon == [at |-> "gone", config |-> Zero, cap |-> NoCap, client |-> none]

\* An event is handled; a write may block until its peer reads.
Handle(d) ==
    /\ daemons[d].at \in Running
    /\ \/ daemons[d].at = "select" /\ daemons' = [daemons EXCEPT ![d].at = "busy"]
       \/ daemons[d].at = "busy"   /\ daemons' = [daemons EXCEPT ![d].at = "stuck"]
       \/ daemons[d].at = "stuck"  /\ daemons' = [daemons EXCEPT ![d].at = "busy"]
    /\ UNCHANGED <<main, serverConfig, ipNetwork, daemon, req, conn, file, history>>

\* The handler returns, its client dropped or not.
Return(d) ==
    /\ daemons[d].at = "busy"
    /\ \/ /\ daemons' = [daemons EXCEPT ![d].at = "select"]
          /\ UNCHANGED conn
       \/ /\ daemons' = [daemons EXCEPT ![d].at = "select", ![d].client = none]
          /\ conn' = Booted(daemons[d].client, none)
    /\ UNCHANGED <<main, serverConfig, ipNetwork, daemon, req, file, history>>

\* Run has received the stop: reset, and the end of the goroutine.
Reset(d) ==
    /\ daemons[d].at = "stopping"
    /\ daemons' = [daemons EXCEPT ![d] = NoDaemon]
    /\ conn' = Booted(daemons[d].client, none)
    /\ UNCHANGED <<main, serverConfig, ipNetwork, daemon, req, file, history>>

-----------------------------------------------------------------------------

NoDaemons == [d \in Slots |-> NoDaemon]

\* Mutant: the error of Unmarshal is overlooked.
loadServerConfigRaw(f) == f

loadServerConfig(f) == IF f = Broken THEN Zero ELSE f

\* main starts.  The capability is not restored, so there is no daemon yet.
Start ==
    /\ main' = Select
    /\ serverConfig' = loadServerConfig(file)
    /\ ipNetwork' = NoCap
    /\ daemon' = none
    /\ daemons' = NoDaemons
    /\ req' = [r \in Requests |-> Idle]
    /\ conn' = [r \in Requests |-> "none"]

\* The grain is shut down or crashes at any point, and is started again.
Crash == Start /\ UNCHANGED <<file, history>>

Init ==
    /\ main = Select
    /\ serverConfig = Zero /\ ipNetwork = NoCap
    /\ daemon = none /\ daemons = NoDaemons
    /\ req = [r \in Requests |-> Idle]
    /\ conn = [r \in Requests |-> "none"]
    /\ file = Zero /\ lastSet = Zero /\ saved = TRUE

Takes(r) == AnswerNetwork(r) \/ AnswerConfig(r) \/ TakeCap(r) \/ TakeConfig(r) \/ TakeConn(r)

\* main on its way back to its select.
MainStep == saveIpNetwork \/ saveServerConfig \/ WriteFile \/ SendConn \/ StopDaemon \/ StartDaemon

Next ==
    \/ \E r \in Requests : Arrives(r) \/ Disconnected(r) \/ Takes(r)
    \/ MainStep
    \/ \E d \in Slots : Handle(d) \/ Return(d) \/ Reset(d)
    \/ Crash

Spec == Init /\ [][Next]_vars

\* Go's select chooses among the cases that are ready at random, so a case that
\* is ready again and again is chosen; main and the daemons run on, a handler of
\* a daemon makes finitely many writes, so it returns unless one of them blocks
\* for ever.  Sandstorm answers a call, and a file is written or not, in the end.
FairSpec ==
    /\ Spec
    /\ SF_vars(MainStep)
    /\ \A r \in Requests : SF_vars(Takes(r))
    /\ \A d \in Slots : SF_vars(Return(d) \/ Reset(d))

-----------------------------------------------------------------------------
(* Properties                                                              *)

\* At most one daemon can touch the message store: Stop returns only when the
\* old one is done with it ("Clients of these interfaces must handle
\* synchronization themselves").
OneUserOfStore == Cardinality({d \in Slots : daemons[d].at \in Running}) <= 1

\* Whenever main is in its select, the daemon that runs uses main's settings, and
\* there is one if and only if they have a port and there is a network.  They are
\* the ones that a user set last: once these have been saved without an error, no
\* crash changes that.  Before, a crash may leave those on file, or none.
RunsCurrentSettings ==
    main.at = "select" =>
        /\ serverConfig = lastSet \/ (~saved /\ serverConfig \in {file, Zero} \ {Broken})
        /\ daemon # none <=> serverConfig # Zero /\ ipNetwork # NoCap
        /\ daemon # none => /\ daemons[daemon].at \in Running
                            /\ daemons[daemon].config = serverConfig
                            /\ daemons[daemon].cap = ipNetwork

\* Every open websocket is somebody's: main is passing it on, or a daemon that
\* has not finished holds it, so its handler's wait for Done ends.
NoOrphanedSocket ==
    \A r \in Requests : conn[r] = "open" =>
        \/ main.conn = r
        \/ \E d \in Slots : daemons[d].at # "gone" /\ daemons[d].client = r

Waiting(r) == req[r].at \in {"wait", "second"}

\* Every page and form is answered, unless some daemon stays in a write for ever:
\* main's own waiting, for a daemon to stop or to take a connection, always ends.
RequestsAnswered ==
    ([]<>(\A d \in Slots : daemons[d].at # "stuck"))
        => \A r \in Requests : Waiting(r) ~> ~Waiting(r)

=============================================================================
