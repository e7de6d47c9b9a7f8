-------------------------- MODULE SandstormProofs --------------------------
(***************************************************************************)
(* Theorems about the Sandstorm daemon, for any number of requests,        *)
(* configurations, capabilities and daemons.                               *)
(***************************************************************************)
EXTENDS Sandstorm, FiniteSetTheorems, TLAPS

\* What a handler that waits for main has sent it.
PendingOK ==
    \A r \in Requests : req[r].at = "wait" =>
        /\ req[r].kind = "settings" => req[r].arg \in Configs
        /\ req[r].kind = "cap" => req[r].arg \in Caps

\* The connection that main is passing on, the daemon that it is meant for, and the
\* capability that is being saved.
PassingOK ==
    /\ main.at # "send" => main.conn = none
    /\ main.at = "send" => daemon # none
    /\ main.at = "saveCap" => main.cap \in Caps

\* main's daemon is the one that runs.
DaemonOK ==
    \A d \in Slots : daemons[d].at \in Running <=> d = daemon

\* What the settings, the file and the daemon have to do with each other,
\* wherever main is.
SettingsOK ==
    /\ saved => serverConfig = lastSet /\ file = lastSet
    /\ serverConfig \in {lastSet, loadServerConfig(file)}
    /\ main.at \in {"save", "write"} => serverConfig = lastSet /\ ~saved
    /\ main.at \in {"save", "write", "newDaemon"} => serverConfig # Zero
    /\ main.at = "newDaemon" => ipNetwork # NoCap
    /\ daemon # none => serverConfig # Zero /\ ipNetwork # NoCap
    /\ main.at \in {"select", "send"} =>
          /\ serverConfig # Zero /\ ipNetwork # NoCap => daemon # none
          /\ daemon # none => /\ daemons[daemon].config = serverConfig
                              /\ daemons[daemon].cap = ipNetwork

\* The inductive invariant.
SInv ==
    /\ TypeOK
    /\ PendingOK
    /\ PassingOK
    /\ DaemonOK
    /\ SettingsOK
    /\ NoOrphanedSocket

-----------------------------------------------------------------------------

\* The initial state, and the one after a crash.
LEMMA SInit == Init => SInv
  <1> SUFFICES ASSUME Init PROVE SInv
    OBVIOUS
  <1> USE SandstormAssumption
      DEF SandstormAssumption, Init, Select, none, NoDaemon, NoDaemons, Idle
  <1>1. TypeOK
    BY DEF TypeOK, Running, Arguments
  <1>2. PendingOK /\ PassingOK /\ DaemonOK
    BY DEF PendingOK, PassingOK, DaemonOK, Running
  <1>3. SettingsOK /\ NoOrphanedSocket
    BY DEF SettingsOK, loadServerConfig, NoOrphanedSocket
  <1> QED BY <1>1, <1>2, <1>3 DEF SInv

\* The types of what main and the daemons are.
LEMMA SFields ==
    ASSUME TypeOK
    PROVE  /\ main.at \in {"select", "saveCap", "save", "write", "newDaemon", "send"}
           /\ main.conn \in Requests \cup {none} /\ main.cap \in Caps \cup {NoCap}
           /\ main = [at |-> main.at, conn |-> main.conn, cap |-> main.cap]
           /\ \A r \in Requests : /\ req[r].kind \in {none, "index", "settings", "cap", "connect"}
                                  /\ req[r].at \in {"idle", "wait", "second", "open"}
                                  /\ req[r].arg \in Arguments
           /\ \A d \in Slots : /\ daemons[d].at \in Running \cup {"stopping", "gone"}
                               /\ daemons[d].client \in Requests \cup {none}
  BY DEF TypeOK

\* The rows of daemons, and what a change of one of them leaves alone.
Daemon == [at : Running \cup {"stopping", "gone"}, config : Configs \cup {Zero},
           cap : Caps \cup {NoCap}, client : Requests \cup {none}]

LEMMA DaemonChanges ==
    ASSUME NEW table \in [Slots -> Daemon], NEW d \in Slots, NEW row \in Daemon
    PROVE  /\ [table EXCEPT ![d] = row] \in [Slots -> Daemon]
           /\ [table EXCEPT ![d] = row][d] = row
           /\ \A e \in Slots : e # d => [table EXCEPT ![d] = row][e] = table[e]
  OBVIOUS

\* The web handlers' own steps, and those of main that answer or save, change
\* neither the daemons nor the sockets.
LEMMA SRequests ==
    ASSUME SInv, NEW r \in Requests,
           Arrives(r) \/ AnswerNetwork(r) \/ AnswerConfig(r)
    PROVE  SInv'
  <1> USE SandstormAssumption DEF SandstormAssumption, history
  <1>1. UNCHANGED <<main, serverConfig, ipNetwork, daemon, daemons, conn, file, history>>
    BY DEF Arrives, AnswerNetwork, AnswerConfig
  <1>2. req' \in [Requests -> [kind : {none, "index", "settings", "cap", "connect"},
                               at : {"idle", "wait", "second", "open"}, arg : Arguments]]
    <2>1. CASE Arrives(r)
      BY <2>1 DEF SInv, TypeOK, Arrives, Arguments, none
    <2>2. CASE AnswerNetwork(r) \/ AnswerConfig(r)
      BY <2>2 DEF SInv, TypeOK, AnswerNetwork, AnswerConfig, Idle, Arguments, none
    <2> QED BY <2>1, <2>2
  <1>3. PendingOK'
    <2>1. CASE Arrives(r)
      BY <2>1 DEF SInv, TypeOK, PendingOK, Arrives, Validate
    <2>2. CASE AnswerNetwork(r) \/ AnswerConfig(r)
      BY <2>2 DEF SInv, TypeOK, PendingOK, AnswerNetwork, AnswerConfig, Idle, none
    <2> QED BY <2>1, <2>2
  <1>4. TypeOK'
    BY <1>1, <1>2 DEF SInv, TypeOK
  <1>5. PassingOK' /\ DaemonOK' /\ SettingsOK' /\ NoOrphanedSocket'
    BY <1>1 DEF SInv, PassingOK, DaemonOK, SettingsOK, NoOrphanedSocket
  <1> QED BY <1>3, <1>4, <1>5 DEF SInv

\* A socket that was closed is removed with its handler.
LEMMA SDisconnected ==
    ASSUME SInv, NEW r \in Requests, Disconnected(r)
    PROVE  SInv'
  <1> USE SandstormAssumption DEF SandstormAssumption, history
  <1>1. UNCHANGED <<main, serverConfig, ipNetwork, daemon, daemons, file, history>>
    BY DEF Disconnected
  <1>2. TypeOK'
    BY DEF SInv, TypeOK, Disconnected, Idle, Arguments, none
  <1>3. PendingOK'
    BY DEF SInv, TypeOK, PendingOK, Disconnected, Idle, none
  <1>4. PassingOK' /\ DaemonOK' /\ SettingsOK'
    BY <1>1 DEF SInv, PassingOK, DaemonOK, SettingsOK
  <1>5. NoOrphanedSocket'
    BY DEF SInv, TypeOK, NoOrphanedSocket, Disconnected
  <1> QED BY <1>2, <1>3, <1>4, <1>5 DEF SInv

\* A new capability, which is about to be saved.
LEMMA STakeCap ==
    ASSUME SInv, NEW r \in Requests, TakeCap(r)
    PROVE  SInv'
  <1> USE SandstormAssumption DEF SandstormAssumption, history
  <1>1. /\ main.at = "select" /\ main'.conn = main.conn /\ main'.at = "saveCap"
        /\ main'.cap \in Caps
        /\ main' \in [at : {"saveCap"}, conn : Requests \cup {none}, cap : Caps]
    BY SFields DEF SInv, TakeCap, Waits, PendingOK
  <1>2. UNCHANGED <<serverConfig, ipNetwork, daemon, daemons, conn, file, lastSet, saved>>
    BY DEF TakeCap, history
  <1>3. req' = [req EXCEPT ![r] = Idle]
    BY DEF TakeCap
  <1>4. TypeOK'
    BY <1>1, <1>2, <1>3 DEF SInv, TypeOK, Idle, Arguments, none
  <1>5. PendingOK'
    BY <1>3 DEF SInv, TypeOK, PendingOK, Idle, none
  <1>6. PassingOK' /\ DaemonOK' /\ NoOrphanedSocket'
    BY <1>1, <1>2 DEF SInv, PassingOK, DaemonOK, NoOrphanedSocket
  <1>7. SettingsOK'
    BY <1>1, <1>2 DEF SInv, SettingsOK
  <1> QED BY <1>4, <1>5, <1>6, <1>7 DEF SInv

\* The capability is used: a daemon can run with it if there are settings.
LEMMA SSaveCap ==
    ASSUME SInv, saveIpNetwork
    PROVE  SInv'
  <1> USE SandstormAssumption DEF SandstormAssumption, history
  <1>1. /\ main.at = "saveCap" /\ main'.conn = main.conn
        /\ main'.at = IF serverConfig # Zero THEN "newDaemon" ELSE "select"
        /\ main' \in [at : {"select", "newDaemon"}, conn : Requests \cup {none},
                      cap : Caps \cup {NoCap}]
        /\ ipNetwork' \in Caps
    BY SFields DEF SInv, saveIpNetwork, PassingOK
  <1>2. UNCHANGED <<serverConfig, daemon, daemons, req, conn, file, lastSet, saved>>
    BY DEF saveIpNetwork, history
  <1>3. TypeOK'
    BY <1>1, <1>2 DEF SInv, TypeOK
  <1>4. PendingOK' /\ PassingOK' /\ DaemonOK' /\ NoOrphanedSocket'
    BY <1>1, <1>2 DEF SInv, PendingOK, PassingOK, DaemonOK, NoOrphanedSocket
  <1>5. SettingsOK'
    BY <1>1, <1>2 DEF SInv, SettingsOK
  <1> QED BY <1>3, <1>4, <1>5 DEF SInv

\* New settings, which are about to be saved: the file holds what it held.
LEMMA STakeConfig ==
    ASSUME SInv, NEW r \in Requests, TakeConfig(r)
    PROVE  SInv'
  <1> USE SandstormAssumption DEF SandstormAssumption, history
  <1>1. /\ main.at = "select" /\ main'.conn = main.conn /\ main'.at = "save"
        /\ main' \in [at : {"save"}, conn : Requests \cup {none}, cap : Caps \cup {NoCap}]
        /\ serverConfig' \in Configs /\ lastSet' = serverConfig' /\ saved' = FALSE
    BY SFields DEF SInv, TakeConfig, Waits, PendingOK
  <1>2. UNCHANGED <<ipNetwork, daemon, daemons, conn, file>> /\ req' = [req EXCEPT ![r] = Idle]
    BY DEF TakeConfig
  <1>3. TypeOK'
    BY <1>1, <1>2 DEF SInv, TypeOK, Idle, Arguments, none
  <1>4. PendingOK'
    BY <1>2 DEF SInv, TypeOK, PendingOK, Idle, none
  <1>5. PassingOK' /\ DaemonOK' /\ NoOrphanedSocket'
    BY <1>1, <1>2 DEF SInv, PassingOK, DaemonOK, NoOrphanedSocket
  <1>6. SettingsOK'
    BY <1>1, <1>2 DEF SInv, SettingsOK
  <1> QED BY <1>3, <1>4, <1>5, <1>6 DEF SInv

\* A connection, which waits for the daemon or is closed.
LEMMA STakeConn ==
    ASSUME SInv, NEW r \in Requests, TakeConn(r)
    PROVE  SInv'
  <1> USE SandstormAssumption DEF SandstormAssumption, history
  <1>1. /\ main.at = "select" /\ main.conn = none
        /\ main' = IF daemon = none THEN main ELSE [main EXCEPT !.at = "send", !.conn = r]
        /\ conn' = [conn EXCEPT ![r] = IF daemon = none THEN "closed" ELSE "open"]
        /\ req' = [req EXCEPT ![r].at = "open"]
        /\ UNCHANGED <<serverConfig, ipNetwork, daemon, daemons, file, history>>
    BY DEF SInv, PassingOK, TakeConn, Waits
  <1>2. TypeOK'
    <2>1. main' \in [at : {"select", "saveCap", "save", "write", "newDaemon", "send"},
                    conn : Requests \cup {none}, cap : Caps \cup {NoCap}]
      BY <1>1 DEF SInv, TypeOK
    <2> QED BY <1>1, <2>1 DEF SInv, TypeOK, Arguments, none
  <1>3. PendingOK'
    BY <1>1 DEF SInv, TypeOK, PendingOK
  <1>4. PassingOK' /\ DaemonOK'
    BY <1>1 DEF SInv, PassingOK, DaemonOK
  <1>5. SettingsOK'
    BY <1>1 DEF SInv, SettingsOK, none
  <1>6. NoOrphanedSocket'
    <2>1. \A q \in Requests : q # r => conn'[q] = conn[q]
      BY <1>1 DEF SInv, TypeOK
    <2>2. conn'[r] = "open" => main'.conn = r
      BY <1>1 DEF SInv, TypeOK
    <2> QED BY <1>1, <2>1, <2>2 DEF SInv, NoOrphanedSocket, none
  <1> QED BY <1>2, <1>3, <1>4, <1>5, <1>6 DEF SInv

\* The settings are written: into a file that the open has truncated, or has not.
LEMMA SSave ==
    ASSUME SInv, saveServerConfig \/ WriteFile
    PROVE  SInv'
  <1> USE SandstormAssumption DEF SandstormAssumption, history
  <1>1. /\ main.at \in {"save", "write"} /\ main'.conn = main.conn
        /\ main'.at \in {"write", IF ipNetwork # NoCap THEN "newDaemon" ELSE "select"}
        /\ main' \in [at : {"write", "select", "newDaemon"}, conn : Requests \cup {none},
                      cap : Caps \cup {NoCap}]
        /\ file' \in {file, serverConfig, Broken} /\ saved' \in BOOLEAN
        /\ saved' => file' = serverConfig \/ saved
        /\ main'.at = "write" => ~saved'
        /\ UNCHANGED <<serverConfig, ipNetwork, daemon, daemons, req, conn, lastSet>>
    <2>1. CASE saveServerConfig
      BY <2>1, SFields DEF SInv, TypeOK, SettingsOK, saveServerConfig, Configured, history
    <2>2. CASE WriteFile
      BY <2>2, SFields DEF SInv, WriteFile, Configured
    <2> QED BY <2>1, <2>2
  <1>2. TypeOK'
    BY <1>1 DEF SInv, TypeOK
  <1>3. PendingOK' /\ PassingOK' /\ DaemonOK' /\ NoOrphanedSocket'
    BY <1>1 DEF SInv, PendingOK, PassingOK, DaemonOK, NoOrphanedSocket
  <1>4. SettingsOK'
    BY <1>1 DEF SInv, SettingsOK, loadServerConfig
  <1> QED BY <1>2, <1>3, <1>4 DEF SInv

\* A step that changes main, one daemon and the sockets keeps what does not
\* concern them.
LEMMA SDaemonStep ==
    ASSUME SInv, UNCHANGED <<serverConfig, ipNetwork, req, file, history>>,
           TypeOK', PassingOK', DaemonOK', SettingsOK', NoOrphanedSocket'
    PROVE  SInv'
  BY DEF SInv, PendingOK

\* The sockets that Booted closes are the old client's.
LEMMA BootedSockets ==
    ASSUME TypeOK, NEW client, NEW taken
    PROVE  /\ Booted(client, taken) \in [Requests -> {"none", "open", "closed"}]
           /\ \A r \in Requests : Booted(client, taken)[r] = "open" =>
                 conn[r] = "open" /\ (r # client \/ r = taken)
  BY DEF Booted, TypeOK

\* The daemon takes the connection: its old client is booted, and the new one
\* too if there is no server.
LEMMA SSendConn ==
    ASSUME SInv, SendConn
    PROVE  SInv'
  <1> USE SandstormAssumption DEF SandstormAssumption, history
  <1> DEFINE boot == Booted(daemons[daemon].client, main.conn)
  <1>1. /\ main.at = "send" /\ daemon \in Slots /\ daemons[daemon].at = "select"
        /\ main' = Select
        /\ UNCHANGED <<serverConfig, ipNetwork, daemon, req, file, history>>
    BY DEF SInv, TypeOK, PassingOK, SendConn
  <1>2. /\ boot \in [Requests -> {"none", "open", "closed"}]
        /\ \A r \in Requests : boot[r] = "open" =>
              conn[r] = "open" /\ (r # daemons[daemon].client \/ r = main.conn)
    BY BootedSockets DEF SInv
  <1>3. \/ conn' = boot /\ daemons' = [daemons EXCEPT ![daemon].client = main.conn]
        \/ /\ conn' = [boot EXCEPT ![main.conn] = "closed"]
           /\ daemons' = [daemons EXCEPT ![daemon].client = none]
    BY DEF SendConn
  <1> HIDE DEF boot
  <1>4. /\ conn' \in [Requests -> {"none", "open", "closed"}]
        /\ daemons' \in [Slots -> Daemon]
        /\ \A d \in Slots : /\ daemons'[d].at = daemons[d].at
                            /\ daemons'[d].config = daemons[d].config
                            /\ daemons'[d].cap = daemons[d].cap
                            /\ d # daemon => daemons'[d].client = daemons[d].client
    <2>1. PICK x \in Requests \cup {none} : daemons' = [daemons EXCEPT ![daemon].client = x]
      BY <1>3, SFields DEF SInv
    <2>2. daemons \in [Slots -> Daemon] /\ daemon \in Slots
      BY <1>1 DEF SInv, TypeOK, Daemon
    <2> DEFINE row == [daemons[daemon] EXCEPT !.client = x]
    <2>6. /\ row \in Daemon /\ row.config = daemons[daemon].config
          /\ row.cap = daemons[daemon].cap /\ row.at = daemons[daemon].at
      BY <2>2 DEF Daemon
    <2>7. daemons' = [daemons EXCEPT ![daemon] = row]
      BY <2>1
    <2> HIDE DEF row
    <2>3. /\ daemons' \in [Slots -> Daemon] /\ daemons'[daemon] = row
          /\ \A e \in Slots : e # daemon => daemons'[e] = daemons[e]
      BY <2>2, <2>6, <2>7, DaemonChanges
    <2>4. \A d \in Slots : /\ daemons'[d].at = daemons[d].at
                           /\ daemons'[d].config = daemons[d].config
                           /\ daemons'[d].cap = daemons[d].cap
                           /\ d # daemon => daemons'[d].client = daemons[d].client
      BY <2>3, <2>6
    <2>5. conn' \in [Requests -> {"none", "open", "closed"}]
      BY <1>2, <1>3
    <2> QED BY <2>3, <2>4, <2>5
  <1>5. TypeOK'
    BY <1>1, <1>4 DEF SInv, TypeOK, Daemon, Select, none
  <1>6. PassingOK' /\ DaemonOK'
    BY <1>1, <1>4 DEF SInv, PassingOK, DaemonOK, Select
  <1>7. SettingsOK'
    BY <1>1, <1>4 DEF SInv, SettingsOK, Select
  <1>8. NoOrphanedSocket'
    <2> SUFFICES ASSUME NEW r \in Requests, conn'[r] = "open"
                 PROVE  \E d \in Slots : daemons'[d].at # "gone" /\ daemons'[d].client = r
      BY DEF NoOrphanedSocket
    <2>1. /\ boot[r] = "open"
          /\ r = main.conn => daemons'[daemon].client = r
      BY <1>1, <1>2, <1>3 DEF SInv, TypeOK
    <2>2. CASE r = main.conn
      BY <1>1, <1>4, <2>1, <2>2
    <2>3. CASE r # main.conn
      <3>1. PICK d \in Slots : daemons[d].at # "gone" /\ daemons[d].client = r
        BY <1>2, <2>1, <2>3 DEF SInv, NoOrphanedSocket
      <3>2. d # daemon
        BY <1>2, <2>1, <2>3, <3>1
      <3> QED BY <1>4, <3>1, <3>2
    <2> QED BY <2>2, <2>3
  <1> QED BY <1>1, <1>5, <1>6, <1>7, <1>8, SDaemonStep

\* main's daemon is told to stop, and main knows none.
LEMMA SStopDaemon ==
    ASSUME SInv, StopDaemon
    PROVE  SInv'
  <1> USE SandstormAssumption DEF SandstormAssumption, history
  <1>1. /\ main.at = "newDaemon" /\ daemon \in Slots /\ daemon' = none
        /\ daemons[daemon].at = "select"
        /\ daemons' = [daemons EXCEPT ![daemon].at = "stopping"]
        /\ UNCHANGED <<main, serverConfig, ipNetwork, req, conn, file, history>>
    BY DEF SInv, TypeOK, StopDaemon
  <1>2. TypeOK'
    <2> DEFINE row == [daemons[daemon] EXCEPT !.at = "stopping"]
    <2>1. daemons \in [Slots -> Daemon] /\ row \in Daemon
      BY <1>1 DEF SInv, TypeOK, Daemon
    <2>2. daemons' = [daemons EXCEPT ![daemon] = row]
      BY <1>1
    <2> HIDE DEF row
    <2>3. daemons' \in [Slots -> Daemon]
      BY <1>1, <2>1, <2>2, DaemonChanges
    <2> QED BY <1>1, <2>3 DEF SInv, TypeOK, Daemon
  <1>3. /\ daemons'[daemon].at = "stopping"
        /\ \A d \in Slots : /\ daemons'[d].client = daemons[d].client
                            /\ d # daemon => daemons'[d].at = daemons[d].at
    BY <1>1 DEF SInv, TypeOK
  <1>4. PassingOK' /\ DaemonOK'
    BY <1>1, <1>3 DEF SInv, PassingOK, DaemonOK, Running, none
  <1>5. SettingsOK'
    BY <1>1 DEF SInv, SettingsOK, none
  <1>6. NoOrphanedSocket'
    BY <1>1, <1>3 DEF SInv, NoOrphanedSocket
  <1> QED BY <1>1, <1>2, <1>4, <1>5, <1>6, SDaemonStep

\* A new daemon runs the settings that main has.
LEMMA SStartDaemon ==
    ASSUME SInv, StartDaemon
    PROVE  SInv'
  <1> USE SandstormAssumption DEF SandstormAssumption, history
  <1>1. PICK d \in Slots :
          /\ daemons[d].at = "gone"
          /\ daemon' = d
          /\ daemons' = [daemons EXCEPT ![d] = [at |-> "select", config |-> serverConfig,
                                                cap |-> ipNetwork, client |-> none]]
    BY DEF StartDaemon
  <1>2. /\ main.at = "newDaemon" /\ daemon = none
        /\ main'.at = "select" /\ main'.conn = main.conn
        /\ main' \in [at : {"select"}, conn : Requests \cup {none}, cap : Caps \cup {NoCap}]
        /\ UNCHANGED <<serverConfig, ipNetwork, req, conn, file, history>>
    BY SFields DEF SInv, StartDaemon
  <1>3. TypeOK'
    BY <1>1, <1>2 DEF SInv, TypeOK, Running
  <1>4. /\ daemons'[d].at = "select" /\ daemons'[d].config = serverConfig
        /\ daemons'[d].cap = ipNetwork
        /\ \A e \in Slots : e # d => daemons'[e] = daemons[e]
    BY <1>1 DEF SInv, TypeOK
  <1>5. PassingOK' /\ DaemonOK'
    BY <1>1, <1>2, <1>4 DEF SInv, PassingOK, DaemonOK, Running, none
  <1>6. SettingsOK'
    <2>1. d # none
      BY DEF none
    <2>2. /\ serverConfig # Zero /\ ipNetwork # NoCap
          /\ saved => serverConfig = lastSet /\ file = lastSet
          /\ serverConfig \in {lastSet, loadServerConfig(file)}
      BY <1>2 DEF SInv, SettingsOK
    <2> QED BY <1>1, <1>2, <1>4, <2>1, <2>2 DEF SettingsOK
  <1>7. NoOrphanedSocket'
    BY <1>1, <1>2, <1>4 DEF SInv, NoOrphanedSocket
  <1> QED BY <1>2, <1>3, <1>5, <1>6, <1>7, SDaemonStep

\* A daemon at work, which may close its client.
LEMMA SDaemonWorks ==
    ASSUME SInv, NEW d \in Slots, Handle(d) \/ Return(d) \/ Reset(d)
    PROVE  SInv'
  <1> USE SandstormAssumption DEF SandstormAssumption, history
  <1>0. UNCHANGED <<main, serverConfig, ipNetwork, daemon, req, file, history>>
    BY DEF Handle, Return, Reset
  <1>1. \/ UNCHANGED conn /\ daemons'[d].client = daemons[d].client /\ daemons'[d].at # "gone"
        \/ conn' = Booted(daemons[d].client, none)
    BY DEF SInv, TypeOK, Handle, Return, Reset
  <1>2. /\ daemons[d].at \in Running <=> daemons'[d].at \in Running
        /\ d = daemon => /\ daemons'[d].config = daemons[d].config
                         /\ daemons'[d].cap = daemons[d].cap
        /\ \A e \in Slots : e # d => daemons'[e] = daemons[e]
    BY DEF SInv, TypeOK, DaemonOK, Handle, Return, Reset, NoDaemon, Running
  <1>3. TypeOK'
    <2>0. daemons \in [Slots -> Daemon]
      BY DEF SInv, TypeOK, Daemon
    <2>1. PICK a \in {"select", "busy", "stuck"} :
             \/ daemons' = [daemons EXCEPT ![d].at = a]
             \/ daemons' = [daemons EXCEPT ![d].at = a, ![d].client = none]
             \/ daemons' = [daemons EXCEPT ![d] = NoDaemon]
      BY DEF Handle, Return, Reset
    <2> DEFINE moved   == [daemons[d] EXCEPT !.at = a]
               dropped == [daemons[d] EXCEPT !.at = a, !.client = none]
    <2>3. moved \in Daemon /\ dropped \in Daemon /\ NoDaemon \in Daemon
      BY <2>0 DEF Daemon, Running, NoDaemon, none
    <2>4. \/ daemons' = [daemons EXCEPT ![d] = moved]
          \/ daemons' = [daemons EXCEPT ![d] = dropped]
          \/ daemons' = [daemons EXCEPT ![d] = NoDaemon]
      BY <2>0, <2>1
    <2> HIDE DEF moved, dropped
    <2>5. daemons' \in [Slots -> Daemon]
      BY <2>0, <2>3, <2>4, DaemonChanges
    <2>2. conn' \in [Requests -> {"none", "open", "closed"}]
      BY <1>1, BootedSockets DEF SInv, TypeOK
    <2> QED BY <1>0, <2>2, <2>5 DEF SInv, TypeOK, Daemon
  <1>4. PassingOK'
    BY <1>0 DEF SInv, PassingOK
  <1>5. DaemonOK'
    <2>1. \A e \in Slots : daemons'[e].at \in Running <=> daemons[e].at \in Running
      BY <1>2
    <2> QED BY <1>0, <2>1 DEF SInv, DaemonOK
  <1>6. SettingsOK'
    <2>1. \A e \in Slots : e = daemon => /\ daemons'[e].config = daemons[e].config
                                         /\ daemons'[e].cap = daemons[e].cap
      BY <1>2
    <2>2. daemon \in Slots \cup {none}
      BY DEF SInv, TypeOK
    <2> QED BY <1>0, <2>1, <2>2 DEF SInv, SettingsOK
  <1>7. NoOrphanedSocket'
    <2> SUFFICES ASSUME NEW r \in Requests, conn'[r] = "open"
                 PROVE  \/ main.conn = r
                        \/ \E e \in Slots : daemons'[e].at # "gone" /\ daemons'[e].client = r
      BY <1>0 DEF NoOrphanedSocket
    <2>1. CASE UNCHANGED conn /\ daemons'[d].client = daemons[d].client /\ daemons'[d].at # "gone"
      BY <1>2, <2>1 DEF SInv, NoOrphanedSocket
    <2>2. CASE conn' = Booted(daemons[d].client, none)
      <3>1. conn[r] = "open" /\ (r # daemons[d].client \/ r = none)
        BY <2>2, BootedSockets DEF SInv
      <3>2. r # none
        BY DEF none
      <3>3. CASE main.conn = r
        BY <3>3
      <3>4. CASE main.conn # r
        <4>1. PICK e \in Slots : daemons[e].at # "gone" /\ daemons[e].client = r
          BY <3>1, <3>4 DEF SInv, NoOrphanedSocket
        <4> QED BY <1>2, <3>1, <3>2, <4>1
      <3> QED BY <3>3, <3>4
    <2> QED BY <1>1, <2>1, <2>2
  <1> QED BY <1>0, <1>3, <1>4, <1>5, <1>6, <1>7, SDaemonStep

\* The grain is restarted: the settings are those on file, or none if it is broken.
LEMMA SCrash ==
    ASSUME SInv, Crash
    PROVE  SInv'
  <1> USE SandstormAssumption
      DEF SandstormAssumption, Crash, Start, Select, none, NoDaemon, NoDaemons, Idle, history
  <1>1. /\ serverConfig' = loadServerConfig(file) /\ serverConfig' \in Configs \cup {Zero}
        /\ UNCHANGED <<file, lastSet, saved>>
        /\ saved => serverConfig' = lastSet /\ file = lastSet
    BY DEF SInv, TypeOK, SettingsOK, loadServerConfig
  <1>2. TypeOK'
    BY <1>1 DEF SInv, TypeOK, Running, Arguments
  <1>3. PendingOK' /\ PassingOK' /\ DaemonOK'
    BY DEF PendingOK, PassingOK, DaemonOK, Running
  <1>4. SettingsOK'
    BY <1>1 DEF SettingsOK
  <1>5. NoOrphanedSocket'
    BY DEF NoOrphanedSocket
  <1> QED BY <1>2, <1>3, <1>4, <1>5 DEF SInv

\* SInv holds in every reachable state.
LEMMA SInvariant == Spec => []SInv
  <1>1. SInv /\ [Next]_vars => SInv'
    <2> SUFFICES ASSUME SInv, [Next]_vars PROVE SInv'
      OBVIOUS
    <2>1. CASE UNCHANGED vars
      BY <2>1 DEF vars, history, SInv, TypeOK, PendingOK, PassingOK, DaemonOK, SettingsOK,
                  NoOrphanedSocket
    <2> QED
      BY <2>1, SRequests, SDisconnected, STakeCap, STakeConfig, STakeConn, SSave, SSendConn,
         SStopDaemon, SStartDaemon, SDaemonWorks, SCrash, SSaveCap DEF Next, Takes, MainStep
  <1> QED BY <1>1, SInit, PTL DEF Spec

-----------------------------------------------------------------------------

\* What main, the handlers and the daemons pass to each other has its type.
THEOREM SandstormTypes == Spec => []TypeOK
  <1>1. SInv => TypeOK
    BY DEF SInv
  <1> QED BY <1>1, SInvariant, PTL

\* newDaemon's order, stop the old daemon and only then start the new one, keeps
\* the message store in the hands of one, whoever is connected or crashes.
THEOREM OneUserTheorem == Spec => []OneUserOfStore
  <1>1. SInv => OneUserOfStore
    <2> SUFFICES ASSUME SInv PROVE OneUserOfStore
      OBVIOUS
    <2> DEFINE users == {d \in Slots : daemons[d].at \in Running}
    <2>1. users \subseteq {daemon}
      BY DEF SInv, DaemonOK
    <2>2. IsFiniteSet({daemon}) /\ Cardinality({daemon}) = 1
      BY FS_Singleton
    <2>3. Cardinality(users) <= Cardinality({daemon})
      BY <2>1, <2>2, FS_Subset
    <2> QED BY <2>2, <2>3 DEF OneUserOfStore
  <1> QED BY <1>1, SInvariant, PTL

\* Whenever main is back in its select, the daemon that runs has main's settings,
\* and these are the ones that were set last, whatever was submitted meanwhile and
\* wherever the grain was killed, once they have been saved.
THEOREM CurrentSettingsTheorem == Spec => []RunsCurrentSettings
  <1>1. SInv => RunsCurrentSettings
    <2> SUFFICES ASSUME SInv PROVE RunsCurrentSettings
      OBVIOUS
    <2>1. serverConfig = lastSet \/ (~saved /\ serverConfig \in {file, Zero} \ {Broken})
      BY SandstormAssumption
         DEF SandstormAssumption, SInv, TypeOK, SettingsOK, loadServerConfig
    <2> QED BY <2>1 DEF SInv, TypeOK, DaemonOK, SettingsOK, RunsCurrentSettings
  <1> QED BY <1>1, SInvariant, PTL

\* No websocket is forgotten: as long as it is open, main is passing it on or a
\* daemon that will close it in the end has it.
THEOREM NoOrphanTheorem == Spec => []NoOrphanedSocket
  <1>1. SInv => NoOrphanedSocket
    BY DEF SInv
  <1> QED BY <1>1, SInvariant, PTL

=============================================================================
