# IRC Idler: TLA+ models, checks and proofs

IRC Idler is an IRC proxy that stays connected to an IRC server while its user's
client comes and goes, logs what the user misses and replays it when the client
is back. This directory models it in TLA+, model-checks small instances with TLC
and proves properties of all instances with TLAPS. Paths such as
`proxy/proxy.go` are relative to the repository.

## Inventory

| part | state | operations | modelled in |
|---|---|---|---|
| Proxy daemon, `proxy/proxy.go` | two `connection`s (transport, session, deadlines), `preLogSession`, cached welcome replies, message store | the cases of `Run`'s select; `handleClientEvent`, `handleServerEvent`, `checkTimeout`, `rejoinChannel`, `replayLog`, `logMessage`, `dropClient`, `reset`, `Stop` | `Proxy`; its deadlines in time in `Keepalive` |
| Session tracking, `proxy/state` | nick, three handshake flags, map of channels with topic and users | `UpdateFromClient`, `UpdateFromServer`, `GetChannel`, `DeleteChannel` | `Session` |
| IRC server, client and other users (outside the repository) | who is registered under which nick and in which channel | answer a login, a JOIN, a PART, a KICK, a NICK, MOTD; tell us of the others | `Network`, composed with `Proxy` |
| Message store, `storage`, `storage/ephemeral`, `storage/sql` | a sequence of messages per channel or nick, a cursor | `LogMessage`, `Replay`, cursor `Get`/`Next`/`Close`, `Clear` | `Store` (the interface), `Ephemeral`, `SqlStore`; as used by the proxy, `ProxyStore` |
| Reader goroutine, `irc/helpers.go`, and `connection.setup`/`shutdown` | scanner buffer, unbuffered channel | `ReadAll`, the drain in `shutdown` | `Reader`; what it promises, `Link` |
| Messages, `irc/message.go`, `irc/validate.go`, `irc/numeric_replies.go` | none | `ReadMessage`, `parseMessage`, `WriteTo`, `Len`, `Validate` | `Codec`, `Validate` |
| Client ids and masks, `irc/clientid.go`, `irc/mask` | none | `ParseClientID`, `String`, `ToRegexp` | `Names` |
| Filters, `irc/filters` | a quota, a timer | `RateLimit`; `AutoPing`, `AutoPong` | `Filters`; `PingPong` |
| Sandstorm daemon, `cmd/sandstorm-irc-idler`, `sandstorm/webui` | the running proxy, its configuration, the network capability, a settings file | `newDaemon`, the select loop, the web handlers that block on it | `Sandstorm` |
| Command line daemon, TLS dialer, pingpong-inspector | none | wiring and I/O | not modelled |

How they interact. One goroutine runs `Proxy.Run`. It selects between a new
client connection, a message (or the end of input) from the client's and from
the server's reader goroutine, a ticker, and `Stop`. A handler runs to its end
before the next event, and it writes to the peers and to the store directly and
synchronously. So there is no concurrency between handlers, and everything hard
comes from outside: peers that send anything in any order, peers that vanish
before, between or during writes without the proxy noticing, answers that arrive
for a client that has been replaced, deadlines that pass, a store that fails, and
a process that is killed or restarted with the logs kept. `Session` values exist
three times: what the server believes, what the client believes, and
`preLogSession`, the state before the first message in the logs. Most of the
correctness of the program is that these three stay in the right relation. Around
that goroutine are the readers, one per connection, which it must drain, and in
the Sandstorm daemon the main loop, which stops and starts proxies, hands them
websockets over an unbuffered channel, and is itself waited for by HTTP handlers.

What makes the parts correct:

- connections: a client never stays without a server; a server without a client
  is fully registered; a registered session is not lost through a client;
- handshake: client and server agree until the server's handshake is done; a
  login ends, for the proxy when it ends for the server;
- view: the proxy knows our nick, our channels and their users as the server does;
- logs: nothing is lost, nothing is delivered twice without cause, a log is
  emptied only when it was read; both stores behave as one store;
- rejoin: what the log starts from is what the client was last told;
- keepalive: nobody is dropped who was not asked or has answered; who is silent is;
- goroutines: handlers return, readers end, requests are answered;
- texts: what is parsed is what was there, and what is written can be read.

`PROJECT.json` lists the hazards by line, with the properties about each.

## Modules

**`Session`** holds the message and session types and the functions of
`proxy/state`, under the names of the source. A message is a record of command,
prefix (the nick that `ParseClientID` finds in it, or `None`), target (the
channel or nick the handlers index by) and argument (text, topic or user). A Go
map entry that is absent is `NoChannel`, so `HaveChannel` is a field.

**`Proxy`** holds the daemon. The variable `p` is the `Proxy` struct; its methods
(`dropClient`, `reset`, `sendClient`, `sendServer`, ...) are functions from
struct to struct with the names of the source, so that an action reads like its
handler: `sendClient(fromServer(p, m), m)`. `logs` is the store. `task` says
where `Run` is: in its select, in `rejoinChannel` between the JOIN and the names,
in `replayLog` at a cursor position, or returned.

| source | actions |
|---|---|
| `Run`: accept, ticker, stop | `Accept`, `Tick`, `Stop` |
| `NewProxy` on an old store | `Restart` (after `Stop`, or a kill at any point) |
| `handleClientEvent` | `ClientGone`, `ClientInvalid`, `ClientCommand`, `ClientJoin`, `ClientRejoin` |
| `handleHandshakeMessage` | `ClientIdles`, `ClientRegisters`, `ClientReturns` |
| `rejoinChannel` | `ClientRejoin`, `rejoinChannel` |
| `handleServerEvent` | `ServerGone`, `ServerInvalid`, `ServerKeepalive`, `ServerForward`, `ServerWelcome`, `ServerInfo`, `ServerEndOfMotd`, `ServerEndOfNames`, `ServerText`, `ServerMembership` |
| `replayLog` | `ReplaySend`, `ReplayAborts`, `ReplayFails`, `ReplayEnds` |
| the peers and time (external) | `ClientDies`, `ServerDies`, `ClientDeadline`, `ServerDeadline` |

Granularity. An event and its handler are one step. The two handlers that write
many messages take several, because the client can die and the process can be
killed in between. Groups of messages that change no session (the cached welcome
sequence) or that leave `preLogSession` as it is (topic and names in a rejoin)
are one step: a failure in the middle leaves the same state as one at the start,
since the client's session is emptied.

Peers. In `Proxy` the server and the client are unconstrained: any message of
`ServerMsgs` and `ClientMsgs` may arrive at any time. What holds here holds for
every peer, well behaved or not. A link that dies does so silently (`alive`
becomes false); the proxy finds out by the end of input, by a failed write, or by
the keepalive.

Writers. `WriteErrors` says whether `WriteMessage` reports a write to a dead peer.
It is `TRUE` for a writer that keeps to the interface (as the channels in the
repository's tests do) and `FALSE` for the daemon's own `ioWriter`, see Findings.
What holds with either is `TextsAccounted`, which counts what was written to a dead
client without an error (`swallowed`); `NoMessageLost` is what the code means.

History variables (`received`, `delivered`, `resent`, `cut`, `unstored`, `swallowed`,
and `pinged` in a connection) record what happened; the only guard on them is that the
server sends each text once, which tells texts apart. A text counts
as received when its handler has run; a message that the process has read but
not handled when it is killed is lost and not counted. A text counts as delivered
when it was written to a client that was up.

**`Network`** composes `Proxy` with a server that follows the protocol. Every step
is a step of `Proxy` together with what it writes: `srv` is the server's state,
changed at once by what the proxy writes, and `inbox` the server's answers on
their way, read in order, so that an answer may be overtaken by anything but a
later message of the server. Other users join, part, kick, rename, quit and speak
(`OtherUsers`), the server may close (`ServerCloses`), and the client stays free.
`welcomed` records that the connected client was sent RPL_WELCOME.

**`Store`** is what `storage/storage.go` promises: logs that are appended to and
emptied, and a cursor that reads a log as it was when `Replay` made it, whatever
is logged or cleared afterwards. `ReplayedStoreSpec` adds what a careful user does:
only what was read to its end is deleted. Three modules implement it:

- **`Ephemeral`**: Go slices in a heap of arrays; `append` writes in place or
  copies, `Clear` drops the slice, a cursor holds a slice of its own. The
  abstract log is what the slice shows.
- **`SqlStore`**: the table, its AUTOINCREMENT counter, the schema flag, the cursor
  with its open rows, and the pool, which has one usable connection. It includes
  the goroutine that uses it (`logMessage`, `replayLog`, one step per call),
  database errors, rows that do not parse, and restarts. The abstract log is the
  rows of a name in the order of their ids: `Ordered`, the ORDER BY of the query, is
  the ascending enumeration of a set of ids.
- **`ProxyStore`**: `Proxy` itself; its `logs`, and the position of `replayLog`.

**`Reader`** models how messages reach the select: the bytes under way, the
scanner's buffer, the goroutine of `irc.ReadAll`, its unbuffered channel, `setup`,
and `shutdown` with its drain, over several connections in a row. **`Link`** is
what `Proxy` assumes of a connection: messages in order, the end of input after
the last, nothing of an old connection. `AsLink` maps buffer, goroutine and wire
of the current connection to the link's queue.

**`Keepalive`** is the keepalive of one connection in discrete time: the ticker,
whose channel holds one tick, the deadlines, `PingSent`, messages that wait while
`Run` is busy, and a peer that takes a while to answer or falls silent. In `Proxy`
deadlines pass at any time; here they pass when they are due.

**`Sandstorm`** is the main loop of `cmd/sandstorm-irc-idler` with the handlers of
`sandstorm/webui` (each a goroutine that blocks on the loop's channels), the
proxies that it stops and starts (in their select, busy in a handler, or stuck in
a write), the settings file and crashes. Between the form that main receives
(`TakeConfig`, which answers the handler) and the new proxy are the steps of a save,
and a crash may come between any two: `saveServerConfig` opens and truncates the file,
or fails and leaves it as it was; `WriteFile` writes it, or leaves half of it. Between
a capability that main receives (`TakeCap`) and the new proxy is a call to Sandstorm
(`saveIpNetwork`), which main waits for.

**`Codec`** reads and writes lines over the characters the parser tells apart (colon,
space, any other), with the scanner's limit and both line ends. **`Validate`** has the
table of `minParams` and what the handlers and sessions index. **`Names`** has client
ids and masks over the characters that mean something in them and a set of `Ordinary`
ones; a regexp is a sequence of literals, `.` and `.*`. The recursion of the code
(`parseMessage` over the words of a line, `ToRegexp`'s loop over a mask) is written as
recursive functions, which can be reasoned about. **`Filters`** is `RateLimit`.
**`PingPong`** is `AutoPing` and `AutoPong` joined as in the repository's test. Its
timer has the semantics of Go before 1.23, which `filters.go` is written for: a timer
that has fired leaves a value in `timer.C`, which must be drained after a `Stop` that
came too late.

`MCProxy`, `MCNetwork`, `MCStores`, `MCParts` and the `.cfg` files are the instances for
TLC. A run of `MCProxy` is about several questions (`Scopes`), one in each behaviour,
each with the messages that bear on it. Where the two links are
not the question, the server there welcomes only who has registered (`Timely`), to keep
the run small; the theorems do not assume it. `MCParts` puts the small components into one
run, one of them at a time (`Chosen`): the others are in a state in which they have
nothing to do. `MC*.cfg` without a module of that name belong to one of these, or to
`Sandstorm`. `ProxyProofs`, `LinkProofs`, `DeliveryProofs`, `NetworkProofs`,
`ConnectionProofs` (of `Keepalive` and `Reader`), `StoreProofs`, `SandstormProofs` and
`LibraryProofs` (of `Codec`, `Validate`, `Names`, `Filters` and `PingPong`) hold the
theorems. Definitions marked "Mutant" are slips that the properties must notice; no
specification uses them.

## Runs

Runs of the proxy use our own nick, one other user and one channel. One channel is
enough because no handler relates two channels (NICK and QUIT treat each alone),
and one other user because users of a channel are treated alike.

| run | checks | bounds |
|---|---|---|
| `delivery` | `TypeOK`, `NoMessageLost`, `NoDuplicates`, `UsesStore`, `ServerOutlivesClient`, `HandshakeAgreement`, `PingedBeforeDrop`, `StaysLoggedIn` | a writer that reports errors. Texts: two, each to the channel or to us, so that a replay can be cut in the middle and one text can be live while another is logged; store errors, dying clients, kills (a stop is a kill between two handlers to them). Links: every message of login and keepalive, refusals, invalid messages, all faults |
| `channels` | `PreLogCoversClient`, `TextsAccounted` | the daemon's writer. Channels: every message that changes users, topic or nick; a log of at most one message per target. Texts: one |
| `network` | `NeverLoggedOut` | every command of the client and every event of other users; a client that waits for nothing |
| `login` | `ServerViewExact`, `RegisteredMeansDone`, `LoginCompletes`, `HandlersReturn` | two nicks we may ask for, one taken and freed again; no KICK; a client that waits for the answer to a NICK (see Findings for both) |
| `sandstorm` | `TypeOK`, `OneUserOfStore`, `RunsCurrentSettings`, `NoOrphanedSocket`, `RequestsAnswered` | two requests at once, two configurations, two proxies: one to be replaced while another starts; saves that fail, and crashes between all steps |
| `parts`, connection | `ImplementsLink`, `NoGoroutineLeaks`, `LeavingIsNoticed`, `AnswererKept`, `SilenceEnds` | two connections, two lines on each, any of which may not parse; a `pingTime` of six units, an answer within three, a stall of two |
| `parts`, stores | `TypeOK`, `OneConnection`, `ImplementsStore`, `MemoryImplementsStore` | two logs and two messages, one of which does not parse; SQL: three rows ever; in memory: four arrays, logs of four |
| `parts`, texts | `ParsedFaithfully`, `WrittenLength`, `ParamsSuffice`, `ParsedIDFaithful`, `RegexpIsMask` | all lines of six characters against a limit of seven, ids of six, masks and texts of three, with one ordinary character; every command with up to sixteen parameters |
| `parts`, filters | `RateBounded`, `ClosedWhenCopied`, `ClosesInTheEnd`, `TimerRuns`, `CancelEndsBoth`, `PongPreventsTimeout` | a quota of two, six messages, three ticks |
| `writer` | `NoMessageLost`, expected to fail | one text, the daemon's own writer |
| `stale_motd` | `DoneMeansWelcomed`, expected to fail | logins only |
| `ghost` | `NoGhosts`, expected to fail | another user who comes and goes |
| `readback` | `ReadBackSame`, expected to fail | lines as in `parts` |
| `growth` | `DoesntGrow`, expected to fail | lines as in `parts` |
| `mask` | `SameStrings`, expected to fail | masks and texts as in `parts` |

What each property says is stated at its definition. `MaxLog` bounds a log: in
`Proxy` a message that may have to be logged arrives only while its log has room,
in `Network` nobody acts while a log is longer, or more than `MaxInbox` messages
are on their way. `Faults` selects which faults happen; runs leave out those that
do not bear on their question, to stay small. `Symmetry` permutes the texts, which
are interchangeable; it is used only where no liveness is checked. Deadlock is not
checked in the runs of `MCParts`, whose components stop: a connection that was
dropped, a function that was applied, a filter that has returned.

Bounds reach the cases that matter: a client that dies after the first of two
replayed messages, is replaced and dies again; a kill between the last replayed
message and the clearing of the log; an append in place into an array that a cursor
reads, which takes a log of four, since arrays grow from one to two and to four by
copying; a crash after main has taken settings and before the file is opened;
a goroutine that blocks in its send while its connection is shut down and another
one is set up; a proxy that is stopped while it is stuck in a write and a websocket
waits for it; an escape at the end of a mask.

What some of the properties state exactly, because a simpler statement is false:

- `WrittenLength` is about messages that came with CRLF (see `growth`);
- `RegexpIsMask` is about masks whose backslashes all escape a wildcard or a backslash,
  and about what the pattern finds in a text (see `mask`);
- `ParamsSuffice` excepts PART and KICK of the server (see below);
- `RateBounded` is about a quota that is not 0, and counts from any moment on;
- `RunsCurrentSettings`: between the form and the end of its save, a crash may bring
  back what was on file, or nothing if the file was half written; after a save without
  an error nothing does;
- `ImplementsStore` is about a reader that looks at the error first, see Findings;
- `StaysLoggedIn` says which steps do not end a completed session on a server that is
  up and answers PINGs, with the welcome sequence cached: everything that clients, the
  clock, the links, replays and rejoins do, and messages of the server that the proxy
  accepts. That leaves a message that it rejects, `Stop` and a kill. The exception is
  by the step itself, whatever state it leads to. `NeverLoggedOut` says the same of
  `Network` and does not assume the cache, which in `Proxy`, with an arbitrary server,
  may be empty.

## Fairness

- `Network`: what the server sent is read (`NetServer`), a handler that runs goes on
  (`NetHandler`), the end of a connection is noticed (`NetGone`), each weakly fair.
  It is one goroutine, and the select's other cases do not starve one that is ready
  for ever, since clients and ticks come one at a time. Nothing is assumed of what
  clients and other users do. `HandlersReturn` assumes that writes return. A write to
  a peer that keeps its connection open and never reads can in fact block for ever
  (there are no write deadlines): `Sandstorm` has that case.
- `Sandstorm`: Go's select chooses at random among the cases that are ready, so a case
  that is ready again and again is taken: strong fairness of each case, of the sends to
  a proxy and of `Stop`. Main goes on after it has taken settings or a capability: files
  are written or fail, and Sandstorm answers a call. A proxy's handler returns if it is
  not stuck in a write for ever, and `RequestsAnswered` says "unless some daemon stays
  stuck".
- `Reader`: goroutines are scheduled, and the proxy receives from a channel that is
  ready (weak). The peer owes nothing.
- `Filters`, `PingPong`: the goroutine runs, the reader of its output reads, the
  ticker ticks and the timer fires (weak); of a select's ready cases each is taken in
  the end (strong, for the cases that compete with others).

## Findings

With a run each:

- `writer`: `WriteTo` in `irc/message.go` (line 111) tests the accumulated error
  instead of the new one, so `WriteMessage` never returns an error. The error paths
  of `sendClient` and `sendServer` are dead code in the daemon, and a text written
  to a client whose link has died is lost, where the code means to log it. The
  keepalive still drops the client later, so only what arrives in between is lost.
  With a writer that reports errors, `NoMessageLost` holds (`delivery`), and with the
  daemon's own nothing else is lost (`TextsAccounted`, `channels`).
- `stale_motd`: the reply to the MOTD command that was sent for one returning client
  completes the handshake of the next one, which is never sent a welcome.
- `ghost`: what happens in a channel goes to a client that is there but has not
  rejoined, and not into the log; if that client is replaced, the next one's rejoin
  replays a JOIN without the PART that followed.
- `readback`: `WriteTo` (`irc/message.go:126`) writes a last parameter without a colon
  unless it holds a space, so that an empty one is gone and one that starts with a colon
  has lost it when the message is read back, as the SQL store does before a replay;
  `irc/message_test.go:24` wants the same value. `SurvivesTheorem` says which messages
  do survive.
- `growth`: a line that ended with LF alone is written with CRLF (`irc/message.go:132`),
  a byte longer, against `irc/message_test.go:95`; one of the greatest size that is read
  cannot be read again. What came with CRLF does not grow.
- `mask`: the pattern of `ToRegexp` is not anchored (`irc/mask/mask.go:43`), so that
  `MatchString` accepts any text that has a part the mask matches, and a backslash
  before any other character, or at the end, is swallowed although it can escape only
  wildcards; `irc/mask/mask.go:9-10` promises a "pattern matching the same set of strings".

Met while modelling; they are stated as exceptions of properties, or kept out of a
run by a bound that is named for it:

- `proxy/state/session.go:58`: for a KICK, "about us" is decided by the kicker. Being
  kicked leaves the channel in the session, kicking removes it. `ServerViewExact`
  fails as soon as `OtherEvents` has "kick".
- `proxy/state/handshake.go:52`: a refusal clears `haveNick` whichever NICK it
  answers. If a second NICK was accepted meanwhile, the server has registered us and
  the proxy waits for another NICK. `RegisteredMeansDone` fails as soon as `Hurried`
  has "nick".
- `proxy/proxy.go:622` with `proxy/state/channel.go:46`: a JOIN of another user puts
  the channel into the session of a client that has not rejoined it, so that its own
  JOIN is ignored ("Client already in channel", `proxy/proxy.go:437`) and its log not
  replayed. The same forwarding is behind `ghost`.
- NAMES replies that arrive when the client has gone after its JOIN reach neither
  `preLogSession` nor the log (RPL_NAMEREPLY is not logged), so a later rejoin misses
  users.
- `irc/validate.go`: PART and KICK have no minimum, and `proxy/state/channel.go:46`
  indexes their first parameter.
- `irc/filters/filters.go`: `initQuota` is not used, and a `maxQuota` of 0 limits
  nothing, since the quota is compared with 0 after it was decremented.
- `storage/sql/sql.go:88`: at the end of a log `Get` returns the last message with
  `io.EOF`, where `storage/storage.go:46` says nil. `ImplementsStore` does not look at it:
  `replayLog` reads the error first, as `storage/storage.go:11` asks of every user.
- `proxy/proxy.go:678`: the error of `Clear` is ignored, and the next client is sent the
  log again; `NoDuplicates` excepts it.

## Proofs

All theorems hold for every value of the constants that the named `ASSUME`s allow:
any sets of nicks, channels, texts and messages, any combination of faults, failing
or reliable stores, both writers, any `MaxLog`.

The proxy, against any peers:

- `TypeCorrect` (`ProxyProofs`): `Spec => []TypeOK`. `TypeOK` is inductive as it
  stands. Part of it is that a log holds only whitelisted messages, which the next
  proofs need: a replay could otherwise finish a handshake. The step is proved for
  `AnyStep`, in which the server may send any message at any time, so that the
  proofs about `Network` can use it.
- `OutlivesTheorem` and `AgreementTheorem` (`LinkProofs`): `ServerOutlivesClient`
  and `HandshakeAgreement`. Neither is inductive alone: a message passed through
  keeps the flags equal only if both connections are there to get it, and a server
  left alone by a failed write must be known to be done. The inductive invariant is
  their conjunction with `TypeOK`, `LinkInv == LinksOK(p)`. The argument goes
  through the methods: `dropClient` and `reset` establish `LinksOK` from any state,
  `sendClient` and `sendServer` establish it if the other side's session has
  already seen the message, and a handler is a composition of these.
- `StaysLoggedInTheorem` (`LinkProofs`): the action property, from `TypeOK`, harmless step
  by harmless step: every method but `reset` leaves the server of a steady session alone,
  and none of these steps reaches a `reset` while the welcome sequence is cached.
- `PingedTheorem` (`LinkProofs`): `PingedBeforeDrop`, which is inductive when stated
  of both connections, open or not (`PingedOK`). It rests on `setup` and `shutdown`
  clearing `PingSent` with the deadlines.
- `PreLogTheorem` (`LinkProofs`): `PreLogCoversClient`. The inductive invariant
  `CoversInv` adds two facts. `preLogSession` never learns our nick, so it leaves no
  channel that the client is still in. And the channel that `rejoinChannel` is in the
  middle of is one that `preLogSession` has (`RejoinOK`): it answers after the JOIN has
  been sent, in a later step.
- `TextsAccountedTheorem` and `NoDuplicatesTheorem` (`DeliveryProofs`), for either
  writer. Both are about what happens between logging a text and clearing its log, so
  the inductive invariant `DeliveryInv` follows every text place by place: only received
  texts are anywhere (`OnlyReceived`), a text has one place in all logs (`LoggedOnce`),
  what the cursor has passed was written, to a client or into the void
  (`PassedIsWritten`, the reason why clearing loses nothing), and what is delivered and
  still logged is behind the cursor or in `cut` (`DeliveredIsPassed`, the reason why a
  replay sends nothing twice). Steps that move no text are one lemma, `QuietDelivery`;
  receiving, sending from a log and clearing have one each. With a writer that reports
  errors nothing is written into the void (`NothingSwallowed`), so that `NoMessageLost`
  is a corollary of the first; with the daemon's it is false, as run `writer` shows.
- `UsesStoreTheorem` (`DeliveryProofs`): the refinement of `Store`, from `TypeOK`.
  Each action maps to one step of `ReplayedStoreSpec` or to a stutter: the position of
  `replayLog` is the cursor, and the log is cleared when the cursor is at its end.

The proxy with a server that follows the protocol (`NetworkProofs`):

- `LoggedInTheorem`: `NetSpec => NeverLoggedOut`, for every kind of haste and of event.
  `handleHandshakeMessage` takes the session of a returning client away if there is no
  cache. So the proof has to know that the cache is complete whenever the handshake is
  done, and for that, as messages are read one by one, that RPL_MYINFO is ahead of the
  end of the MOTD in `inbox`, or the cache is there already: `SentOK`, with `LinksOK`
  and `TypeOK` in `NetInv`. With that, every step but the end of the idler is one of the
  lemmas `SteadyClient`, `SteadyServer` and `SteadyRest` that prove `StaysLoggedIn`.
- `RegisteredTheorem`: `NetSpec => []RegisteredMeansDone` if `"nick"` is not in
  `Hurried`. `RegisteredMeansDone` speaks of an empty `inbox`, and is inductive only
  when the messages on their way are accounted for. `RegisterOK` does: of the
  server's registration and the session the proxy has for it, a nick that was sent
  has been taken, or exactly one refusal is on its way; and if we are registered, the
  MOTD has ended or its end is on its way. That the client waits is needed where
  `handshake.go` clears `haveNick` on a refusal: if two NICKs were out, the refusal of
  one would hide that the other was taken, which is the finding above. `LinksOK`
  carries the client's patience, which is about its own session, over to the
  server's.
  Sequences enter through two lemmas, `Sent` and `Taken`: what is said of a sequence
  of messages when more is sent and when the first is read.
- `ViewTheorem`: `NetSpec => []ServerViewExact` if nobody is kicked, for every kind of
  haste. `ServerViewExact` says what the proxy knows of its nick, of the channels it is
  in and of who is in them once it has heard all that is on its way, as a fold of the
  session's update over `inbox`. `ViewOK` makes that inductive: an open connection's
  fold agrees with the server's state (`Agrees`), and a channel's members are the others
  or us, our nick being nobody else's (`MembersOK`, without which a NICK could not be
  told from ours). The argument has three parts: what the server appends to `inbox` with
  each step moves the fold exactly as the server's state moves; reading the first message
  leaves the fold as it is; and what the proxy writes, which is not in the fold, changes
  no session's view until it is answered. That a fold over an appended message is the
  update of the fold is proved by induction over its length.

Around the proxy:

- `AnswererIsKept` and `SilenceIsEnded` (`ConnectionProofs`), for every `pingTime`,
  delay and stall with `Delay + Stall < T` and any bound on unread messages. For the
  first, `KInv` adds the ranges of the clocks (`ClocksOK`: what has been left as long
  as it may be stops time) and `AnswerOnItsWay`: while a PING is out, either its
  answer is due and the PING is no older than the time the peer has had, or a message
  waits to be read and the PING is no older than `Delay` and the time it has waited.
  So a PING whose drop deadline has passed is one that a silent peer was sent. For
  the second, `SilenceInv` bounds the silence by the phase of the ticker and the
  deadline that is pending: in how many ticks the PING, and then the end, is due.
- `LinkTheorem` (`ConnectionProofs`): `ReaderSpec => ImplementsLink`. The refinement
  mapping is a queue of the current connection's channel, goroutine, buffer and wire,
  so the invariant `ReaderInv` has to say (`GoroutinesOK`) that a connection that was
  not set up yet holds nothing, that the one in use has a goroutine and was not
  closed, and that only lines that could be read are sent on.
- `SqlTypes`, `OneConnectionTheorem` and `SqlIsStore` (`StoreProofs`), from `SqlInv`. A
  cursor that has come to the end or met an error of the database has given its
  connection back (`CursorOK`), and no id is above the counter (AUTOINCREMENT), so that
  an INSERT comes last. `StoreStep` maps each statement to a step of the abstract
  store. That ORDER BY has exactly one result is itself part of the invariant
  (`OrderOK`), kept as rows are added at the end and whole logs are deleted: the
  induction is over steps, not over the rows.
- `MemoryIsStore` (`StoreProofs`). In `MemoryInv` no two logs share an array, and a
  log that shares the array of the cursor's slice has not become shorter than it:
  so `append` in place writes behind what the cursor is going to return.
- `SandstormTypes`, `OneUserTheorem`, `CurrentSettingsTheorem` and `NoOrphanTheorem`
  (`SandstormProofs`), from one inductive invariant, `SInv`. `DaemonOK` is the reason for
  the second: a daemon runs if and only if it is the one main refers to.
  `PendingOK` and `PassingOK` say what main holds at each point of its loop, and
  `SettingsOK` what it runs, saves and has saved: in particular that main's settings are
  the last ones or those on file, and both are the same once `saved`.
- `RateTheorem` and `CopiedTheorem` (`LibraryProofs`), from `LimitInv`: the quota and
  the ticks left pay for what may still be copied in the period (`Budget`), and what
  was taken and not copied is one message in the hands of the goroutine (`InTransit`).
- `TimerTheorem` and `PongTheorem` (`LibraryProofs`), from `PingPongInv`: the timer is
  drained only where it is armed next, and while a PING is out to a peer that answers
  in time, `AutoPong` has it.

The pure functions (`LibraryProofs`), for texts of every length:

- `ParsedTheorem`, `WrittenTheorem` and `SurvivesTheorem` (`Codec`): `ParsedFaithfully`,
  `WrittenLength`, `PlainSurvives`. The invariant of the run, `CodecInv`, only says which
  function was applied to what; the content is in lemmas about the functions.
  `SpellsAll`: the words that `Params` takes from a text spell it, where the last one may
  have been marked with a colon and one space at the end is lost. `AllReturn` is its
  converse: of words of which all but the last can do without a colon, `Params` reads the
  written text as these words again if and only if the last one can do without a colon,
  too, or has a space and therefore gets one. `ReadIs` and `WriteIs` say what `parseMessage`
  and `WriteTo` do with prefix and command around the parameters. From these, what is
  read is spelled again (`SpelledAgain`), its length is that of its words (`SizesOf`),
  and `ReadBack` gives the condition for a message to survive.
- `ParamsTheorem` (`Validate`): `ParamsSuffice`, for any set of commands, known ones or
  not.
- `ParsedIDTheorem` (`Names`): `ParsedIDFaithful`. Cutting a text at the only `@` and the
  name at the only `!` can be undone (`SplitOnce`, `SplitIs`), and the parts say which
  marks there were unless one of them is empty.
- `RegexpTheorem` (`Names`): `RegexpIsMask`. `ToRegexp` reads a mask from the left with
  a flag, while what a mask means is said of its first character and the rest.
  `LoopsBehind` relates the two: where no escape is open, the loop adds to what it has
  what it makes of the rest alone, so that `RegexpOf` takes a mask apart at its front.
  With it, `RegexpMeans` follows by induction over the length of the mask, two
  characters at a time where one is escaped, for masks whose backslashes all escape
  something (`OnlyEscapes`); then they match the same texts, and so the same parts of a
  text.

Induction over data: the induction theorems of the library have an operator as a
parameter, which the provers cannot instantiate, but that a set of numbers has a least
element can be had without (`WFMin`). `Induction` (in `LibraryProofs` and `NetworkProofs`)
is induction for a *set* of numbers. `Recursion` derives from it that a function may be
defined by recursion over smaller members of its domain: so `Params`, `Matches`, `Meant`,
`ToRegexp`'s loop and the community modules' `FlattenSeq`, which TLA+ defines by a
`CHOOSE`, satisfy their equations. `FoldLeftIs` proves the same of their fold.

Assumptions: `NamesAssumption` (`None` is no nick, channel, topic or text, nicks are
not channels), `MessagesAssumption` and `SettingsAssumption` (messages are of the
declared shapes), `NetworkAssumption`, `TimeAssumption` (an answer and a stall fit into
a `pingTime`), `ReaderAssumption`, `SqlAssumption` and `SandstormAssumption` (the values
for "nothing" are none of the values they are next to), `QuotaAssumption`. TLC
evaluates them in the runs of these modules. Two theorems have a hypothesis of their
own: `"nick" \notin Hurried` for `RegisteredTheorem`, and for `ViewTheorem` that neither
the client nor another user sends a KICK. Run `login` has both, and the findings
`handshake.go:52` and `session.go:58` are what happens without.

Every invariant that a passing run checks is a theorem, and so are the action
properties and refinements (`NoMessageLost` under `WriteErrors`, as in its run). Only
model-checked:

- `LoginCompletes`, `HandlersReturn`, `RequestsAnswered`, `NoGoroutineLeaks`,
  `LeavingIsNoticed`, `ClosesInTheEnd` and `CancelEndsBoth` are liveness under
  fairness, which TLAPS does not treat.
- `NoMessageLost` with the daemon's own writer, `DoneMeansWelcomed`, `NoGhosts`,
  `ReadBackSame`, `DoesntGrow` and `SameStrings` are false, as their runs show.

## Not modelled

- The command line daemon parses flags and wires a store, a dialer and a listener to
  one `Proxy` in a straight line; the store that it opens again is `SqlStore`'s
  `Restart`. `AcceptLoop` and `DialerConnector` are a loop of one call, and one call.
- The TLS dialer: a dial and a handshake in a row, whose outcome is a connection or an
  error; `Proxy`'s `Accept` has both.
- pingpong-inspector, a debugging tool of two loops that copy messages.
- Of the Sandstorm daemon: templates, tokens, static files, the claiming of a
  capability, and the file that `saveIpNetwork` writes, which nothing reads
  (`loadIpNetwork` is never called, so after a crash the user has to offer the
  capability again, as `Start` has it).
- Of messages: wording, formatting, logging, the tags and users of client ids in
  sessions, and the mutex of `ioReader` and `ioWriter`, each of which has one user.
- Order between a text that arrives before the end of a returning client's MOTD and
  older ones in its log: the repository promises none.

## Plan

1. `NoGhosts` and `DoneMeansWelcomed` with the conditions under which they do hold
   (no client that is there without having rejoined; no MOTD reply on its way when a
   client connects), checked and then proved from `NetInv`.
2. A larger `Network`: two channels and a topic, with the rejoin of a client of a
   server that follows the protocol.
3. `ServerViewExact` with KICK, once `proxy/state/session.go:58` looks at the one who is
   kicked.
