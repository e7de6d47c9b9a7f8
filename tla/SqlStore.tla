------------------------------ MODULE SqlStore ------------------------------
(***************************************************************************)
(* The store on an SQL database (storage/sql) and the one goroutine that   *)
(* uses it: logMessage and replayLog of proxy/proxy.go, a step per call.   *)
(*                                                                         *)
(* The database handle is a pool.  Rows hold a connection until they are   *)
(* closed; a statement that finds no idle connection opens another one,    *)
(* and fails there: a second connection to ":memory:", the default of      *)
(* -dbpath, is an empty database, and one to a file finds it locked.       *)
(* database/sql and SQLite are modelled from how sql.go uses them.         *)
(***************************************************************************)
EXTENDS Naturals, Sequences, FiniteSets

CONSTANTS
    Keys,       \* channel and nick names
    Entries,    \* messages
    Unparsable, \* messages that ParseMessage rejects when they are read back
    Nil,        \* no message
    MaxId       \* bound on the rows that are ever inserted

ASSUME SqlAssumption ==
    /\ Unparsable \subseteq Entries
    /\ Nil \notin Entries
    /\ MaxId \in Nat

VARIABLES
    rows,       \* the table "messages"
    lastId,     \* its AUTOINCREMENT counter
    haveSchema, \* store.haveSchema
    cur,        \* the cursor that replayLog holds
    where,      \* where the goroutine is
    denied      \* history: a statement found no idle connection

sqlVars == <<rows, lastId, haveSchema, cur, where, denied>>

Rows == [id : 1..MaxId, channel : Keys, message : Entries]

Errors == {"nil", "EOF", "parse", "database"}

\* "open" says that the rows hold a connection, "left" is what they have to
\* yield, "name" the log that is read.
Cursors == [open : BOOLEAN, left : Seq(Entries), msg : Entries \cup {Nil}, err : Errors,
            name : Keys]

Points == {"idle", "replay"}

noCursor(name) == [open |-> FALSE, left |-> <<>>, msg |-> Nil, err |-> "nil", name |-> name]

\* ORDER BY id.
Ordered(found) ==
    CHOOSE s \in [1..Cardinality(found) -> found] :
        \A a, b \in 1..Cardinality(found) : a < b => s[a].id < s[b].id

Found(k) == {r \in rows : r.channel = k}

\* The messages of log k in the order of their ids.
Selected(k) == [j \in 1..Cardinality(Found(k)) |-> Ordered(Found(k))[j].message]

\* A statement gets a connection.
Connected == ~cur.open

\* cursor.Next: the next row is parsed; at the end, or when the database reports
\* an error, the rows are closed.  c.msg stays what it was.
AtEnd(c)   == [c EXCEPT !.open = FALSE, !.err = "EOF"]
Broken(c)  == [c EXCEPT !.open = FALSE, !.err = "database", !.left = <<>>]
Parsed(c)  == LET m == Head(c.left) IN
    [c EXCEPT !.left = Tail(@),
              !.msg = IF m \in Unparsable THEN Nil ELSE m,
              !.err = IF m \in Unparsable THEN "parse" ELSE "nil"]

Next(c) == {IF c.left = <<>> THEN AtEnd(c) ELSE Parsed(c), Broken(c)}

-----------------------------------------------------------------------------

\* GetChannel creates the table the first time, and may fail.
GetChannel == haveSchema' = TRUE

\* logMessage: GetChannel and LogMessage.  A failure loses the message and
\* changes nothing but, perhaps, the schema.
LogMessage(k, m) ==
    /\ where = "idle"
    /\ lastId < MaxId
    /\ denied' = (denied \/ ~Connected)
    /\ \/ /\ Connected
          /\ GetChannel
          /\ rows' = rows \cup {[id |-> lastId + 1, channel |-> k, message |-> m]}
          /\ lastId' = lastId + 1
       \/ /\ GetChannel \/ UNCHANGED haveSchema
          /\ UNCHANGED <<rows, lastId>>
    /\ UNCHANGED <<cur, where>>

\* replayLog's GetChannel and Replay: the query, and the first Next.
Replay(k) ==
    /\ where = "idle"
    /\ Connected
    /\ GetChannel
    /\ cur' \in Next([noCursor(k) EXCEPT !.open = TRUE, !.left = Selected(k)])
    /\ where' = "replay"
    /\ UNCHANGED <<rows, lastId, denied>>

\* GetChannel or the query returns an error.
ReplayRefused ==
    /\ where = "idle"
    /\ GetChannel \/ UNCHANGED haveSchema
    /\ denied' = (denied \/ ~Connected)
    /\ UNCHANGED <<rows, lastId, cur, where>>

\* Get returns a message, which is sent, and the cursor moves on.
Advance ==
    /\ where = "replay" /\ cur.err = "nil"
    /\ cur' \in Next(cur)
    /\ UNCHANGED <<rows, lastId, haveSchema, where, denied>>

\* Mutant: the cursor is closed at the end of the log only.
ReplayEndsOpen ==
    /\ where = "replay"
    /\ cur.err # "EOF"
    /\ where' = "idle"
    /\ UNCHANGED <<rows, lastId, haveSchema, cur, denied>>

\* Sending fails, or Get returns an error other than io.EOF: replayLog returns
\* and the deferred Close closes the rows.
ReplayReturns ==
    /\ where = "replay"
    /\ cur.err # "EOF"
    /\ cur' = noCursor(cur.name)
    /\ where' = "idle"
    /\ UNCHANGED <<rows, lastId, haveSchema, denied>>

\* Mutant: the log is cleared however the replay ends.
ClearAnyway ==
    /\ where = "replay"
    /\ cur.err # "nil"
    /\ denied' = (denied \/ ~Connected)
    /\ \/ Connected /\ rows' = {r \in rows : r.channel # cur.name}
       \/ UNCHANGED rows
    /\ cur' = noCursor(cur.name)
    /\ where' = "idle"
    /\ UNCHANGED <<lastId, haveSchema>>

\* Get returns io.EOF: Clear, whose error nobody looks at, and the deferred Close.
Clear ==
    /\ where = "replay"
    /\ cur.err = "EOF"
    /\ denied' = (denied \/ ~Connected)
    /\ \/ Connected /\ rows' = {r \in rows : r.channel # cur.name}
       \/ UNCHANGED rows
    /\ cur' = noCursor(cur.name)
    /\ where' = "idle"
    /\ UNCHANGED <<lastId, haveSchema>>

\* The process is killed, and a new one opens the database.
Restart ==
    /\ cur' = noCursor(cur.name)
    /\ where' = "idle"
    /\ haveSchema' = FALSE
    /\ UNCHANGED <<rows, lastId, denied>>

SqlInit ==
    /\ rows = {} /\ lastId = 0
    /\ haveSchema = FALSE
    /\ cur \in {noCursor(k) : k \in Keys}
    /\ where = "idle"
    /\ denied = FALSE

SqlNext ==
    \/ \E k \in Keys : \/ \E m \in Entries : LogMessage(k, m)
                       \/ Replay(k)
    \/ ReplayRefused \/ Advance \/ ReplayReturns \/ Clear \/ Restart

SqlSpec == SqlInit /\ [][SqlNext]_sqlVars

-----------------------------------------------------------------------------

Logs == [k \in Keys |-> Selected(k)]

\* The cursor that replayLog holds: what it is still going to return without an
\* error, the current message and the rest, and whether it is going to report one.
\* Beside io.EOF Get still returns the last message, and not the nil that the
\* interface promises; replayLog looks at the error first, so that is not mapped.
Cursor ==
    [open |-> where = "replay",
     rest |-> IF where = "replay" /\ cur.err = "nil" THEN <<cur.msg>> \o cur.left ELSE <<>>,
     ok   |-> where = "replay" => cur.err \in {"nil", "EOF"}]

Abstract == INSTANCE Store WITH log <- Logs, cursor <- Cursor

\* Failures and restarts included, the logs of the SQL store, and what its cursor
\* returns to a reader that looks at the error first, are those of a store; and
\* used by logMessage and replayLog it loses no message but those that a replay has
\* read to the end of the log.
ImplementsStore == Abstract!ReplayedStoreSpec

\* Types, and: rows are open only while replayLog reads them.
TypeOK ==
    /\ rows \subseteq Rows
    /\ lastId \in 0..MaxId
    /\ haveSchema \in BOOLEAN /\ denied \in BOOLEAN
    /\ cur \in Cursors
    /\ where \in Points
    /\ cur.open => where = "replay"

\* The goroutine never needs a second connection: whichever way a replay ends,
\* its rows have been closed before the next statement.
OneConnection == ~denied

=============================================================================
