---------------------------- MODULE StoreProofs -----------------------------
(***************************************************************************)
(* Theorems about the two message stores: each implements module Store,    *)
(* and the SQL store's goroutine never waits for its own connection.       *)
(***************************************************************************)
EXTENDS MCStores, SequenceTheorems, FiniteSetTheorems, TLAPS

-----------------------------------------------------------------------------
(* Rows in the order of their ids.                                         *)

\* Sequence s lists the rows of set found in that order.
Lists(s, found) ==
    /\ s \in Seq(found)
    /\ \A r \in found : \E a \in 1..Len(s) : s[a] = r
    /\ \A a, b \in 1..Len(s) : a < b => s[a].id < s[b].id

\* Sequence s is the only one that does.
Only(s, found) == Lists(s, found) /\ \A t : Lists(t, found) => t = s

LEMMA IntervalSize ==
    ASSUME NEW n \in Nat
    PROVE  IsFiniteSet(1..n) /\ Cardinality(1..n) = n
  <1>1. 1 \in Int /\ n \in Int
    OBVIOUS
  <1>2. IsFiniteSet(1..n) /\ Cardinality(1..n) = IF 1 > n THEN 0 ELSE n - 1 + 1
    BY <1>1, FS_Interval, Zenon
  <1> QED BY <1>2

\* A list is as long as the set.
LEMMA ListLength ==
    ASSUME NEW found, \A r \in found : r.id \in Nat, NEW s, Lists(s, found)
    PROVE  IsFiniteSet(found) /\ Cardinality(found) = Len(s)
  <1>1. s \in [1..Len(s) -> found] /\ Len(s) \in Nat
    BY LenProperties DEF Lists
  <1>2. ASSUME NEW a \in 1..Len(s), NEW b \in 1..Len(s), s[a] = s[b]
        PROVE  a = b
    <2>1. s[a].id \in Nat /\ ~(a < b) /\ ~(b < a)
      BY <1>1, <1>2 DEF Lists
    <2> QED BY <1>1, <2>1
  <1>3. s \in Bijection(1..Len(s), found)
    BY <1>1, <1>2 DEF Lists, Bijection, Injection, Surjection, IsInjective
  <1>4. ExistsBijection(1..Len(s), found)
    BY <1>3 DEF ExistsBijection
  <1> QED BY <1>1, <1>4, FS_CountingElements, FS_NatBijection

\* ORDER BY returns the only list there is.
LEMMA OrderedIsOnly ==
    ASSUME NEW found, \A r \in found : r.id \in Nat, NEW s, Only(s, found)
    PROVE  Ordered(found) = s /\ Cardinality(found) = Len(s)
  <1> DEFINE n == Cardinality(found)
             Ascending(t) == \A a, b \in 1..n : a < b => t[a].id < t[b].id
  <1>1. n = Len(s) /\ IsFiniteSet(found) /\ n \in Nat
    BY ListLength, FS_CardinalityType DEF Only
  <1>2. s \in [1..n -> found] /\ Ascending(s)
    BY <1>1, LenProperties DEF Only, Lists
  <1> DEFINE t == CHOOSE u \in [1..n -> found] : Ascending(u)
  <1>3. t \in [1..n -> found] /\ Ascending(t)
    <2> HIDE DEF Ascending, n
    <2> QED BY <1>2
  <1>4. Ordered(found) = t
    BY DEF Ordered
  <1> HIDE DEF t
  <1>5. t \in Seq(found) /\ Len(t) = n
    BY <1>1, <1>3
  <1>6. t \in Injection(1..n, found)
    <2>1. ASSUME NEW a \in 1..n, NEW b \in 1..n, t[a] = t[b]
          PROVE  a = b
      <3>1. t[a].id \in Nat /\ ~(a < b) /\ ~(b < a)
        BY <1>3, <2>1
      <3> QED BY <1>1, <3>1
    <2> QED BY <1>3, <2>1 DEF Injection, IsInjective
  <1>7. t \in Surjection(1..n, found)
    <2>1. IsFiniteSet(1..n) /\ Cardinality(1..n) = n
      BY <1>1, IntervalSize
    <2> QED BY <1>1, <1>6, <2>1, FS_Injection
  <1>8. Lists(t, found)
    BY <1>3, <1>5, <1>7 DEF Lists, Surjection
  <1> QED BY <1>1, <1>4, <1>8 DEF Only

\* There is nothing to list.
LEMMA OnlyEmpty == Only(<<>>, {})
  <1>1. Lists(<<>>, {})
    BY EmptySeq DEF Lists
  <1>2. ASSUME NEW t, Lists(t, {})
        PROVE  t = <<>>
    <2>1. t \in Seq({}) /\ (Len(t) \in Nat \ {0} => t[1] \in {})
      BY <1>2, ElementOfSeq DEF Lists
    <2> QED BY <2>1, EmptySeq
  <1> QED BY <1>1, <1>2 DEF Only

\* A row with a new id is listed last.
LEMMA OnlyAppend ==
    ASSUME NEW found, \A r \in found : r.id \in Nat, NEW s, Only(s, found),
           NEW new, new.id \in Nat, \A r \in found : r.id < new.id
    PROVE  Only(Append(s, new), found \cup {new})
  <1> DEFINE more == found \cup {new}
  <1>0. \A r \in more : r.id \in Nat /\ r.id <= new.id /\ (r.id = new.id => r = new)
    OBVIOUS
  <1>1. Lists(Append(s, new), more)
    <2>1. s \in Seq(more) /\ s \in Seq(found) /\ Len(s) \in Nat
      BY SeqMonotonic, LenProperties DEF Only, Lists
    <2>2. /\ Append(s, new) \in Seq(more) /\ Len(Append(s, new)) = Len(s) + 1
          /\ \A a \in 1..Len(s) : Append(s, new)[a] = s[a]
          /\ Append(s, new)[Len(s) + 1] = new
      BY <2>1, AppendProperties
    <2>3. \A r \in more : \E a \in 1..Len(s) + 1 : Append(s, new)[a] = r
      <3>1. ASSUME NEW r \in found PROVE \E a \in 1..Len(s) + 1 : Append(s, new)[a] = r
        <4>1. PICK a \in 1..Len(s) : s[a] = r
          BY DEF Only, Lists
        <4> QED BY <2>1, <2>2, <4>1
      <3>2. Len(s) + 1 \in 1..Len(s) + 1
        BY <2>1
      <3> QED BY <2>2, <3>1, <3>2
    <2>4. ASSUME NEW a \in 1..Len(s) + 1, NEW b \in 1..Len(s) + 1, a < b
          PROVE  Append(s, new)[a].id < Append(s, new)[b].id
      <3>1. a \in 1..Len(s) /\ s[a] \in found
        BY <2>1, <2>4, ElementOfSeq
      <3>2. CASE b \in 1..Len(s)
        BY <2>2, <2>4, <3>1, <3>2 DEF Only, Lists
      <3>3. CASE b = Len(s) + 1
        BY <2>2, <3>1, <3>3
      <3> QED BY <2>1, <3>2, <3>3
    <2> QED BY <2>2, <2>3, <2>4 DEF Lists
  <1>2. ASSUME NEW t, Lists(t, more)
        PROVE  t = Append(s, new)
    <2>1. t \in Seq(more) /\ Len(t) \in Nat
      BY <1>2, LenProperties DEF Lists
    <2>2. PICK a \in 1..Len(t) : t[a] = new
      BY <1>2 DEF Lists
    <2>3. a = Len(t)
      <3>1. \A b \in 1..Len(t) : t[b] \in more /\ ~(a < b)
        BY <1>0, <1>2, <2>1, <2>2, ElementOfSeq DEF Lists
      <3> QED BY <2>1, <3>1
    <2> DEFINE n == Len(t) - 1
               u == [b \in 1..n |-> t[b]]
    <2>4. n \in Nat /\ n + 1 = Len(t)
      BY <2>1, <2>2, <2>3
    <2>5. \A b \in 1..n : t[b] \in found
      <3> SUFFICES ASSUME NEW b \in 1..n PROVE t[b] \in found
        OBVIOUS
      <3>1. b \in 1..Len(t) /\ b < a
        BY <2>3, <2>4
      <3>2. t[b] \in more /\ t[b].id < new.id
        BY <1>2, <2>1, <2>2, <3>1, ElementOfSeq DEF Lists
      <3> QED BY <1>0, <3>2
    <2>6. u \in Seq(found) /\ Len(u) = n /\ \A b \in 1..n : u[b] = t[b]
      BY <2>4, <2>5
    <2>7. Lists(u, found)
      <3>1. ASSUME NEW r \in found PROVE \E b \in 1..n : u[b] = r
        <4>1. PICK b \in 1..Len(t) : t[b] = r
          BY <1>2 DEF Lists
        <4>2. b # Len(t)
          BY <2>2, <2>3, <4>1
        <4>3. b \in 1..n
          BY <2>1, <4>1, <4>2
        <4> QED BY <2>6, <4>1, <4>3
      <3>2. ASSUME NEW b \in 1..n, NEW c \in 1..n, b < c PROVE u[b].id < u[c].id
        <4>1. b \in 1..Len(t) /\ c \in 1..Len(t)
          BY <2>4
        <4> QED BY <1>2, <2>6, <3>2, <4>1 DEF Lists
      <3> QED BY <2>6, <3>1, <3>2 DEF Lists
    <2>8. u = s
      BY <2>7 DEF Only
    <2> HIDE DEF u
    <2>9. /\ Append(s, new) \in Seq(more) /\ Len(Append(s, new)) = n + 1
          /\ \A b \in 1..n : Append(s, new)[b] = t[b]
          /\ Append(s, new)[n + 1] = t[n + 1]
      <3>1. s \in Seq(more)
        BY SeqMonotonic DEF Only, Lists
      <3> QED BY <2>2, <2>3, <2>4, <2>6, <2>8, <3>1, AppendProperties
    <2>10. \A b \in 1..Len(t) : t[b] = Append(s, new)[b]
      BY <2>4, <2>9
    <2> QED BY <2>1, <2>4, <2>9, <2>10, SeqEqual
  <1> QED BY <1>1, <1>2 DEF Only

-----------------------------------------------------------------------------
(* The SQL store.                                                          *)

Texts(s) == [a \in 1..Len(s) |-> s[a].message]

\* A cursor that has nothing more to read has given up its connection, and one
\* that has not failed has a message.
CursorOK ==
    /\ where = "replay" /\ cur.err \in {"EOF", "database"} => ~cur.open
    /\ where = "replay" /\ cur.err = "nil" => cur.msg \in Entries

\* Every log has one order, and what is logged next comes last.
OrderOK ==
    /\ \A r \in rows : r.id <= lastId
    /\ \A k \in Keys : \E s : Only(s, Found(k))

\* The inductive invariant.
SqlInv == TypeOK /\ OneConnection /\ CursorOK /\ OrderOK

\* A sequence is its head and its tail.
LEMMA HeadAndTail ==
    ASSUME NEW S, NEW b \in Seq(S), b # <<>>
    PROVE  <<Head(b)>> \o Tail(b) = b
  <1>1. Len(b) \in Nat /\ 1 \in 1..Len(b) /\ Len(b) \in 1..Len(b)
    BY EmptySeq
  <1>2. SubSeq(b, 1, Len(b)) = <<b[1]>> \o SubSeq(b, 1 + 1, Len(b))
    BY <1>1, SubSeqRecursiveFirst
  <1>3. Tail(b) = SubSeq(b, 2, Len(b)) /\ Head(b) = b[1]
    BY TailIsSubSeq
  <1> QED BY <1>2, <1>3, SubSeqFull

\* What a query returns, from the one list of its rows.
LEMMA SelectedTexts ==
    ASSUME NEW found \in SUBSET Rows, NEW s, Only(s, found)
    PROVE  /\ [a \in 1..Cardinality(found) |-> Ordered(found)[a].message] = Texts(s)
           /\ Texts(s) \in Seq(Entries) /\ Len(Texts(s)) = Len(s) /\ Len(s) \in Nat
  <1>1. \A r \in found : r.id \in Nat /\ r.message \in Entries
    BY SqlAssumption DEF Rows, SqlAssumption
  <1>2. Ordered(found) = s /\ Cardinality(found) = Len(s)
    BY <1>1, OrderedIsOnly
  <1>3. s \in Seq(found) /\ Len(s) \in Nat
    BY LenProperties DEF Only, Lists
  <1>4. \A a \in 1..Len(s) : s[a].message \in Entries
    BY <1>1, <1>3, ElementOfSeq
  <1> QED BY <1>2, <1>3, <1>4 DEF Texts

LEMMA SelectedType ==
    ASSUME SqlInv, NEW k \in Keys
    PROVE  Selected(k) \in Seq(Entries)
  <1>1. Found(k) \in SUBSET Rows
    BY DEF SqlInv, TypeOK, Found
  <1>2. PICK s : Only(s, Found(k))
    BY DEF SqlInv, OrderOK
  <1> QED BY <1>1, <1>2, SelectedTexts DEF Selected

\* The INSERT appends to its log, and to no other.
LEMMA RowsAppend ==
    ASSUME SqlInv, NEW k \in Keys, NEW m \in Entries, lastId < MaxId,
           rows' = rows \cup {[id |-> lastId + 1, channel |-> k, message |-> m]},
           lastId' = lastId + 1
    PROVE  /\ rows' \subseteq Rows /\ OrderOK'
           /\ Selected(k)' = Append(Selected(k), m)
           /\ \A j \in Keys : j # k => Selected(j)' = Selected(j)
  <1> DEFINE new == [id |-> lastId + 1, channel |-> k, message |-> m]
  <1>1. /\ rows \subseteq Rows /\ lastId \in Nat /\ MaxId \in Nat
        /\ \A r \in rows : r.id \in Nat /\ r.id <= lastId
    BY SqlAssumption DEF SqlInv, TypeOK, OrderOK, Rows, SqlAssumption
  <1>2. /\ new \in Rows /\ new.id = lastId + 1 /\ new.channel = k /\ new.message = m
        /\ rows' = rows \cup {new}
    BY <1>1 DEF Rows
  <1> HIDE DEF new
  <1>3. rows' \subseteq Rows /\ \A r \in rows' : r.id <= lastId'
    BY <1>1, <1>2
  <1>4. Found(k)' = Found(k) \cup {new}
    BY <1>2 DEF Found
  <1>5. \A j \in Keys : j # k => Found(j)' = Found(j)
    BY <1>2 DEF Found
  <1>6. PICK s : Only(s, Found(k))
    BY DEF SqlInv, OrderOK
  <1>7. Only(Append(s, new), Found(k)')
    <2>1. new.id \in Nat /\ \A r \in Found(k) : r.id \in Nat /\ r.id < new.id
      BY <1>1, <1>2 DEF Found
    <2> QED BY <1>4, <1>6, <2>1, OnlyAppend
  <1>8. OrderOK'
    <2> SUFFICES ASSUME NEW j \in Keys PROVE \E t : Only(t, Found(j)')
      BY <1>3 DEF OrderOK, Only, Lists
    <2> QED BY <1>5, <1>7 DEF SqlInv, OrderOK
  <1>9. Selected(k)' = Append(Selected(k), m)
    <2>1. Found(k) \subseteq Rows /\ Found(k)' \subseteq Rows
      BY <1>1, <1>3 DEF Found
    <2>2. /\ Selected(k) = Texts(s) /\ Texts(s) \in Seq(Entries)
          /\ Len(Texts(s)) = Len(s) /\ Len(s) \in Nat
      BY <1>6, <2>1, SelectedTexts DEF Selected
    <2>3. /\ Selected(k)' = Texts(Append(s, new)) /\ Texts(Append(s, new)) \in Seq(Entries)
          /\ Len(Texts(Append(s, new))) = Len(Append(s, new))
      BY <1>7, <2>1, SelectedTexts DEF Selected
    <2>4. /\ Len(Append(s, new)) = Len(s) + 1
          /\ \A a \in 1..Len(s) : Append(s, new)[a] = s[a]
          /\ Append(s, new)[Len(s) + 1] = new
      <3>1. s \in Seq(Rows)
        BY <1>6, <2>1, SeqMonotonic DEF Only, Lists
      <3> QED BY <1>2, <3>1, AppendProperties
    <2>5. /\ Append(Texts(s), m) \in Seq(Entries) /\ Len(Append(Texts(s), m)) = Len(s) + 1
          /\ \A a \in 1..Len(s) : Append(Texts(s), m)[a] = Texts(s)[a]
          /\ Append(Texts(s), m)[Len(s) + 1] = m
      BY <2>2, AppendProperties
    <2>6. ASSUME NEW a \in 1..Len(s) + 1
          PROVE  Texts(Append(s, new))[a] = Append(Texts(s), m)[a]
      <3>1. Texts(Append(s, new))[a] = Append(s, new)[a].message
        BY <2>4 DEF Texts
      <3>2. a \in 1..Len(s) => Texts(s)[a] = s[a].message
        BY DEF Texts
      <3>3. a \in 1..Len(s) \/ a = Len(s) + 1
        BY <2>2
      <3> QED BY <1>2, <2>4, <2>5, <3>1, <3>2, <3>3
    <2> QED BY <2>2, <2>3, <2>4, <2>5, <2>6, SeqEqual
  <1> QED BY <1>3, <1>5, <1>8, <1>9 DEF Selected

\* The DELETE empties its log, and no other.
LEMMA RowsClear ==
    ASSUME SqlInv, NEW k \in Keys, rows' = {r \in rows : r.channel # k}, lastId' = lastId
    PROVE  /\ rows' \subseteq Rows /\ OrderOK'
           /\ Selected(k)' = <<>>
           /\ \A j \in Keys : j # k => Selected(j)' = Selected(j)
  <1>1. rows' \subseteq Rows /\ \A r \in rows' : r.id <= lastId'
    BY DEF SqlInv, TypeOK, OrderOK
  <1>2. Found(k)' = {} /\ \A j \in Keys : j # k => Found(j)' = Found(j)
    BY DEF Found
  <1>3. OrderOK'
    <2> SUFFICES ASSUME NEW j \in Keys PROVE \E t : Only(t, Found(j)')
      BY <1>1 DEF OrderOK, Only, Lists
    <2> QED BY <1>2, OnlyEmpty DEF SqlInv, OrderOK
  <1>4. Selected(k)' = <<>>
    <2>1. Selected(k)' = Texts(<<>>) /\ Len(Texts(<<>>)) = Len(<<>>)
          /\ Texts(<<>>) \in Seq(Entries)
      BY <1>2, OnlyEmpty, SelectedTexts DEF Selected
    <2> QED BY <2>1, EmptySeq
  <1> QED BY <1>1, <1>2, <1>3, <1>4 DEF Selected

LEMMA RowsKeep ==
    ASSUME SqlInv, UNCHANGED <<rows, lastId>>
    PROVE  /\ rows' \subseteq Rows /\ OrderOK'
           /\ \A k \in Keys : Selected(k)' = Selected(k)
  <1>1. \A k \in Keys : Found(k)' = Found(k)
    BY DEF Found
  <1>2. OrderOK'
    <2> SUFFICES ASSUME NEW j \in Keys PROVE \E t : Only(t, Found(j)')
      BY DEF SqlInv, OrderOK, Only, Lists
    <2> QED BY <1>1 DEF SqlInv, OrderOK
  <1> QED BY <1>1, <1>2 DEF SqlInv, TypeOK, Selected

-----------------------------------------------------------------------------
(* The cursor of the SQL store.                                            *)

\* What cursor.Next makes of a cursor.
LEMMA NextCursor ==
    ASSUME NEW c \in Cursors, NEW d \in Next(c)
    PROVE  /\ d \in Cursors /\ d.name = c.name
           /\ d.err \in {"EOF", "database"} => ~d.open
           /\ d.err = "nil" => d.msg \in Entries
           /\ \/ d.err = "EOF" /\ c.left = <<>>
              \/ /\ d.err = "nil" /\ c.left # <<>>
                 /\ d.msg = Head(c.left) /\ d.left = Tail(c.left)
              \/ d.err \in {"parse", "database"}
  <1>1. c.left \in Seq(Entries)
    BY DEF Cursors
  <1>2. CASE d = AtEnd(c) /\ c.left = <<>>
    BY <1>2 DEF AtEnd, Cursors, Errors
  <1>3. CASE d = Broken(c)
    <2>1. d \in Cursors
      BY <1>3, EmptySeq DEF Broken, Cursors, Errors
    <2> QED BY <1>3, <2>1 DEF Broken, Cursors
  <1>4. CASE d = Parsed(c) /\ c.left # <<>>
    <2> DEFINE m == Head(c.left)
               t == Tail(c.left)
               got == IF m \in Unparsable THEN Nil ELSE m
               err == IF m \in Unparsable THEN "parse" ELSE "nil"
    <2>1. m \in Entries /\ t \in Seq(Entries)
      BY <1>1, <1>4, HeadTailProperties
    <2>2. /\ got \in Entries \cup {Nil} /\ err \in {"parse", "nil"}
          /\ err = "nil" => got = m
      BY <2>1
    <2>3. d = [c EXCEPT !.left = t, !.msg = got, !.err = err]
      BY <1>4 DEF Parsed
    <2> HIDE DEF t, got, err, m
    <2>4. d = [open |-> c.open, left |-> t, msg |-> got, err |-> err, name |-> c.name]
      BY <2>3 DEF Cursors
    <2>5. d \in Cursors
      BY <2>1, <2>2, <2>4 DEF Cursors, Errors
    <2> QED BY <1>4, <2>1, <2>2, <2>4, <2>5 DEF m, t
  <1> QED BY <1>2, <1>3, <1>4 DEF Next

LEMMA NoCursor ==
    ASSUME NEW k \in Keys
    PROVE  noCursor(k) \in Cursors /\ ~noCursor(k).open
  BY EmptySeq DEF noCursor, Cursors, Errors

-----------------------------------------------------------------------------
(* The SQL store is a store.                                               *)

\* A cursor that moves on.
LEMMA CursorMoves ==
    ASSUME NEW S, NEW c \in [open : BOOLEAN, rest : S, ok : BOOLEAN], NEW t \in S
    PROVE  [c EXCEPT !.rest = t] = [open |-> c.open, rest |-> t, ok |-> c.ok]
  OBVIOUS

\* A step of module Store that also leaves the logs alone, but for one that a
\* replay has read to its end.
StoreStep ==
    /\ Abstract!StoreNext \/ UNCHANGED <<Logs, Cursor>>
    /\ \A k \in Keys : Len(Logs'[k]) < Len(Logs[k]) =>
          Cursor.open /\ Cursor.ok /\ Cursor.rest = <<>> /\ Logs'[k] = <<>>

\* The logs as module Store sees them.
LEMMA LogsType ==
    ASSUME SqlInv
    PROVE  /\ Logs \in [Keys -> Seq(Entries)]
           /\ \A k \in Keys : Logs[k] = Selected(k) /\ Len(Logs[k]) \in Nat
           /\ Logs' = [k \in Keys |-> Selected(k)']
  <1>1. \A k \in Keys : Selected(k) \in Seq(Entries)
    BY SelectedType
  <1> QED BY <1>1, LenProperties DEF Logs

\* A step that leaves the table alone.
LEMMA TableKept ==
    ASSUME SqlInv, UNCHANGED <<rows, lastId>>
    PROVE  /\ rows' \subseteq Rows /\ lastId' \in 0..MaxId /\ OrderOK'
           /\ Logs' = Logs
           /\ \A k \in Keys : ~(Len(Logs'[k]) < Len(Logs[k]))
  <1>1. Logs' = Logs
    BY LogsType, RowsKeep DEF Logs
  <1>2. \A k \in Keys : Len(Logs[k]) \in Nat
    BY LogsType
  <1> QED BY <1>1, <1>2, RowsKeep DEF SqlInv, TypeOK

LEMMA SqlLog ==
    ASSUME SqlInv, NEW k \in Keys, NEW m \in Entries, LogMessage(k, m)
    PROVE  SqlInv' /\ StoreStep
  <1>1. /\ where = "idle" /\ where' = where /\ cur' = cur /\ lastId < MaxId
        /\ haveSchema' \in BOOLEAN
    BY DEF LogMessage, GetChannel, SqlInv, TypeOK
  <1>2. ~cur.open /\ denied' = FALSE
    BY <1>1 DEF LogMessage, Connected, SqlInv, TypeOK, OneConnection
  <1>3. Cursor' = Cursor /\ CursorOK'
    BY <1>1 DEF Cursor, CursorOK
  <1>4. CASE UNCHANGED <<rows, lastId>>
    BY <1>1, <1>2, <1>3, <1>4, TableKept DEF SqlInv, TypeOK, OneConnection, StoreStep
  <1>5. CASE /\ rows' = rows \cup {[id |-> lastId + 1, channel |-> k, message |-> m]}
             /\ lastId' = lastId + 1
    <2>1. /\ rows' \subseteq Rows /\ OrderOK'
          /\ Selected(k)' = Append(Selected(k), m)
          /\ \A n \in Keys : n # k => Selected(n)' = Selected(n)
      BY <1>1, <1>5, RowsAppend
    <2>2. lastId' \in 0..MaxId
      BY <1>1, <1>5, SqlAssumption DEF SqlInv, TypeOK, SqlAssumption
    <2>3. SqlInv'
      BY <1>1, <1>2, <1>3, <2>1, <2>2 DEF SqlInv, TypeOK, OneConnection
    <2>4. /\ Logs \in [Keys -> Seq(Entries)] /\ Logs' \in [Keys -> Seq(Entries)]
          /\ Logs'[k] = Append(Logs[k], m)
          /\ \A n \in Keys : n # k => Logs'[n] = Logs[n]
          /\ \A n \in Keys : Len(Logs[n]) \in Nat
      <3>1. Logs[k] \in Seq(Entries) /\ \A n \in Keys : Logs'[n] = Selected(n)'
        BY LogsType
      <3>2. Append(Logs[k], m) \in Seq(Entries)
        BY <3>1, AppendProperties
      <3>3. \A n \in Keys : Selected(n)' = IF n = k THEN Append(Logs[k], m) ELSE Logs[n]
        BY <2>1, LogsType
      <3> QED BY <2>1, <3>1, <3>2, <3>3, LogsType
    <2>5. Logs' = [Logs EXCEPT ![k] = Append(@, m)]
      BY <2>4
    <2>6. Len(Logs'[k]) = Len(Logs[k]) + 1
      <3>1. Logs[k] \in Seq(Entries)
        BY <2>4
      <3> QED BY <2>4, <3>1, AppendProperties
    <2>7. Abstract!LogMessage(k)
      BY <1>3, <2>5, <2>6 DEF Abstract!LogMessage
    <2>8. ASSUME NEW n \in Keys PROVE ~(Len(Logs'[n]) < Len(Logs[n]))
      <3>1. Len(Logs[n]) \in Nat
        BY <2>4
      <3>2. CASE n = k
        BY <2>6, <3>1, <3>2
      <3>3. CASE n # k
        <4>1. Logs'[n] = Logs[n]
          BY <2>4, <3>3
        <4> QED BY <3>1, <4>1
      <3> QED BY <3>2, <3>3
    <2> QED BY <2>3, <2>7, <2>8 DEF StoreStep, Abstract!StoreNext
  <1> QED BY <1>4, <1>5 DEF LogMessage

LEMMA SqlReplay ==
    ASSUME SqlInv, NEW k \in Keys, Replay(k)
    PROVE  SqlInv' /\ StoreStep
  <1> DEFINE c == [noCursor(k) EXCEPT !.open = TRUE, !.left = Selected(k)]
  <1>1. /\ where = "idle" /\ where' = "replay" /\ haveSchema' = TRUE /\ cur' \in Next(c)
        /\ UNCHANGED <<rows, lastId, denied>>
    BY DEF Replay, GetChannel
  <1>2. Selected(k) \in Seq(Entries) /\ Logs[k] = Selected(k)
    BY SelectedType, LogsType
  <1>3. c \in Cursors /\ c.left = Selected(k)
    BY <1>2 DEF noCursor, Cursors, Errors
  <1> HIDE DEF c
  <1>4. /\ cur' \in Cursors
        /\ cur'.err \in {"EOF", "database"} => ~cur'.open
        /\ cur'.err = "nil" => cur'.msg \in Entries
        /\ \/ cur'.err = "EOF" /\ Selected(k) = <<>>
           \/ /\ cur'.err = "nil" /\ Selected(k) # <<>>
              /\ cur'.msg = Head(Selected(k)) /\ cur'.left = Tail(Selected(k))
           \/ cur'.err \in {"parse", "database"}
    BY <1>1, <1>3, NextCursor
  <1>5. SqlInv'
    BY <1>1, <1>4, TableKept DEF SqlInv, TypeOK, OneConnection, CursorOK, Points
  <1>6. Cursor' \in {[open |-> TRUE, rest |-> Logs[k], ok |-> TRUE], Abstract!failed}
    <2>1. CASE cur'.err = "EOF" /\ Selected(k) = <<>>
      BY <1>1, <1>2, <2>1 DEF Cursor
    <2>2. CASE /\ cur'.err = "nil" /\ Selected(k) # <<>>
               /\ cur'.msg = Head(Selected(k)) /\ cur'.left = Tail(Selected(k))
      <3>1. <<cur'.msg>> \o cur'.left = Selected(k)
        BY <1>2, <2>2, HeadAndTail
      <3> QED BY <1>1, <1>2, <2>2, <3>1 DEF Cursor
    <2>3. CASE cur'.err \in {"parse", "database"}
      BY <1>1, <2>3 DEF Cursor, Abstract!failed
    <2> QED BY <1>4, <2>1, <2>2, <2>3
  <1>7. ~Cursor.open
    BY <1>1 DEF Cursor
  <1>8. Abstract!Replay(k)
    BY <1>1, <1>6, <1>7, TableKept DEF Abstract!Replay
  <1> QED BY <1>1, <1>5, <1>8, TableKept DEF StoreStep, Abstract!StoreNext

LEMMA SqlAdvance ==
    ASSUME SqlInv, Advance
    PROVE  SqlInv' /\ StoreStep
  <1>1. /\ where = "replay" /\ cur.err = "nil" /\ cur' \in Next(cur) /\ where' = where
        /\ UNCHANGED <<rows, lastId, haveSchema, denied>>
    BY DEF Advance
  <1>2. cur \in Cursors /\ cur.msg \in Entries /\ cur.left \in Seq(Entries)
    BY <1>1 DEF SqlInv, TypeOK, CursorOK, Cursors
  <1>3. /\ cur' \in Cursors
        /\ cur'.err \in {"EOF", "database"} => ~cur'.open
        /\ cur'.err = "nil" => cur'.msg \in Entries
        /\ \/ cur'.err = "EOF" /\ cur.left = <<>>
           \/ /\ cur'.err = "nil" /\ cur.left # <<>>
              /\ cur'.msg = Head(cur.left) /\ cur'.left = Tail(cur.left)
           \/ cur'.err \in {"parse", "database"}
    BY <1>1, <1>2, NextCursor
  <1>4. SqlInv'
    BY <1>1, <1>3, TableKept DEF SqlInv, TypeOK, OneConnection, CursorOK, Points
  <1> DEFINE rest == <<cur.msg>> \o cur.left
  <1>5. rest # <<>> /\ Tail(rest) = cur.left
    BY <1>2
  <1>6. rest \in Seq(Entries)
    BY <1>2
  <1> HIDE DEF rest
  <1>7. Cursor = [open |-> TRUE, rest |-> rest, ok |-> TRUE]
    BY <1>1 DEF Cursor, rest
  <1>8. Cursor' \in {[open |-> TRUE, rest |-> Tail(rest), ok |-> TRUE], Abstract!failed}
    <2>1. CASE cur'.err = "EOF" /\ cur.left = <<>>
      BY <1>1, <1>5, <2>1 DEF Cursor
    <2>2. CASE /\ cur'.err = "nil" /\ cur.left # <<>>
               /\ cur'.msg = Head(cur.left) /\ cur'.left = Tail(cur.left)
      <3>1. <<cur'.msg>> \o cur'.left = cur.left
        BY <1>2, <2>2, HeadAndTail
      <3> QED BY <1>1, <1>5, <2>2, <3>1 DEF Cursor
    <2>3. CASE cur'.err \in {"parse", "database"}
      BY <1>1, <2>3 DEF Cursor, Abstract!failed
    <2> QED BY <1>3, <2>1, <2>2, <2>3
  <1>9. Abstract!Advance
    <2>1. Cursor \in [open : BOOLEAN, rest : Seq(Entries), ok : BOOLEAN]
      BY <1>6, <1>7
    <2>2. [Cursor EXCEPT !.rest = Tail(@)] = [open |-> TRUE, rest |-> Tail(rest), ok |-> TRUE]
      <3>1. /\ Tail(rest) \in Seq(Entries) /\ Cursor.rest = rest
            /\ Cursor.open = TRUE /\ Cursor.ok = TRUE
        BY <1>2, <1>5, <1>7
      <3> QED BY <2>1, <3>1, CursorMoves
    <2>3. Cursor.open /\ Cursor.rest # <<>>
      BY <1>5, <1>7
    <2> QED BY <1>1, <1>8, <2>2, <2>3, TableKept DEF Abstract!Advance
  <1> QED BY <1>1, <1>4, <1>9, TableKept DEF StoreStep, Abstract!StoreNext

\* The goroutine has no cursor any more.
LEMMA CursorClosed ==
    ASSUME SqlInv, cur' = noCursor(cur.name), where' = "idle"
    PROVE  /\ cur' \in Cursors /\ ~cur'.open /\ where' \in Points
           /\ CursorOK' /\ Cursor' = Abstract!closed
  <1>1. cur.name \in Keys
    BY DEF SqlInv, TypeOK, Cursors
  <1> QED BY <1>1, NoCursor DEF Points, CursorOK, Cursor, Abstract!closed

\* replayLog returns early, or the process is killed.
LEMMA SqlClose ==
    ASSUME SqlInv, cur' = noCursor(cur.name), where' = "idle", haveSchema' \in BOOLEAN,
           UNCHANGED <<rows, lastId, denied>>
    PROVE  SqlInv' /\ StoreStep
  <1>1. SqlInv'
    BY CursorClosed, TableKept DEF SqlInv, TypeOK, OneConnection
  <1>2. CASE where = "replay"
    <2>1. Abstract!Close
      BY <1>2, CursorClosed, TableKept DEF Abstract!Close, Cursor
    <2> QED BY <1>1, <2>1, TableKept DEF StoreStep, Abstract!StoreNext
  <1>3. CASE where # "replay"
    <2>1. Cursor' = Cursor
      BY <1>3, CursorClosed DEF Cursor, Abstract!closed
    <2> QED BY <1>1, <2>1, TableKept DEF StoreStep
  <1> QED BY <1>2, <1>3

LEMMA SqlClear ==
    ASSUME SqlInv, Clear
    PROVE  SqlInv' /\ StoreStep
  <1>0. PICK k \in Keys : k = cur.name
    BY DEF SqlInv, TypeOK, Cursors
  <1>1. /\ where = "replay" /\ cur.err = "EOF" /\ where' = "idle" /\ cur' = noCursor(k)
        /\ UNCHANGED <<lastId, haveSchema>>
    BY <1>0 DEF Clear
  <1>2. ~cur.open /\ denied' = FALSE
    BY <1>1 DEF Clear, Connected, SqlInv, CursorOK, OneConnection
  <1>4. CASE UNCHANGED rows
    BY <1>0, <1>1, <1>2, <1>4, SqlClose DEF SqlInv, TypeOK, OneConnection
  <1>5. CASE rows' = {r \in rows : r.channel # k}
    <2>1. /\ rows' \subseteq Rows /\ OrderOK'
          /\ Selected(k)' = <<>>
          /\ \A n \in Keys : n # k => Selected(n)' = Selected(n)
      BY <1>1, <1>0, <1>5, RowsClear, Zenon
    <2>2. SqlInv'
      BY <1>0, <1>1, <1>2, <2>1, CursorClosed DEF SqlInv, TypeOK, OneConnection
    <2>3. /\ Logs \in [Keys -> Seq(Entries)]
          /\ Logs' = [n \in Keys |-> IF n = k THEN <<>> ELSE Logs[n]]
      <3>1. \A n \in Keys : Selected(n)' = IF n = k THEN <<>> ELSE Logs[n]
        BY <2>1, LogsType
      <3>2. Logs' = [n \in Keys |-> Selected(n)'] /\ Logs \in [Keys -> Seq(Entries)]
        BY LogsType
      <3> QED BY <3>1, <3>2
    <2>4. Logs' = [Logs EXCEPT ![k] = <<>>]
      BY <2>3
    <2>5. Cursor = [open |-> TRUE, rest |-> <<>>, ok |-> TRUE]
      BY <1>1 DEF Cursor
    <2>6. Abstract!Clear(k)
      BY <1>0, <1>1, <2>4, CursorClosed DEF Abstract!Clear
    <2>7. \A n \in Keys : Len(Logs'[n]) < Len(Logs[n]) => Logs'[n] = <<>>
      BY <2>3, LogsType
    <2> QED BY <1>0, <2>2, <2>5, <2>6, <2>7 DEF StoreStep, Abstract!StoreNext
  <1> QED BY <1>0, <1>2, <1>4, <1>5 DEF Clear

LEMMA SqlStep ==
    ASSUME SqlInv, [SqlNext]_sqlVars
    PROVE  SqlInv' /\ StoreStep
  <1>1. ASSUME UNCHANGED <<rows, lastId, cur, where>>, haveSchema' \in BOOLEAN, denied' = FALSE
        PROVE  SqlInv' /\ StoreStep
    <2>1. Cursor' = Cursor
      BY <1>1 DEF Cursor
    <2> QED BY <1>1, <2>1, TableKept DEF SqlInv, TypeOK, OneConnection, CursorOK, StoreStep
  <1>2. CASE ReplayRefused
    <2>1. where = "idle" /\ haveSchema' \in BOOLEAN /\ UNCHANGED <<rows, lastId, cur, where>>
      BY <1>2 DEF ReplayRefused, GetChannel, SqlInv, TypeOK
    <2>2. denied' = FALSE
      BY <1>2, <2>1 DEF ReplayRefused, Connected, SqlInv, TypeOK, OneConnection
    <2> QED BY <1>1, <2>1, <2>2
  <1>3. CASE UNCHANGED sqlVars
    BY <1>1, <1>3 DEF sqlVars, SqlInv, TypeOK, OneConnection
  <1>4. CASE ReplayReturns \/ Restart
    BY <1>4, SqlClose DEF ReplayReturns, Restart, SqlInv, TypeOK
  <1> QED
    BY <1>2, <1>3, <1>4, SqlLog, SqlReplay, SqlAdvance, SqlClear DEF SqlNext

LEMMA SqlStart ==
    ASSUME SqlInit
    PROVE  SqlInv /\ Abstract!StoreInit
  <1>1. PICK k \in Keys : cur = noCursor(k)
    BY DEF SqlInit
  <1>2. rows = {} /\ lastId = 0 /\ haveSchema = FALSE /\ where = "idle" /\ denied = FALSE
    BY DEF SqlInit
  <1>3. \A n \in Keys : Found(n) = {}
    BY <1>2 DEF Found
  <1>4. SqlInv
    <2>1. TypeOK
      <3>1. lastId \in 0..MaxId /\ rows \subseteq Rows /\ where \in Points
        BY <1>2, SqlAssumption DEF Points, SqlAssumption
      <3>2. cur \in Cursors /\ ~cur.open
        BY <1>1, NoCursor
      <3> QED BY <1>2, <3>1, <3>2 DEF TypeOK
    <2>2. OrderOK
      BY <1>2, <1>3, OnlyEmpty DEF OrderOK
    <2> QED BY <1>2, <2>1, <2>2 DEF SqlInv, CursorOK, OneConnection
  <1>5. \A n \in Keys : Selected(n) = <<>>
    <2> SUFFICES ASSUME NEW n \in Keys PROVE Selected(n) = <<>>
      OBVIOUS
    <2>1. Selected(n) = Texts(<<>>) /\ Len(Texts(<<>>)) = Len(<<>>)
          /\ Texts(<<>>) \in Seq(Entries)
      BY <1>3, OnlyEmpty, SelectedTexts DEF Selected
    <2> QED BY <2>1, EmptySeq
  <1>6. Logs = [n \in Keys |-> <<>>]
    BY <1>5 DEF Logs
  <1>7. Cursor = Abstract!closed
    BY <1>2 DEF Cursor, Abstract!closed
  <1> QED BY <1>4, <1>6, <1>7 DEF Abstract!StoreInit

\* SqlInv holds in every reachable state.
LEMMA SqlInvariant == SqlSpec => []SqlInv
  <1>1. SqlInit => SqlInv
    BY SqlStart
  <1>2. SqlInv /\ [SqlNext]_sqlVars => SqlInv'
    BY SqlStep
  <1> QED BY <1>1, <1>2, PTL DEF SqlSpec

\* Rows are open only while replayLog reads them.
THEOREM SqlTypes == SqlSpec => []TypeOK
  <1>1. SqlInv => TypeOK
    BY DEF SqlInv
  <1> QED BY <1>1, SqlInvariant, PTL

\* Whichever way a replay ends, by the end of the log, an error of the database,
\* a message that does not parse, a client that is gone or a crash, no statement
\* after it finds the pool's connection taken.
THEOREM OneConnectionTheorem == SqlSpec => []OneConnection
  <1>1. SqlInv => OneConnection
    BY DEF SqlInv
  <1> QED BY <1>1, SqlInvariant, PTL

\* The SQL store is a store for every set of names and of messages, and however
\* its statements fail: a log is its rows in the order of their ids, and loses
\* none but those that a replay has read to the end.
THEOREM SqlIsStore == SqlSpec => ImplementsStore
  <1>1. SqlInit => Abstract!StoreInit
    BY SqlStart
  <1>2. SqlInv /\ [SqlNext]_sqlVars => StoreStep
    BY SqlStep
  <1>3. StoreStep => [Abstract!StoreNext]_(Abstract!storeVars)
    BY DEF StoreStep, Abstract!storeVars
  <1> QED
    BY <1>1, <1>2, <1>3, SqlInvariant, PTL
       DEF SqlSpec, ImplementsStore, Abstract!ReplayedStoreSpec, Abstract!StoreSpec,
           Abstract!ClearedWhenRead, StoreStep

-----------------------------------------------------------------------------
(* Slices of arrays.                                                       *)

Arrays == Seq(Entries \cup {Unset})

\* A slice that a program can hold, in heap h: it is within its array, and its
\* elements have been written.
Valid(h, s) ==
    /\ s \in Memory!Slices
    /\ \/ s = Memory!nil
       \/ /\ s.addr \in 1..Len(h) /\ s.len \in 1..Len(h[s.addr])
          /\ \A a \in 1..s.len : h[s.addr][a] \in Entries

\* The elements of slice s in heap h.
Part(h, s) == IF s = Memory!nil THEN <<>> ELSE SubSeq(h[s.addr], 1, s.len)

LEMMA PartIs ==
    ASSUME NEW h \in Seq(Arrays), NEW s, Valid(h, s)
    PROVE  /\ Part(h, s) \in Seq(Entries) /\ Len(Part(h, s)) = s.len /\ s.len \in Nat
           /\ \A a \in 1..s.len : Part(h, s)[a] = h[s.addr][a]
  <1>1. s.len \in Nat
    BY DEF Valid, Memory!Slices
  <1>2. CASE s = Memory!nil
    BY <1>2, EmptySeq DEF Part, Memory!nil
  <1>3. CASE s # Memory!nil
    <2> DEFINE b == h[s.addr]
               n == s.len
    <2>1. b \in Arrays /\ n \in 1..Len(b) /\ \A a \in 1..n : b[a] \in Entries
      BY <1>3, ElementOfSeq DEF Valid
    <2>2. Part(h, s) = SubSeq(b, 1, n)
      BY <1>3 DEF Part
    <2> HIDE DEF b, n
    <2>3. Len(b) \in Nat
      BY <2>1, LenProperties DEF Arrays
    <2>4. /\ SubSeq(b, 1, n) \in Seq(Entries) /\ Len(SubSeq(b, 1, n)) = n
          /\ \A a \in 1..n : SubSeq(b, 1, n)[a] = b[a]
      BY <2>1, <2>3 DEF Arrays
    <2> QED BY <1>1, <2>2, <2>4 DEF b, n
  <1> QED BY <1>2, <1>3

\* A slice whose elements are what they were, in another heap.
LEMMA PartKept ==
    ASSUME NEW h \in Seq(Arrays), NEW g \in Seq(Arrays), NEW s, Valid(h, s),
           s = Memory!nil \/ /\ s.addr \in 1..Len(g) /\ s.len <= Len(g[s.addr])
                             /\ \A a \in 1..s.len : g[s.addr][a] = h[s.addr][a]
    PROVE  Valid(g, s) /\ Part(g, s) = Part(h, s)
  <1>1. CASE s = Memory!nil
    BY <1>1 DEF Valid, Part
  <1>2. CASE s # Memory!nil
    <2>1. g[s.addr] \in Arrays /\ Len(g[s.addr]) \in Nat /\ s.len \in Nat \ {0}
      <3>1. g[s.addr] \in Arrays
        BY <1>2, ElementOfSeq
      <3>2. h[s.addr] \in Arrays
        BY <1>2, ElementOfSeq DEF Valid
      <3> QED BY <1>2, <3>1, <3>2, LenProperties DEF Arrays, Valid
    <2>2. Valid(g, s)
      BY <1>2, <2>1 DEF Valid
    <2>3. \A a \in 1..s.len : Part(g, s)[a] = Part(h, s)[a]
      BY <1>2, <2>2, PartIs
    <2> QED BY <2>2, <2>3, PartIs, SeqEqual
  <1> QED BY <1>1, <1>2

\* A slice that has one element more.
LEMMA PartAppend ==
    ASSUME NEW h \in Seq(Arrays), NEW g \in Seq(Arrays), NEW s, Valid(h, s),
           NEW t \in Memory!Slices, NEW m \in Entries,
           t.addr \in 1..Len(g), t.len = s.len + 1, t.len <= Len(g[t.addr]),
           g[t.addr][t.len] = m,
           \A a \in 1..s.len : g[t.addr][a] = Part(h, s)[a]
    PROVE  Valid(g, t) /\ Part(g, t) = Append(Part(h, s), m)
  <1>1. /\ Part(h, s) \in Seq(Entries) /\ Len(Part(h, s)) = s.len /\ s.len \in Nat
        /\ \A a \in 1..s.len : Part(h, s)[a] \in Entries
    BY PartIs, ElementOfSeq
  <1>2. g[t.addr] \in Arrays /\ Len(g[t.addr]) \in Nat
    BY ElementOfSeq, LenProperties DEF Arrays
  <1>3. Valid(g, t)
    <2>1. \A a \in 1..t.len : g[t.addr][a] \in Entries
      BY <1>1
    <2> QED BY <1>1, <1>2, <2>1 DEF Valid
  <1> DEFINE p == Part(h, s)
  <1>4. /\ Append(p, m) \in Seq(Entries) /\ Len(Append(p, m)) = s.len + 1
        /\ \A a \in 1..s.len : Append(p, m)[a] = p[a]
        /\ Append(p, m)[s.len + 1] = m
    BY <1>1, AppendProperties
  <1>5. /\ Part(g, t) \in Seq(Entries) /\ Len(Part(g, t)) = t.len
        /\ \A a \in 1..t.len : Part(g, t)[a] = g[t.addr][a]
    BY <1>3, PartIs
  <1>6. \A a \in 1..t.len : Part(g, t)[a] = Append(p, m)[a]
    <2> SUFFICES ASSUME NEW a \in 1..t.len PROVE Part(g, t)[a] = Append(p, m)[a]
      OBVIOUS
    <2>1. a \in 1..s.len \/ a = s.len + 1
      BY <1>1
    <2> QED BY <1>4, <1>5, <2>1
  <1> DEFINE q == Part(g, t)
             r == Append(p, m)
  <1>7. q \in Seq(Entries) /\ r \in Seq(Entries) /\ Len(q) = t.len /\ Len(r) = t.len
    BY <1>4, <1>5
  <1>8. \A a \in 1..t.len : q[a] = r[a]
    BY <1>6
  <1> HIDE DEF q, r
  <1>9. q = r
    BY <1>7, <1>8, SeqEqual
  <1> QED BY <1>3, <1>9 DEF q, r

-----------------------------------------------------------------------------
(* The store in memory is a store.                                         *)

\* The inductive invariant: no two logs share an array, and a log that shares
\* the cursor's has not been cut back.
MemoryInv ==
    /\ heap \in Seq(Arrays)
    /\ channels \in [Keys -> Memory!Slices]
    /\ \A k \in Keys : Valid(heap, channels[k])
    /\ Valid(heap, msgs)
    /\ i \in 0..msgs.len /\ reading \in BOOLEAN
    /\ ~reading => msgs = Memory!nil
    /\ \A k, n \in Keys : k # n /\ channels[k].addr = channels[n].addr => channels[k].addr = 0
    /\ \A k \in Keys : channels[k].addr = msgs.addr => msgs.len <= channels[k].len

LEMMA MemoryFacts ==
    ASSUME MemoryInv
    PROVE  /\ Memory!Logs = [k \in Keys |-> Part(heap, channels[k])]
           /\ Memory!Logs' = [k \in Keys |-> Part(heap', channels'[k])]
           /\ Memory!Logs \in [Keys -> Seq(Entries)]
           /\ Memory!Cursor = [open |-> reading,
                               rest |-> SubSeq(Part(heap, msgs), i + 1, msgs.len), ok |-> TRUE]
           /\ Memory!Cursor' = [open |-> reading',
                                rest |-> SubSeq(Part(heap', msgs'), i' + 1, msgs'.len),
                                ok |-> TRUE]
  <1>1. Memory!Logs = [k \in Keys |-> Part(heap, channels[k])]
    BY DEF Memory!Logs, Memory!Elements, Part
  <1>2. \A k \in Keys : Part(heap, channels[k]) \in Seq(Entries)
    BY PartIs DEF MemoryInv
  <1> QED BY <1>1, <1>2 DEF Memory!Logs, Memory!Cursor, Memory!Elements, Part

MemoryStep == [Memory!Abstract!StoreNext]_(Memory!Abstract!storeVars)

\* A message is logged: log k becomes slice t, whose array is new or the log's
\* own; in the latter case the elements that were there stay.
Grown(k, m, t) ==
    /\ t \in Memory!Slices /\ t.addr \in 1..Len(heap')
    /\ t.len = channels[k].len + 1 /\ t.len <= Len(heap'[t.addr])
    /\ heap' \in Seq(Arrays) /\ Len(heap) <= Len(heap')
    /\ heap'[t.addr][t.len] = m
    /\ \A a \in 1..channels[k].len : heap'[t.addr][a] = Part(heap, channels[k])[a]
    /\ t.addr = channels[k].addr \/ t.addr > Len(heap)
    /\ \A a \in 1..Len(heap) : a # t.addr => heap'[a] = heap[a]
    /\ channels' = [channels EXCEPT ![k] = t]
    /\ UNCHANGED <<msgs, i, reading>>

\* What other slices hold is not touched.
LEMMA GrownKeeps ==
    ASSUME MemoryInv, NEW k \in Keys, NEW m \in Entries, NEW t, Grown(k, m, t),
           NEW s, Valid(heap, s), s.addr = channels[k].addr => s.len <= channels[k].len
    PROVE  Valid(heap', s) /\ Part(heap', s) = Part(heap, s)
  <1>1. CASE s = Memory!nil
    BY <1>1, PartKept DEF MemoryInv, Grown
  <1>2. CASE s # Memory!nil
    <2>0. /\ heap \in Seq(Arrays) /\ heap' \in Seq(Arrays)
          /\ Len(heap) \in Nat /\ Len(heap') \in Nat /\ s.len \in Nat /\ channels[k].len \in Nat
          /\ s.addr \in 1..Len(heap) /\ Len(heap) <= Len(heap')
      BY <1>2, LenProperties DEF MemoryInv, Grown, Valid, Memory!Slices
    <2>1. s.addr \in 1..Len(heap')
      BY <2>0
    <2>2. CASE s.addr # t.addr
      <3>1. heap'[s.addr] = heap[s.addr]
        BY <2>0, <2>2 DEF Grown
      <3>2. s.len <= Len(heap'[s.addr])
        <4>1. heap[s.addr] \in Arrays /\ Len(heap[s.addr]) \in Nat
          BY <2>0, ElementOfSeq, LenProperties DEF Arrays
        <4> QED BY <1>2, <3>1, <4>1 DEF Valid
      <3> QED BY <2>0, <2>1, <3>1, <3>2, PartKept
    <2>3. CASE s.addr = t.addr
      <3>1. channels[k].addr = s.addr /\ s.len <= channels[k].len
        BY <2>0, <2>3 DEF Grown
      <3>2. Valid(heap, channels[k])
        BY DEF MemoryInv
      <3>3. \A a \in 1..channels[k].len : Part(heap, channels[k])[a] = heap[s.addr][a]
        BY <2>0, <3>1, <3>2, PartIs
      <3>4. \A a \in 1..s.len : heap'[s.addr][a] = heap[s.addr][a]
        BY <2>0, <2>3, <3>1, <3>3 DEF Grown
      <3>5. s.len <= Len(heap'[s.addr])
        <4>1. heap'[s.addr] \in Arrays /\ Len(heap'[s.addr]) \in Nat
          BY <2>0, <2>1, ElementOfSeq, LenProperties DEF Arrays
        <4> QED BY <2>0, <2>3, <3>1, <4>1 DEF Grown
      <3> QED BY <2>0, <2>1, <3>4, <3>5, PartKept
    <2> QED BY <2>2, <2>3
  <1> QED BY <1>1, <1>2

LEMMA GrownStep ==
    ASSUME MemoryInv, NEW k \in Keys, NEW m \in Entries, NEW t, Grown(k, m, t)
    PROVE  MemoryInv' /\ MemoryStep
  <1>1. /\ heap \in Seq(Arrays) /\ heap' \in Seq(Arrays)
        /\ channels \in [Keys -> Memory!Slices] /\ Valid(heap, channels[k])
        /\ Len(heap) \in Nat /\ channels[k].len \in Nat /\ t \in Memory!Slices
        /\ t.addr \in Nat \ {0} /\ t.len \in Nat
    BY LenProperties DEF MemoryInv, Grown, Memory!Slices
  <1>2. /\ channels'[k] = t /\ \A n \in Keys : n # k => channels'[n] = channels[n]
        /\ channels' \in [Keys -> Memory!Slices]
    BY <1>1 DEF Grown
  <1>3. Valid(heap', t) /\ Part(heap', t) = Append(Part(heap, channels[k]), m)
    BY <1>1, PartAppend DEF Grown
  <1>4. \A n \in Keys : n # k => channels[n].addr # t.addr
    <2> SUFFICES ASSUME NEW n \in Keys, n # k, channels[n].addr = t.addr PROVE FALSE
      OBVIOUS
    <2>1. channels[n].addr = 0 \/ channels[n].addr \in 1..Len(heap)
      BY DEF MemoryInv, Valid, Memory!nil
    <2>2. channels[n].addr = channels[k].addr
      BY <1>1, <2>1 DEF Grown
    <2>3. channels[n].addr = 0
      BY <2>2 DEF MemoryInv
    <2> QED BY <1>1, <2>3
  <1>5. ASSUME NEW n \in Keys, n # k
        PROVE  /\ Valid(heap', channels[n])
               /\ Part(heap', channels[n]) = Part(heap, channels[n])
    <2>1. Valid(heap, channels[n])
      BY DEF MemoryInv
    <2>2. CASE channels[n].addr # channels[k].addr
      BY <2>1, <2>2, GrownKeeps
    <2>3. CASE channels[n].addr = channels[k].addr
      <3>1. channels[n].addr = 0
        BY <1>5, <2>3 DEF MemoryInv
      <3>2. channels[n].len = 0
        BY <2>1, <3>1 DEF Valid, Memory!nil
      <3>3. channels[n].len <= channels[k].len
        BY <1>1, <3>2
      <3> QED BY <2>1, <3>3, GrownKeeps
    <2> QED BY <2>2, <2>3
  <1>6. Valid(heap', msgs) /\ Part(heap', msgs) = Part(heap, msgs)
    <2>1. Valid(heap, msgs) /\ (msgs.addr = channels[k].addr => msgs.len <= channels[k].len)
      BY DEF MemoryInv
    <2> QED BY <2>1, GrownKeeps
  <1>7. msgs' = msgs /\ i' = i /\ reading' = reading
    BY DEF Grown
  <1>8. MemoryInv'
    <2>1. \A n \in Keys : Valid(heap', channels'[n])
      BY <1>2, <1>3, <1>5
    <2>2. \A j, n \in Keys :
            j # n /\ channels'[j].addr = channels'[n].addr => channels'[j].addr = 0
      BY <1>2, <1>4 DEF MemoryInv
    <2>3. \A n \in Keys : channels'[n].addr = msgs'.addr => msgs'.len <= channels'[n].len
      <3> SUFFICES ASSUME NEW n \in Keys, channels'[n].addr = msgs.addr
                   PROVE  msgs.len <= channels'[n].len
        BY <1>7
      <3>1. CASE n # k
        BY <1>2, <3>1 DEF MemoryInv
      <3>2. CASE n = k
        <4>1. Valid(heap, msgs) /\ msgs.len \in Nat
          BY DEF MemoryInv, Valid, Memory!Slices
        <4>2. msgs.addr = 0 \/ msgs.addr \in 1..Len(heap)
          BY <4>1 DEF Valid, Memory!nil
        <4>3. msgs.addr = channels[k].addr
          BY <1>1, <1>2, <3>2, <4>2 DEF Grown
        <4>4. msgs.len <= channels[k].len
          BY <4>3 DEF MemoryInv
        <4> QED BY <1>1, <1>2, <3>2, <4>1, <4>4 DEF Grown
      <3> QED BY <3>1, <3>2
    <2> QED BY <1>1, <1>2, <1>6, <1>7, <2>1, <2>2, <2>3 DEF MemoryInv
  <1>9. Memory!Cursor' = Memory!Cursor
    BY <1>6, <1>7, MemoryFacts
  <1>10. /\ Memory!Logs \in [Keys -> Seq(Entries)]
         /\ Memory!Logs[k] = Part(heap, channels[k])
         /\ Memory!Logs' = [n \in Keys |-> IF n = k THEN Append(Memory!Logs[k], m)
                                                    ELSE Memory!Logs[n]]
    <2>1. \A n \in Keys : Part(heap', channels'[n])
                            = IF n = k THEN Append(Part(heap, channels[k]), m)
                                       ELSE Part(heap, channels[n])
      BY <1>2, <1>3, <1>5
    <2> QED BY <2>1, MemoryFacts
  <1>11. Memory!Logs' = [Memory!Logs EXCEPT ![k] = Append(@, m)]
    BY <1>10
  <1>12. Len(Memory!Logs'[k]) = Len(Memory!Logs[k]) + 1
    <2>1. Memory!Logs[k] \in Seq(Entries) /\ Memory!Logs'[k] = Append(Memory!Logs[k], m)
      BY <1>10
    <2> QED BY <2>1, AppendProperties
  <1>13. Memory!Abstract!LogMessage(k)
    BY <1>9, <1>11, <1>12 DEF Memory!Abstract!LogMessage
  <1> QED BY <1>8, <1>13 DEF MemoryStep, Memory!Abstract!StoreNext

\* What is left of a sequence from its place n on, and from the next place on.
LEMMA TailOfRest ==
    ASSUME NEW S, NEW s \in Seq(S), NEW n \in 1..Len(s)
    PROVE  /\ SubSeq(s, n, Len(s)) # <<>>
           /\ Tail(SubSeq(s, n, Len(s))) = SubSeq(s, n + 1, Len(s))
  <1>1. Len(s) \in n..Len(s) /\ n \in Int /\ Len(s) \in Int
    BY LenProperties
  <1>2. Tail(SubSeq(s, n, Len(s))) = SubSeq(s, n + 1, Len(s))
    BY <1>1, HeadTailOfSubSeq
  <1>3. Len(SubSeq(s, n, Len(s))) # 0
    BY <1>1
  <1> QED BY <1>2, <1>3, EmptySeq

\* What a slice with address 0 is.
LEMMA NilSlice ==
    ASSUME NEW h, NEW s, Valid(h, s), s.addr = 0
    PROVE  s.len = 0
  BY DEF Valid, Memory!nil

\* An array is allocated.
LEMMA NewArray ==
    ASSUME MemoryInv, NEW k \in Keys, NEW m \in Entries, NEW b \in Arrays,
           heap' = Append(heap, b), channels[k].len + 1 <= Len(b),
           b[channels[k].len + 1] = m,
           \A a \in 1..channels[k].len : b[a] = Part(heap, channels[k])[a],
           channels' = [channels EXCEPT ![k] = [addr |-> Len(heap) + 1,
                                                len  |-> channels[k].len + 1]],
           UNCHANGED <<msgs, i, reading>>
    PROVE  MemoryInv' /\ MemoryStep
  <1> DEFINE t == [addr |-> Len(heap) + 1, len |-> channels[k].len + 1]
  <1>1. heap \in Seq(Arrays) /\ Len(heap) \in Nat /\ channels[k].len \in Nat
    BY LenProperties DEF MemoryInv, Memory!Slices
  <1>2. t \in Memory!Slices
    BY <1>1 DEF Memory!Slices
  <1>3. /\ heap' \in Seq(Arrays) /\ Len(heap') = Len(heap) + 1
        /\ \A a \in 1..Len(heap) : heap'[a] = heap[a]
        /\ heap'[Len(heap) + 1] = b
    BY <1>1, AppendProperties
  <1>4. Grown(k, m, t)
    BY <1>1, <1>2, <1>3 DEF Grown
  <1> QED BY <1>4, GrownStep

LEMMA MemoryLog ==
    ASSUME MemoryInv, NEW k \in Keys, NEW m \in Entries, Memory!LogMessage(k, m)
    PROVE  MemoryInv' /\ MemoryStep
  <1> DEFINE s == channels[k]
             p == Part(heap, s)
  <1>1. /\ heap \in Seq(Arrays) /\ channels \in [Keys -> Memory!Slices] /\ Valid(heap, s)
        /\ s.len \in Nat /\ UNCHANGED <<msgs, i, reading>>
    BY DEF MemoryInv, Memory!Slices, Memory!LogMessage
  <1>2. p \in Seq(Entries) /\ Len(p) = s.len /\ \A a \in 1..s.len : p[a] = heap[s.addr][a]
    BY <1>1, PartIs
  <1>3. CASE /\ s = Memory!nil
             /\ heap' = Append(heap, <<m>>)
             /\ channels' = [channels EXCEPT ![k] = [addr |-> Len(heap) + 1, len |-> 1]]
    <2>1. /\ s.len = 0 /\ <<m>> \in Arrays
          /\ Len(<<m>>) = 1 /\ <<m>>[1] = m
      BY <1>3 DEF Memory!nil, Arrays
    <2>2. s.len + 1 = 1 /\ \A a : a \notin 1..s.len
      BY <2>1
    <2>3. channels' = [channels EXCEPT ![k] = [addr |-> Len(heap) + 1, len |-> s.len + 1]]
      BY <1>3, <2>2
    <2> DEFINE b == <<m>>
    <2>4. b \in Arrays /\ s.len + 1 <= Len(b) /\ b[s.len + 1] = m /\ heap' = Append(heap, b)
      BY <1>3, <2>1, <2>2
    <2> HIDE DEF b
    <2> QED BY <1>1, <2>2, <2>3, <2>4, NewArray
  <1>4. CASE s # Memory!nil /\ Memory!AppendCopy(k, m)
    <2> DEFINE u == [a \in 1..(s.len - 1) |-> Unset]
               b == p \o <<m>> \o u
    <2>1. heap' = Append(heap, b)
      BY <1>4 DEF Memory!AppendCopy, Memory!Elements, Part
    <2>2. channels' = [channels EXCEPT ![k] = [addr |-> Len(heap) + 1, len |-> s.len + 1]]
      BY <1>4 DEF Memory!AppendCopy
    <2>3. s.len \in Nat \ {0}
      BY <1>1, <1>4 DEF Valid
    <2>4. /\ b \in Arrays /\ s.len + 1 <= Len(b) /\ b[s.len + 1] = m
          /\ \A a \in 1..s.len : b[a] = p[a]
      <3>1. u \in Arrays /\ Len(u) \in Nat
        BY <2>3 DEF Arrays
      <3>2. p \in Arrays /\ <<m>> \in Arrays
        BY <1>2 DEF Arrays
      <3> DEFINE n == s.len
      <3>3. Len(p) = n /\ n \in Nat
        BY <1>1, <1>2
      <3> HIDE DEF u, p, n, s
      <3>4. /\ b \in Arrays /\ Len(b) = n + 1 + Len(u) /\ b[n + 1] = m
            /\ \A a \in 1..n : b[a] = p[a]
        BY <3>1, <3>2, <3>3 DEF Arrays
      <3> QED BY <3>1, <3>3, <3>4 DEF n
    <2> HIDE DEF b
    <2> QED BY <1>1, <2>1, <2>2, <2>4, NewArray
  <1>5. CASE s # Memory!nil /\ Memory!AppendInPlace(k, m)
    <2> DEFINE n == s.len
               w == s.addr
               b == heap[w]
               c == [b EXCEPT ![n + 1] = m]
               t == [addr |-> w, len |-> n + 1]
    <2>1. /\ n < Len(b) /\ heap' = [heap EXCEPT ![w][n + 1] = m]
          /\ channels' = [channels EXCEPT ![k].len = @ + 1]
      BY <1>5 DEF Memory!AppendInPlace
    <2>2. /\ w \in 1..Len(heap) /\ b \in Arrays /\ Len(b) \in Nat /\ Len(heap) \in Nat
          /\ n \in Nat /\ w \in Nat
      <3>1. w \in 1..Len(heap) /\ n \in Nat /\ w \in Nat
        BY <1>1, <1>5 DEF Valid, Memory!Slices
      <3>2. b \in Arrays
        BY <1>1, <3>1, ElementOfSeq
      <3> QED BY <1>1, <3>1, <3>2, LenProperties DEF Arrays
    <2>3. s = [addr |-> w, len |-> n] /\ t \in Memory!Slices
      BY <1>1, <2>2 DEF Valid, Memory!Slices
    <2>4. channels' = [channels EXCEPT ![k] = t]
      <3>1. [s EXCEPT !.len = @ + 1] = t
        BY <2>3
      <3> QED BY <2>1, <3>1
    <2>5. heap' = [heap EXCEPT ![w] = c]
      BY <2>1
    <2>6. /\ c \in Arrays /\ Len(c) = Len(b) /\ c[n + 1] = m
          /\ \A a \in 1..n : c[a] = b[a]
      <3> HIDE DEF b, n
      <3>1. n + 1 \in 1..Len(b)
        BY <2>1, <2>2
      <3> QED BY <2>2, <3>1, ExceptSeq DEF Arrays
    <2>7. /\ heap' \in Seq(Arrays) /\ Len(heap') = Len(heap) /\ heap'[w] = c
          /\ \A a \in 1..Len(heap) : a # w => heap'[a] = heap[a]
      <3> HIDE DEF c, w
      <3> QED BY <1>1, <2>2, <2>5, <2>6, ExceptSeq
    <2>8. \A a \in 1..n : heap'[w][a] = p[a]
      BY <1>2, <2>6, <2>7
    <2>9. Grown(k, m, t)
      <3>1. t.addr = w /\ t.len = n + 1
        OBVIOUS
      <3>2. t.len <= Len(heap'[t.addr]) /\ heap'[t.addr][t.len] = m
        BY <2>1, <2>2, <2>6, <2>7
      <3> HIDE DEF t, c
      <3> QED BY <1>1, <2>2, <2>3, <2>4, <2>7, <2>8, <3>1, <3>2 DEF Grown
    <2> QED BY <2>9, GrownStep
  <1> QED BY <1>3, <1>4, <1>5 DEF Memory!LogMessage

LEMMA MemoryClear ==
    ASSUME MemoryInv, NEW k \in Keys, Memory!Clear(k)
    PROVE  MemoryInv' /\ MemoryStep
  <1>1. /\ channels' = [channels EXCEPT ![k] = Memory!nil]
        /\ UNCHANGED <<heap, msgs, i, reading>>
    BY DEF Memory!Clear
  <1>2. Valid(heap, Memory!nil) /\ Memory!nil.addr = 0 /\ Memory!nil.len = 0
    BY DEF Valid, Memory!nil, Memory!Slices
  <1>3. /\ channels' \in [Keys -> Memory!Slices]
        /\ channels'[k] = Memory!nil
        /\ \A n \in Keys : n # k => channels'[n] = channels[n]
    BY <1>1, <1>2 DEF MemoryInv, Valid
  <1>4. MemoryInv'
    <2>1. \A n \in Keys : Valid(heap, channels'[n])
      BY <1>2, <1>3 DEF MemoryInv
    <2>2. \A j, n \in Keys :
            j # n /\ channels'[j].addr = channels'[n].addr => channels'[j].addr = 0
      BY <1>2, <1>3 DEF MemoryInv
    <2>3. \A n \in Keys : channels'[n].addr = msgs.addr => msgs.len <= channels'[n].len
      <3>1. msgs.addr = 0 => msgs.len <= 0
        BY NilSlice DEF MemoryInv
      <3> QED BY <1>2, <1>3, <3>1 DEF MemoryInv
    <2> QED BY <1>1, <1>3, <2>1, <2>2, <2>3 DEF MemoryInv
  <1>5. Memory!Cursor' = Memory!Cursor
    BY <1>1, MemoryFacts
  <1>6. /\ Memory!Logs \in [Keys -> Seq(Entries)]
        /\ Memory!Logs' = [n \in Keys |-> IF n = k THEN <<>> ELSE Memory!Logs[n]]
    <2>1. \A n \in Keys : Part(heap', channels'[n])
                            = IF n = k THEN <<>> ELSE Part(heap, channels[n])
      BY <1>1, <1>3 DEF Part
    <2> QED BY <2>1, MemoryFacts
  <1>7. Memory!Abstract!Clear(k)
    <2>1. Memory!Logs' = [Memory!Logs EXCEPT ![k] = <<>>]
      BY <1>6
    <2> QED BY <1>5, <2>1 DEF Memory!Abstract!Clear
  <1> QED BY <1>4, <1>7 DEF MemoryStep, Memory!Abstract!StoreNext

LEMMA MemoryReplay ==
    ASSUME MemoryInv, NEW k \in Keys, Memory!Replay(k)
    PROVE  MemoryInv' /\ MemoryStep
  <1>1. /\ ~reading /\ reading' = TRUE /\ msgs' = channels[k] /\ i' = 0
        /\ UNCHANGED <<heap, channels>>
    BY DEF Memory!Replay
  <1>2. Valid(heap, channels[k]) /\ channels[k].len \in Nat
    BY DEF MemoryInv, Memory!Slices
  <1>3. MemoryInv'
    <2>1. \A n \in Keys :
            channels[n].addr = channels[k].addr => channels[k].len <= channels[n].len
      <3> SUFFICES ASSUME NEW n \in Keys, n # k, channels[n].addr = channels[k].addr
                   PROVE  channels[k].len <= channels[n].len
        BY <1>2
      <3>1. channels[n].addr = 0 /\ channels[k].addr = 0
        BY DEF MemoryInv
      <3>2. channels[n].len = 0 /\ channels[k].len = 0
        BY <3>1, NilSlice DEF MemoryInv
      <3> QED BY <3>2
    <2> QED BY <1>1, <1>2, <2>1 DEF MemoryInv
  <1>4. Memory!Logs' = Memory!Logs
    BY <1>1, MemoryFacts
  <1>5. Memory!Logs[k] = Part(heap, channels[k])
    BY MemoryFacts
  <1>6. SubSeq(Part(heap, channels[k]), 0 + 1, channels[k].len) = Part(heap, channels[k])
    <2> DEFINE p == Part(heap, channels[k])
    <2>1. p \in Seq(Entries) /\ Len(p) = channels[k].len
      BY <1>2, PartIs DEF MemoryInv
    <2> HIDE DEF p
    <2>2. SubSeq(p, 1, Len(p)) = p
      BY <2>1, SubSeqFull
    <2> QED BY <2>1, <2>2 DEF p
  <1>7. /\ Memory!Cursor' = [open |-> TRUE, rest |-> Memory!Logs[k], ok |-> TRUE]
        /\ ~Memory!Cursor.open
    <2>1. Memory!Cursor.open = reading
      BY MemoryFacts
    <2>2. SubSeq(Part(heap', msgs'), i' + 1, msgs'.len) = Memory!Logs[k]
      BY <1>1, <1>5, <1>6
    <2>3. Memory!Cursor' = [open |-> reading', rest |-> Memory!Logs[k], ok |-> TRUE]
      BY <2>2, MemoryFacts
    <2> QED BY <1>1, <2>1, <2>3
  <1>8. Memory!Abstract!Replay(k)
    BY <1>4, <1>7 DEF Memory!Abstract!Replay
  <1> QED BY <1>3, <1>8 DEF MemoryStep, Memory!Abstract!StoreNext

LEMMA MemoryAdvance ==
    ASSUME MemoryInv, Memory!Advance
    PROVE  MemoryInv' /\ MemoryStep
  <1>1. /\ reading /\ i < msgs.len /\ i' = i + 1
        /\ UNCHANGED <<heap, channels, msgs, reading>>
    BY DEF Memory!Advance
  <1>2. Valid(heap, msgs) /\ i \in Nat /\ msgs.len \in Nat
    BY DEF MemoryInv, Valid, Memory!Slices
  <1>3. MemoryInv'
    <2>1. i' \in 0..msgs'.len
      BY <1>1, <1>2
    <2> QED BY <1>1, <2>1 DEF MemoryInv
  <1> DEFINE p    == Part(heap, msgs)
             rest == SubSeq(p, i + 1, msgs.len)
  <1>4. p \in Seq(Entries) /\ Len(p) = msgs.len
    BY <1>2, PartIs DEF MemoryInv
  <1>5. /\ rest # <<>> /\ Tail(rest) = SubSeq(p, i + 1 + 1, msgs.len)
        /\ rest \in Seq(Entries) /\ Tail(rest) \in Seq(Entries)
    <2> HIDE DEF p
    <2>1. i + 1 \in 1..Len(p)
      BY <1>1, <1>2, <1>4
    <2>2. rest # <<>> /\ Tail(rest) = SubSeq(p, i + 1 + 1, msgs.len)
      BY <1>4, <2>1, TailOfRest
    <2>3. rest \in Seq(Entries)
      BY <1>2, <1>4
    <2> HIDE DEF rest
    <2> QED BY <2>2, <2>3, HeadTailProperties
  <1>6. Memory!Cursor = [open |-> TRUE, rest |-> rest, ok |-> TRUE]
    <2>1. reading = TRUE
      BY <1>1 DEF MemoryInv
    <2> QED BY <2>1, MemoryFacts
  <1>7. Memory!Cursor' = [open |-> TRUE, rest |-> Tail(rest), ok |-> TRUE]
    <2>1. reading' = TRUE
      BY <1>1 DEF MemoryInv
    <2> QED BY <1>1, <1>5, <2>1, MemoryFacts
  <1> HIDE DEF rest
  <1>8. Memory!Cursor' = [Memory!Cursor EXCEPT !.rest = Tail(@)]
    <2>1. /\ Memory!Cursor \in [open : BOOLEAN, rest : Seq(Entries), ok : BOOLEAN]
          /\ Memory!Cursor.rest = rest /\ Memory!Cursor.open = TRUE /\ Memory!Cursor.ok = TRUE
      BY <1>5, <1>6
    <2> QED BY <1>5, <1>7, <2>1, CursorMoves
  <1>9. Memory!Logs' = Memory!Logs
    BY <1>1, MemoryFacts
  <1>10. Memory!Abstract!Advance
    BY <1>5, <1>6, <1>8, <1>9 DEF Memory!Abstract!Advance
  <1> QED BY <1>3, <1>10 DEF MemoryStep, Memory!Abstract!StoreNext

LEMMA MemoryClose ==
    ASSUME MemoryInv, Memory!Close
    PROVE  MemoryInv' /\ MemoryStep
  <1>1. /\ reading /\ reading' = FALSE /\ msgs' = Memory!nil /\ i' = 0
        /\ UNCHANGED <<heap, channels>>
    BY DEF Memory!Close
  <1>2. MemoryInv'
    <2>1. Valid(heap, Memory!nil) /\ Memory!nil.addr = 0 /\ Memory!nil.len = 0
      BY DEF Valid, Memory!nil, Memory!Slices
    <2>2. \A n \in Keys : channels[n].len \in Nat
      BY DEF MemoryInv, Memory!Slices
    <2>3. i' \in 0..msgs'.len
      BY <1>1, <2>1
    <2>4. \A n \in Keys : msgs'.len <= channels[n].len
      BY <1>1, <2>1, <2>2
    <2> QED BY <1>1, <2>1, <2>3, <2>4 DEF MemoryInv
  <1>3. Memory!Logs' = Memory!Logs
    BY <1>1, MemoryFacts
  <1>4. Memory!Cursor' = Memory!Abstract!closed
    <2>1. Part(heap', msgs') = <<>> /\ msgs'.len = 0
      BY <1>1 DEF Part, Memory!nil
    <2>2. SubSeq(<<>>, 0 + 1, 0) = <<>>
      OBVIOUS
    <2> QED BY <1>1, <2>1, <2>2, MemoryFacts DEF Memory!Abstract!closed
  <1>5. Memory!Cursor.open
    BY <1>1, MemoryFacts
  <1>6. Memory!Abstract!Close
    BY <1>3, <1>4, <1>5 DEF Memory!Abstract!Close
  <1> QED BY <1>2, <1>6 DEF MemoryStep, Memory!Abstract!StoreNext

\* MemoryInv holds in every reachable state.
LEMMA MemoryInvariant == Memory!EphemeralSpec => []MemoryInv
  <1>1. Memory!NewStore => MemoryInv
    <2>1. Valid(<<>>, Memory!nil) /\ Memory!nil.addr = 0 /\ Memory!nil.len = 0
      BY DEF Valid, Memory!nil, Memory!Slices
    <2> SUFFICES ASSUME Memory!NewStore PROVE MemoryInv
      OBVIOUS
    <2>2. heap \in Seq(Arrays) /\ Valid(heap, Memory!nil) /\ Memory!nil \in Memory!Slices
      BY <2>1, EmptySeq DEF Memory!NewStore, Valid
    <2>3. i \in 0..msgs.len /\ msgs = Memory!nil /\ reading = FALSE
      BY <2>1 DEF Memory!NewStore
    <2>4. channels \in [Keys -> Memory!Slices] /\ \A k \in Keys : channels[k] = Memory!nil
      BY <2>2 DEF Memory!NewStore
    <2>5. \A k \in Keys : channels[k].addr = 0 /\ msgs.len <= channels[k].len
      BY <2>1, <2>3, <2>4
    <2>6. \A k \in Keys : Valid(heap, channels[k])
      BY <2>2, <2>4
    <2> QED BY <2>2, <2>3, <2>4, <2>5, <2>6 DEF MemoryInv
  <1>2. MemoryInv /\ [Memory!EphemeralNext]_(Memory!ephemeralVars) => MemoryInv'
    <2>1. MemoryInv /\ UNCHANGED Memory!ephemeralVars => MemoryInv'
      BY DEF MemoryInv, Memory!ephemeralVars
    <2> QED
      BY <2>1, MemoryLog, MemoryClear, MemoryReplay, MemoryAdvance, MemoryClose
         DEF Memory!EphemeralNext
  <1> QED BY <1>1, <1>2, PTL DEF Memory!EphemeralSpec

\* The store in memory is a store, for every set of names and of messages:
\* appends that write into an array that an open cursor reads, appends that
\* copy it, and Clear, change nothing that the cursor is still going to return.
THEOREM MemoryIsStore == Memory!EphemeralSpec => MemoryImplementsStore
  <1>1. Memory!NewStore => Memory!Abstract!StoreInit
    <2> SUFFICES ASSUME Memory!NewStore PROVE Memory!Abstract!StoreInit
      OBVIOUS
    <2>1. Memory!Logs = [k \in Keys |-> <<>>]
      BY DEF Memory!NewStore, Memory!Logs, Memory!Elements
    <2>2. Memory!Cursor = Memory!Abstract!closed
      <3>1. SubSeq(<<>>, 0 + 1, 0) = <<>>
        OBVIOUS
      <3> QED BY <3>1 DEF Memory!NewStore, Memory!Cursor, Memory!Elements, Memory!nil,
                          Memory!Abstract!closed
    <2> QED BY <2>1, <2>2 DEF Memory!Abstract!StoreInit
  <1>2. MemoryInv /\ [Memory!EphemeralNext]_(Memory!ephemeralVars) => MemoryStep
    <2>1. MemoryInv /\ UNCHANGED Memory!ephemeralVars => MemoryStep
      BY DEF Memory!ephemeralVars, MemoryStep, Memory!Abstract!storeVars, Memory!Logs,
             Memory!Cursor, Memory!Elements
    <2> QED
      BY <2>1, MemoryLog, MemoryClear, MemoryReplay, MemoryAdvance, MemoryClose
         DEF Memory!EphemeralNext
  <1> QED
    BY <1>1, <1>2, MemoryInvariant, PTL
       DEF Memory!EphemeralSpec, MemoryImplementsStore, Memory!ImplementsStore,
           Memory!Abstract!StoreSpec, MemoryStep

=============================================================================
