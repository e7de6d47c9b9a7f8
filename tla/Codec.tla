------------------------------- MODULE Codec -------------------------------
(***************************************************************************)
(* Reading and writing IRC messages (irc/message.go): the line scanner     *)
(* with its limit, parseMessage and parseWord, WriteTo, Len and Eq.  A     *)
(* text is what a line consists of: sequences of the characters that the   *)
(* parser tells apart, ended by CRLF or by LF alone.                       *)
(*                                                                         *)
(* A line from a peer is read, written (to the other peer, or as a string  *)
(* into the message log), and what was written is read in turn.            *)
(***************************************************************************)
EXTENDS Naturals, Sequences, SequencesExt

CONSTANTS
    MaxLine,        \* bound on the characters of a line
    MaxMessageLen   \* the limit of the scanner, line end included

ASSUME CodecAssumption == MaxLine \in Nat /\ MaxMessageLen \in Nat

Chars == {":", " ", "x"}

Word  == Seq(Chars)

\* Lines of at most MaxLine characters, line end not counted.
Lines == [chars : UNION {[1..n -> Chars] : n \in 0..MaxLine}, eol : {"CRLF", "LF"}]

Size(line) == Len(line.chars) + (IF line.eol = "CRLF" THEN 2 ELSE 1)

Has(word, c) == \E j \in DOMAIN word : word[j] = c

VARIABLES
    stage,  \* "line", "read", "written", "reread", or "rejected"
    line,   \* what came in
    msg,    \* the message that was read
    text,   \* what was written
    again   \* the message that was read back

codecVars == <<stage, line, msg, text, again>>

-----------------------------------------------------------------------------
(* Parsing.                                                                *)

NoMessage == [prefix |-> <<>>, command |-> <<>>, params |-> <<>>]

\* Where the first space of s is, or where one would be after its end.
FirstSpace(s) ==
    IF Has(s, " ")
      THEN CHOOSE j \in DOMAIN s : s[j] = " " /\ ~Has(SubSeq(s, 1, j - 1), " ")
      ELSE Len(s) + 1

\* Mutant: one character more than the space is consumed.
RestEatsOne(s) == IF s[1] = ":" THEN <<>> ELSE SubSeq(s, FirstSpace(s) + 2, Len(s))

\* parseWord on s, which is not empty: the word, and what is left.
WordOf(s) == IF s[1] = ":" THEN Tail(s) ELSE SubSeq(s, 1, FirstSpace(s) - 1)
RestOf(s) == IF s[1] = ":" THEN <<>> ELSE SubSeq(s, FirstSpace(s) + 1, Len(s))

\* The words of s.
Params[s \in Word] == IF s = <<>> THEN <<>> ELSE <<WordOf(s)>> \o Params[RestOf(s)]

HasPrefix(s) == s # <<>> /\ s[1] = ":"

\* What is left of line s for the command.
Body(s) ==
    IF ~HasPrefix(s) THEN s
    ELSE IF Tail(s) = <<>> THEN <<>> ELSE RestOf(Tail(s))

\* parseMessage returns an error when there is no command.
Parses(s) == Body(s) # <<>>

parseMessage(s) ==
    [prefix  |-> IF HasPrefix(s) THEN WordOf(Tail(s)) ELSE <<>>,
     command |-> WordOf(Body(s)),
     params  |-> Params[RestOf(Body(s))]]

\* ReadMessage: a line that does not fit into the scanner's buffer is an error.
Readable(l) == Size(l) <= MaxMessageLen /\ Parses(l.chars)

-----------------------------------------------------------------------------
(* Writing.                                                                *)

\* Mutant: the last parameter never gets a colon.
LastNoColon(param) == <<" ">> \o param

\* The last parameter gets a colon if it needs one to keep its spaces.
LastParam(param) == IF Has(param, " ") THEN <<" ", ":">> \o param ELSE <<" ">> \o param

WriteTo(m) ==
    LET n == Len(m.params) IN
      [chars |-> (IF m.prefix # <<>> THEN <<":">> \o m.prefix \o <<" ">> ELSE <<>>)
                 \o m.command
                 \o FlattenSeq([j \in 1..n |-> IF j < n THEN <<" ">> \o m.params[j]
                                                         ELSE LastParam(m.params[j])]),
       eol |-> "CRLF"]

\* Mutant: the space after the prefix is forgotten.
MessageLenNoSpace(m) ==
    LET n == Len(m.params) IN
      (IF m.prefix # <<>> THEN Len(m.prefix) + 1 ELSE 0) + Len(m.command) + n
        + (IF n # 0 /\ Has(m.params[n], " ") THEN 1 ELSE 0)
        + Len(FlattenSeq(m.params)) + 2

\* Message.Len.
MessageLen(m) ==
    LET n == Len(m.params) IN
      (IF m.prefix # <<>> THEN Len(m.prefix) + 2 ELSE 0) + Len(m.command) + n
        + (IF n # 0 /\ Has(m.params[n], " ") THEN 1 ELSE 0)
        + Len(FlattenSeq(m.params)) + 2

-----------------------------------------------------------------------------

CodecInit ==
    /\ stage = "line"
    /\ line \in Lines
    /\ msg = NoMessage /\ again = NoMessage
    /\ text = [chars |-> <<>>, eol |-> "CRLF"]

\* A peer's line is read.  Validate wants a command.
Read ==
    /\ stage = "line"
    /\ IF Readable(line) /\ parseMessage(line.chars).command # <<>>
         THEN stage' = "read" /\ msg' = parseMessage(line.chars)
         ELSE stage' = "rejected" /\ UNCHANGED msg
    /\ UNCHANGED <<line, text, again>>

\* WriteMessage or String.
Write ==
    /\ stage = "read"
    /\ stage' = "written"
    /\ text' = WriteTo(msg)
    /\ UNCHANGED <<line, msg, again>>

\* The other peer's ReadMessage, or ParseMessage of a logged message.
ReadAgain ==
    /\ stage = "written"
    /\ IF Readable(text)
         THEN stage' = "reread" /\ again' = parseMessage(text.chars)
         ELSE stage' = "rejected" /\ UNCHANGED again
    /\ UNCHANGED <<line, msg, text>>

CodecNext == Read \/ Write \/ ReadAgain

CodecSpec == CodecInit /\ [][CodecNext]_codecVars

-----------------------------------------------------------------------------
(* Properties                                                              *)

\* The line that m stands for, its last word marked with a colon or not.
Spelled(m, colon) ==
    LET words == <<m.command>> \o m.params
        n     == Len(words)
    IN (IF HasPrefix(line.chars) THEN <<":">> \o m.prefix \o <<" ">> ELSE <<>>)
       \o FlattenSeq([j \in 1..n |-> (IF j > 1 THEN <<" ">> ELSE <<>>)
                                     \o (IF j = n /\ colon THEN <<":">> ELSE <<>>) \o words[j]])

\* parseMessage neither drops nor invents anything: prefix, command and
\* parameters spell the line again, up to the colon before the last word and a
\* space at the end.
ParsedFaithfully ==
    stage = "read" =>
        \E colon \in BOOLEAN, tail \in {<<>>, <<" ">>} :
            line.chars = Spelled(msg, colon) \o tail

\* A word that means itself without a colon in front of it.
Plain(word) == word # <<>> /\ word[1] # ":" /\ ~Has(word, " ")

\* What is written of a message is read as that message, if its command is a plain
\* word, and so is its last parameter unless it has a space.
PlainSurvives ==
    LET n == Len(msg.params) IN
      /\ stage = "reread"
      /\ Plain(msg.command)
      /\ n > 0 => Has(msg.params[n], " ") \/ Plain(msg.params[n])
      => again = msg

\* What the tests say of every message: "Verify that writing out msg and reading it
\* back results in the same value."
ReadBackSame == stage = "reread" => again = msg

\* Message.Len is the length of what WriteTo writes ("Make sure Message.Len
\* computes the actual length of the serialized message"), and a message that came
\* with CRLF, as every one should, is not longer than it was, so that it can be read
\* wherever it was read before.
WrittenLength ==
    stage = "written" =>
        /\ MessageLen(msg) = Size(text)
        /\ line.eol = "CRLF" => Size(text) <= Size(line)

\* What the tests say of every line: "Make sure that parsing and then re-serializing
\* a message doesn't result in a longer message."
DoesntGrow == stage = "written" => Size(text) <= Size(line)

=============================================================================
