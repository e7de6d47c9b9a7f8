-------------------------------- MODULE Names --------------------------------
(***************************************************************************)
(* Client ids (irc/clientid.go) and masks (irc/mask/mask.go): pure         *)
(* functions on texts, which are sequences of the characters they tell     *)
(* apart.  A run takes one text and applies the functions to it.           *)
(***************************************************************************)
EXTENDS Naturals, Sequences, SequencesExt

CONSTANTS
    MaxText,    \* bound on the length of a text that is parsed
    MaxMask,    \* bound on the length of a mask and of the text it is put to
    Ordinary    \* characters that mean nothing in an id or a mask

ASSUME NamesAssumption == MaxText \in Nat /\ MaxMask \in Nat

IDChars   == Ordinary \cup {"@", "+", "!"}
MaskChars == Ordinary \cup {"?", "*", "\\"}

Upto(n, chars) == UNION {[1..k -> chars] : k \in 0..n}

\* c occurs at most once: strings.Split yields one part or two.
Once(s, c) == \A i, j \in DOMAIN s : s[i] = c /\ s[j] = c => i = j

\* What is before and after the only c in s.
Where(s, c)  == CHOOSE j \in DOMAIN s : s[j] = c
Before(s, c) == SubSeq(s, 1, Where(s, c) - 1)
Behind(s, c) == SubSeq(s, Where(s, c) + 1, Len(s))

-----------------------------------------------------------------------------
(* Client ids.                                                             *)

NoClientID == [flag |-> <<>>, nick |-> <<>>, user |-> <<>>, host |-> <<>>]

Flagged(text) == text # <<>> /\ text[1] \in {"@", "+"}

Unflagged(text) == IF Flagged(text) THEN Tail(text) ELSE text

\* Mutant: the host is not cut off.
SplitKeepsHost(s) == [NoClientID EXCEPT !.nick = s]

\* The parts of nick, nick@host or nick!user@host.
SplitID(s) ==
    IF ~Contains(s, "@") THEN [NoClientID EXCEPT !.nick = s]
    ELSE LET name == Before(s, "@") IN
      IF ~Contains(name, "!")
        THEN [NoClientID EXCEPT !.nick = name, !.host = Behind(s, "@")]
        ELSE [NoClientID EXCEPT !.nick = Before(name, "!"), !.user = Behind(name, "!"),
                                !.host = Behind(s, "@")]

\* ParseClientID returns no error.
IsClientID(text) ==
    LET s == Unflagged(text) IN
      /\ Once(s, "@")
      /\ Contains(s, "@") => Once(Before(s, "@"), "!")
      /\ SplitID(s).nick # <<>>
      /\ SplitID(s).user # <<>> => SplitID(s).host # <<>>

ParseClientID(text) ==
    [SplitID(Unflagged(text)) EXCEPT !.flag = IF Flagged(text) THEN <<text[1]>> ELSE <<>>]

\* ClientID.String.
IDString(id) ==
    id.flag \o id.nick
      \o IF id.host = <<>> THEN <<>>
         ELSE (IF id.user # <<>> THEN <<"!">> \o id.user ELSE <<>>) \o <<"@">> \o id.host

-----------------------------------------------------------------------------
(* Masks.                                                                  *)

\* A regexp is a sequence of literals, "any" (.) and "some" (.*).
Literal(c) == [kind |-> "literal", char |-> c]
AnyChar    == [kind |-> "any", char |-> ""]
AnyText    == [kind |-> "some", char |-> ""]

\* Mutant: an escape lasts.
TranslateStuck(acc, c) ==
    IF acc.inEscape THEN [acc EXCEPT !.re = Append(@, Literal(c))]
    ELSE CASE c = "?"  -> [acc EXCEPT !.re = Append(@, AnyChar)]
           [] c = "*"  -> [acc EXCEPT !.re = Append(@, AnyText)]
           [] c = "\\" -> [acc EXCEPT !.inEscape = TRUE]
           [] OTHER    -> [acc EXCEPT !.re = Append(@, Literal(c))]

\* One turn of ToRegexp's loop.
Translate(acc, c) ==
    IF acc.inEscape THEN [re |-> Append(acc.re, Literal(c)), inEscape |-> FALSE]
    ELSE CASE c = "?"  -> [acc EXCEPT !.re = Append(@, AnyChar)]
           [] c = "*"  -> [acc EXCEPT !.re = Append(@, AnyText)]
           [] c = "\\" -> [acc EXCEPT !.inEscape = TRUE]
           [] OTHER    -> [acc EXCEPT !.re = Append(@, Literal(c))]

ToRegexp(mask) ==
    LET acc[k \in 0..Len(mask)] ==
          IF k = 0 THEN [re |-> <<>>, inEscape |-> FALSE]
          ELSE Translate(acc[k - 1], mask[k])
    IN acc[Len(mask)].re

Texts == Seq(MaskChars)

Regexps == Seq([kind : {"literal", "any", "some"}, char : MaskChars \cup {""}])

\* The texts all of which a regexp matches, by Go's regexp package.
Matches[re \in Regexps] ==
    IF re = <<>> THEN {<<>>}
    ELSE {s \in Texts :
            \/ /\ Head(re).kind = "some"
               /\ \E k \in 0..Len(s) : SubSeq(s, k + 1, Len(s)) \in Matches[Tail(re)]
            \/ /\ Head(re).kind # "some" /\ s # <<>>
               /\ Head(re).kind = "any" \/ Head(re).char = Head(s)
               /\ Tail(s) \in Matches[Tail(re)]}

-----------------------------------------------------------------------------

VARIABLES
    idText, \* a client id
    mask,   \* a mask
    input,  \* a text that is put to the mask
    done    \* the functions have been applied

namesVars == <<idText, mask, input, done>>

NamesInit ==
    /\ \/ idText \in Upto(MaxText, IDChars) /\ mask = <<>> /\ input = <<>>
       \/ /\ idText = <<>>
          /\ mask \in Upto(MaxMask, MaskChars)
          /\ input \in Upto(MaxMask, MaskChars)
    /\ done = FALSE

Apply ==
    /\ ~done
    /\ done' = TRUE
    /\ UNCHANGED <<idText, mask, input>>

NamesSpec == NamesInit /\ [][Apply]_namesVars

-----------------------------------------------------------------------------
(* Properties                                                              *)

\* A parsed id has a nick without a host in it, and stands for its text again
\* (TestParse), unless a part that is marked is empty: nick@, nick!@host.
ParsedIDFaithful ==
    LET id == ParseClientID(idText)
        s  == Unflagged(idText)
    IN
      done /\ IsClientID(idText) =>
        /\ ~Contains(id.nick, "@")
        /\ IDString(id) = idText <=>
             ~(/\ Contains(s, "@")
               /\ id.host = <<>> \/ (id.user = <<>> /\ Contains(Before(s, "@"), "!")))

\* The first character of m escapes the second one: by RFC 2812, 2.5, a wildcard,
\* and by mask_test.go also a backslash ("On escaping backslashes").
Escapes(m) == Head(m) = "\\" /\ Tail(m) # <<>> /\ m[2] \in {"?", "*", "\\"}

\* What a mask matches: ? one character, * any text, what is escaped itself, and
\* every other character, a backslash that escapes nothing included, itself.
Meant[m \in Texts] ==
    IF m = <<>> THEN {<<>>}
    ELSE {s \in Texts :
            \/ /\ Head(m) = "*"
               /\ \E k \in 0..Len(s) : SubSeq(s, k + 1, Len(s)) \in Meant[Tail(m)]
            \/ Head(m) = "?" /\ s # <<>> /\ Tail(s) \in Meant[Tail(m)]
            \/ /\ Escapes(m)
               /\ s # <<>> /\ Head(s) = m[2] /\ Tail(s) \in Meant[Tail(Tail(m))]
            \/ /\ Head(m) \notin {"*", "?"} /\ ~Escapes(m)
               /\ s # <<>> /\ Head(s) = Head(m) /\ Tail(s) \in Meant[Tail(m)]}

\* Every backslash of m escapes something, or is escaped.
OnlyEscapes[m \in Texts] ==
    m # <<>> => IF Head(m) = "\\" THEN Escapes(m) /\ OnlyEscapes[Tail(Tail(m))]
                                 ELSE OnlyEscapes[Tail(m)]

Parts(s) == {SubSeq(s, a, b) : a \in 1..(Len(s) + 1), b \in 0..Len(s)}

\* Go's regexp.MatchString: some part of s matches, as nothing anchors re.
MatchString(re, s) == \E part \in Parts(s) : part \in Matches[re]

\* The pattern of a mask finds in a string what the mask means, if the mask has no
\* backslash but to escape something: a wildcard or an escape next to another never
\* swallows a character or invents one.
RegexpIsMask ==
    done /\ OnlyEscapes[mask] =>
        (MatchString(ToRegexp(mask), input) <=> \E part \in Parts(input) : part \in Meant[mask])

\* What ToRegexp says of itself: a "pattern matching the same set of strings, as
\* recognized by go's regexp package".
SameStrings == done => (MatchString(ToRegexp(mask), input) <=> input \in Meant[mask])

=============================================================================
