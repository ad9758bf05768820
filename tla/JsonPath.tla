------------------------------ MODULE JsonPath ------------------------------
(***************************************************************************)
(* The path tokenizer (json_path.c) and the search path it builds          *)
(* (path.c).  A path string is a sequence of one-character strings; the    *)
(* result is the sequence of search path nodes, with the flag              *)
(* hasLeadingDot that the cache uses to normalize path strings.            *)
(* The text of error messages is left out.                                 *)
(***************************************************************************)
EXTENDS Integers, Sequences, SequencesExt

CONSTANTS
    Letters,    \* characters isalpha accepts
    IntBits,    \* width of the C type int, which holds an array index
    CapLimit    \* largest capacity __searchPath_append grows to by doubling

ASSUME IntBitsAssumption == IntBits \in Nat \ {0}
ASSUME CapLimitAssumption == CapLimit \in Nat \ {0}

DigitValue == [c \in {"0", "1", "2", "3", "4", "5", "6", "7", "8", "9"} |->
    CASE c = "0" -> 0 [] c = "1" -> 1 [] c = "2" -> 2 [] c = "3" -> 3
      [] c = "4" -> 4 [] c = "5" -> 5 [] c = "6" -> 6 [] c = "7" -> 7
      [] c = "8" -> 8 [] c = "9" -> 9]

isdigit(c) == c \in DOMAIN DigitValue

\* isalpha accepts no digit and none of the marks of a path.
Marks == {".", "[", "]", "\"", "'", "-"}
ASSUME LettersAssumption == Letters \cap (Marks \cup DOMAIN DigitValue) = {}

IdentFirst(c) == c \in Letters \cup {"$", "_"}
IdentChar(c) == IdentFirst(c) \/ isdigit(c)

\* Conversion of a 64-bit number to int.
ToInt(n) == ((n + 2^(IntBits - 1)) % 2^IntBits) - 2^(IntBits - 1)

-----------------------------------------------------------------------------
(* Search path nodes.                                                      *)

KeyNode(k) == [type |-> "key", key |-> k, index |-> 0]
IndexNode(i) == [type |-> "index", key |-> <<>>, index |-> i]
RootNode == [type |-> "root", key |-> <<>>, index |-> 0]

\* __searchPath_append: capacity after a node is appended to n nodes.
AppendCapLate(n, cap) == IF n <= cap THEN cap ELSE IF cap = 0 THEN 1 ELSE cap * 2

AppendCap(n, cap) ==
    IF n < cap THEN cap ELSE IF cap = 0 THEN 1 ELSE
        IF cap * 2 < CapLimit THEN cap * 2 ELSE CapLimit

SearchPath_IsRootPath(nodes) == Len(nodes) = 1 /\ nodes[1].type = "root"

-----------------------------------------------------------------------------
(* The tokenizer: one step per character.                                  *)

Start == [st |-> "NULL", tok |-> <<>>, nodes |-> <<>>, cap |-> 0,
          hasLeadingDot |-> FALSE, skip |-> FALSE, err |-> FALSE]

Fail(s) == [s EXCEPT !.err = TRUE]
Goto(s, st) == [s EXCEPT !.st = st]
Take(s, c, st) == [s EXCEPT !.st = st, !.tok = Append(@, c)]

EndToken(s, node, st) ==
    [s EXCEPT !.st = st, !.tok = <<>>, !.nodes = Append(@, node),
              !.cap = AppendCap(Len(s.nodes), @)]

\* The number of an index token, with or without a minus sign.
AddDigit(num, c) == IF isdigit(c) THEN num * 10 + DigitValue[c] ELSE num

TokenNumberUnsigned(tok) == FoldLeft(AddDigit, 0, tok)

TokenNumber(tok) ==
    LET num == FoldLeft(AddDigit, 0, tok)
    IN  IF tok[1] = "-" THEN -num ELSE num

\* What a key token becomes: the string "." alone is the root.
KeyOrRoot(json, s) == IF json = <<".">> THEN RootNode ELSE KeyNode(s.tok)

\* Quote c ends a bracketed key if a closing bracket follows.
EndQuoted(json, i, s) ==
    IF i < Len(json) /\ json[i + 1] = "]"
    THEN [EndToken(s, KeyNode(s.tok), "NULL") EXCEPT !.skip = TRUE]
    ELSE Fail(s)

InBracket(s, c) ==
    CASE c = "\"" -> Goto(s, "DKEY")
      [] c = "'" -> Goto(s, "SKEY")
      [] isdigit(c) -> Take(s, c, "NUMBER")
      [] c = "-" -> Take(s, c, "MINUS")
      [] OTHER -> Fail(s)

InNumber(s, c) ==
    CASE isdigit(c) -> Take(s, c, "NUMBER")
      [] c = "]" -> EndToken(s, IndexNode(ToInt(TokenNumber(s.tok))), "NULL")
      [] OTHER -> Fail(s)

InIdent(s, c) ==
    CASE c = "." -> EndToken(s, KeyNode(s.tok), "DOT")
      [] c = "[" -> EndToken(s, KeyNode(s.tok), "BRACKET")
      [] IdentChar(c) -> Take(s, c, "IDENT")
      [] OTHER -> Fail(s)

AtNullAnyDot(s, c, first) ==
    CASE c = "." -> [Goto(s, "ROOT") EXCEPT !.hasLeadingDot = TRUE]
      [] c = "[" -> Goto(s, "BRACKET")
      [] IdentFirst(c) -> Take(s, c, "IDENT")
      [] OTHER -> Fail(s)

AtNull(s, c, first) ==
    CASE c = "." -> [Goto(s, "ROOT") EXCEPT !.hasLeadingDot = @ \/ first]
      [] c = "[" -> Goto(s, "BRACKET")
      [] IdentFirst(c) -> Take(s, c, "IDENT")
      [] OTHER -> Fail(s)

Transition(json, i, s) ==
    LET c == json[i] IN
    CASE s.st = "NULL" -> AtNull(s, c, i = 1)
      [] s.st = "BRACKET" -> InBracket(s, c)
      [] s.st \in {"ROOT", "DOT"} -> IF IdentFirst(c) THEN Take(s, c, "IDENT") ELSE Fail(s)
      [] s.st = "NUMBER" -> InNumber(s, c)
      [] s.st = "IDENT" -> InIdent(s, c)
      [] s.st = "DKEY" -> IF c = "\"" THEN EndQuoted(json, i, s) ELSE Take(s, c, "DKEY")
      [] s.st = "SKEY" -> IF c = "'" THEN EndQuoted(json, i, s) ELSE Take(s, c, "SKEY")
      [] s.st = "MINUS" -> IF isdigit(c) THEN Take(s, c, "NUMBER") ELSE Fail(s)

\* "root or ident string must end if len reached"
AtEnd(json, i, s) ==
    IF i = Len(json) /\ s.st \in {"IDENT", "ROOT"} /\ ~s.err
    THEN EndToken(s, KeyOrRoot(json, s), "NULL") ELSE s

Step(json, s, i) ==
    IF s.err THEN s
    ELSE IF s.skip THEN [s EXCEPT !.skip = FALSE]
    ELSE AtEnd(json, i, Transition(json, i, s))

\* The positions of the string, each with the string to read there.
Places(json) == [i \in 1..Len(json) |-> [json |-> json, i |-> i]]
ReadAt(s, at) == Step(at.json, s, at.i)

Tokenize(json) == FoldLeft(ReadAt, Start, Places(json))

ParseJSONPath(json) ==
    LET s == Tokenize(json)
    IN  [ok |-> ~s.err /\ s.st = "NULL", nodes |-> s.nodes, cap |-> s.cap,
         hasLeadingDot |-> s.hasLeadingDot]

\* The string the cache knows a path by: getSerializedJson and
\* maybeClearPathCache strip a leading dot.
CachePath(json) == IF ParseJSONPath(json).hasLeadingDot THEN Tail(json) ELSE json
=============================================================================
