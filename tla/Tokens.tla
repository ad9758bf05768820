------------------------------- MODULE Tokens -------------------------------
(***************************************************************************)
(* What the readers and writers of documents exchange: the tokens of a     *)
(* JSON text and the items of an RDB stream or of a RESP reply.            *)
(*                                                                         *)
(* A JSON text is a sequence of structural characters, quotes, characters  *)
(* of strings, whitespace, and one token per number or literal name.  A    *)
(* double is a whole number here: %.17g prints it with an exponent, marked *)
(* "e", from ExpLimit on (10^17), and like an integer below.               *)
(***************************************************************************)
EXTENDS NodeTree, TLC

CONSTANT ExpLimit

NumberText(n) ==
    IF n.type = "number" /\ (n.num >= ExpLimit \/ n.num <= -ExpLimit)
    THEN ToString(n.num) \o "e" ELSE ToString(n.num)

\* The characters with an escape of two characters, which is one token.
twoCharEscape == [newline |-> "\\n", quote |-> "\\\""]

Escape(c) == IF c \in DOMAIN twoCharEscape THEN twoCharEscape[c] ELSE c

Unescape(t) ==
    IF \E c \in DOMAIN twoCharEscape : twoCharEscape[c] = t
    THEN CHOOSE c \in DOMAIN twoCharEscape : twoCharEscape[c] = t ELSE t

Quoted(s) == <<"\"">> \o [i \in DOMAIN s |-> Escape(s[i])] \o <<"\"">>

\* The parts with a delimiter between them.
Joined(parts, delim) ==
    FlattenSeq([i \in 1..Len(parts) |-> (IF i = 1 THEN <<>> ELSE delim) \o parts[i]])

\* A node holds the key of its value: the entries of dictval.
KeyVal(key, val) == New("keyval", 0, key, <<>>, <<val>>)

\* An item of a stream or reply: what was written, a number or a string.
Item(kind, num, str) == [kind |-> kind, num |-> num, str |-> str]

\* NodeType
TypeCode ==
    [null |-> 1, string |-> 2, number |-> 4, integer |-> 8,
     boolean |-> 16, dict |-> 32, array |-> 64, keyval |-> 128]

TypeOf(code) == CHOOSE t \in DOMAIN TypeCode : TypeCode[t] = code
=============================================================================
