----------------------------- MODULE MCJsonPath -----------------------------
(***************************************************************************)
(* Inputs for the path tokenizer: every string over a small alphabet, and  *)
(* every path written in the notations that docs/path.md lists, together   *)
(* with the nodes it means.                                                *)
(***************************************************************************)
EXTENDS JsonPath

CONSTANTS
    Alphabet,   \* characters of the strings
    MaxString,  \* bound on the length of the strings
    Names,      \* keys of the written paths
    Numbers,    \* array indexes of the written paths, as text, with their value
    MaxNodes,   \* bound on the nodes of the written paths
    Unknown     \* the meaning of a string that was not written as a path

ASSUME AlphabetAssumption == Alphabet \subseteq STRING

\* What docs/path.md takes for a name and for an index.
ASSUME NamesAssumption ==
    /\ Names \subseteq Seq(Letters \cup {"$", "_"} \cup DOMAIN DigitValue)
    /\ \A k \in Names : k # <<>> /\ k[1] \notin DOMAIN DigitValue
Decimal(digits) ==
    LET value[i \in 0..Len(digits)] ==
            IF i = 0 THEN 0 ELSE value[i - 1] * 10 + DigitValue[digits[i]]
    IN  value[Len(digits)]

ASSUME NumbersAssumption ==
    \A num \in Numbers : \E minus \in BOOLEAN :
        LET digits == IF minus THEN Tail(num.text) ELSE num.text
        IN  /\ num.text \in Seq({"-"} \cup DOMAIN DigitValue) /\ num.text # <<>>
            /\ minus => num.text[1] = "-"
            /\ digits \in Seq(DOMAIN DigitValue) /\ digits # <<>>
            /\ num.value = ToInt(IF minus THEN -Decimal(digits) ELSE Decimal(digits))

VARIABLES
    json,       \* the path string
    nodes       \* the search path it is meant to be, or Unknown

Init == json = <<>> /\ nodes \in {<<>>, Unknown}

\* One more character.
AddChar(c) ==
    /\ nodes = Unknown
    /\ Len(json) < MaxString
    /\ json' = Append(json, c)
    /\ UNCHANGED nodes

Written == nodes # Unknown /\ Len(nodes) < MaxNodes

\* Dotted-child notation; the dot is optional at the beginning.
AddDotted(k, dot) ==
    /\ Written
    /\ json # <<>> => dot = <<".">>
    /\ json' = json \o dot \o k
    /\ nodes' = Append(nodes, KeyNode(k))

\* Quoted-child notation, with quote q.
AddQuoted(k, q) ==
    /\ Written
    /\ json' = json \o <<"[", q>> \o k \o <<q, "]">>
    /\ nodes' = Append(nodes, KeyNode(k))

AddIndex(num) ==
    /\ Written
    /\ json' = json \o <<"[">> \o num.text \o <<"]">>
    /\ nodes' = Append(nodes, IndexNode(num.value))

\* The next path string of a client.
StartOver == json' = <<>> /\ nodes' \in {<<>>, Unknown}

Next ==
    \/ \E c \in Alphabet : AddChar(c)
    \/ \E k \in Names, dot \in {<<>>, <<".">>} : AddDotted(k, dot)
    \/ \E k \in Names, q \in {"\"", "'"} : AddQuoted(k, q)
    \/ \E num \in Numbers : AddIndex(num)
    \/ StartOver

Spec == Init /\ [][Next]_<<json, nodes>>

-----------------------------------------------------------------------------
MCLetters == {"a", "b"}
MCAlphabet == {".", "[", "]", "\"", "'", "a", "1", "-"}
MCNames == {<<"a">>, <<"_", "1">>}
MCNumbers == {[text |-> <<"0">>, value |-> 0], [text |-> <<"1", "2">>, value |-> 12],
              [text |-> <<"-", "2">>, value |-> -2]}

Parsed == ParseJSONPath(json)

\* Every path put together from names after dots, the first dot optional, from
\* quoted names and from indexes in brackets is accepted and means the keys and
\* indexes it was written from, through all the states of the tokenizer, as
\* long as there is room for its nodes.
SpellingsUnderstood ==
    nodes # Unknown /\ Len(nodes) <= CapLimit => Parsed.ok /\ Parsed.nodes = nodes

\* The string by which the cache knows a path resolves to the same value as
\* the path itself, whatever string the tokenizer accepts: two paths that
\* share an entry of the cache share the value.  The root may be written "."
\* or not at all.  Paths that are written behind their array are left out.
Resolved(p) == IF SearchPath_IsRootPath(p.nodes) THEN <<>> ELSE p.nodes

CachePathFaithful ==
    Parsed.ok /\ Len(Parsed.nodes) <= CapLimit =>
        LET stripped == ParseJSONPath(CachePath(json))
        IN  stripped.ok /\ Resolved(stripped) = Resolved(Parsed)

\* __searchPath_append writes behind the array it allocated just when a path has
\* more nodes than the capacity may grow to: up to there the doubling keeps
\* ahead of the nodes, and from there it does not go on.
NodesFitCapacity == Len(Parsed.nodes) <= Parsed.cap <=> Len(Parsed.nodes) <= CapLimit
=============================================================================
