----------------------------- MODULE Documents ------------------------------
(***************************************************************************)
(* Documents going out of the server and coming back: the traversal of     *)
(* Serializer writes a document to an RDB file, which RdbLoader reads, to  *)
(* a JSON text, which JsonParser reads, or to a RESP reply; and JsonParser *)
(* reads texts of clients, chosen one token at a time.  What a document is *)
(* to be written and read back as are parameters: JsonText defines them.   *)
(***************************************************************************)
EXTENDS Serializer, RdbLoader, JsonParser, Meanings

CONSTANTS
    Docs,       \* documents to write, and those they consist of
    DepthOf(_), \* how many levels of containers a document has
    Deepest,    \* bound on it
    SavedAs(_), \* the RDB stream of a document,
    RespReplyOf(_),     \* its RESP reply,
    WrittenAs(_, _, _), \* its text with some options at a depth,
    ReadBackOf(_),      \* and the document that its text is read back as
    Formats,    \* options of SerializeNodeToJSON
    Encodings,  \* encoding versions an RDB file may have
    Alphabet,   \* tokens of the clients' texts
    InStrings,  \* those of them in strings
    MaxText,    \* bound on their length
    Reused      \* whether a text finds the parser context of the text before

IsSequence(s) == s \in Seq(Range(s))

\* A node of a document: the fields that its type does not use are empty, and
\* a dictionary has each key once.
WellMade(n) ==
    \/ n \in {NullNode, NewBoolNode(TRUE), NewBoolNode(FALSE)}
    \/ n \in {NewIntNode(n.num), NewDoubleNode(n.num)}
    \/ n = NewStringNode(n.str) /\ IsSequence(n.str)
    \/ n = NewArrayNode(n.entries) /\ n.entries \in Seq(Docs)
    \/ /\ n = NewDictNode(n.keys, n.entries) /\ n.entries \in Seq(Docs)
       /\ IsSequence(n.keys) /\ Len(n.keys) = Len(n.entries)
       /\ \A i, j \in DOMAIN n.keys : IsSequence(n.keys[i]) /\ (n.keys[i] = n.keys[j] => i = j)

ASSUME DocumentsAssumption ==
    /\ Deepest \in Nat
    /\ \A n \in Docs :
        /\ WellMade(n)
        /\ DepthOf(n) \in 0..Deepest
        /\ \A i \in DOMAIN n.entries : DepthOf(n.entries[i]) < DepthOf(n)

ASSUME FormatsAssumption ==
    \A v \in Formats : /\ v = ToJSON(v.indent, v.newline, v.space)
                       /\ IsSequence(v.indent) /\ IsSequence(v.newline) /\ IsSequence(v.space)

ASSUME MeaningsAssumption ==
    \A n \in Docs :
        /\ SavedAs(n) = RdbFrom(n, [i \in DOMAIN n.entries |-> SavedAs(n.entries[i])])
        /\ RespReplyOf(n) = RespFrom(n, [i \in DOMAIN n.entries |-> RespReplyOf(n.entries[i])])
        /\ \A v \in Formats, depth \in 0..(Deepest - DepthOf(n)) :
            WrittenAs(n, v, depth)
                = TextFrom(n, v, depth, [i \in DOMAIN n.entries |-> WrittenAs(n.entries[i], v, depth + 1)])

\* The characters of strings and keys are none of the tokens that end or break
\* a string, and what stands for an escape is not a character.
Plain(s) == Range(s) \cap (Range(twoCharEscape) \cup {"\"", "\t", "\n", "\\?"}) = {}

\* strtoll, strtod and the literal names read what is written of a scalar.
ReadsScalar(n) ==
    LET token == Scalar(n)[1]
    IN  token \in DOMAIN Literals \ OutOfRange /\ Literals[token] = ReadBackOf(n)

ASSUME ReadBackAssumption ==
    \A n \in Docs :
        /\ Plain(n.str) /\ \A i \in DOMAIN n.keys : Plain(n.keys[i])
        /\ n.type \in {"null", "boolean", "integer", "number"} => ReadsScalar(n)
        /\ ReadBackOf(n) = ReadBackFrom(n, [i \in DOMAIN n.entries |-> ReadBackOf(n.entries[i])])

VARIABLES
    phase,      \* what is being done
    doc,        \* the document being written
    text        \* the rest of the text being read, or the client's text so far

docVars == <<ser, ld, ps, phase, doc, text>>

Start ==
    /\ ser = IdleSerializer
    /\ ld = IdleLoader
    /\ ps = NewJSONObjectCtx
    /\ phase = "start"
    /\ doc = NullNode
    /\ text = <<>>

-----------------------------------------------------------------------------

Write(next, v) ==
    /\ phase = "start"
    /\ \E d \in Docs : doc' = d /\ S_INIT(d, v)
    /\ phase' = next
    /\ UNCHANGED <<ld, ps, text>>

\* JSONTypeRdbSave, JSON.RESP, and JSON.GET or JSONTypeAofRewrite.
JSONTypeRdbSave == Write("save", Save)
ObjectTypeToRespReply == Write("resp", ToResp)
SerializeNodeToJSON == \E v \in Formats : Write("write", v)

Traverse ==
    /\ Node_Serializer
    /\ UNCHANGED <<ld, ps, phase, doc, text>>

LoadSaved ==
    /\ phase = "save" /\ ser.state = "END"
    /\ \E encver \in Encodings : JSONTypeRdbLoad(ser.out, encver)
    /\ phase' = "load"
    /\ UNCHANGED <<ser, ps, doc, text>>

Load ==
    /\ phase = "load"
    /\ ObjectTypeRdbLoad
    /\ UNCHANGED <<ser, ps, phase, doc, text>>

ReadWritten ==
    /\ phase = "write" /\ ser.state = "END"
    /\ CreateBegin
    /\ phase' = "read" /\ text' = ser.out
    /\ UNCHANGED <<ser, ld, doc>>

ReadToken ==
    /\ phase = "read" /\ text # <<>>
    /\ Feed(Head(text))
    /\ text' = Tail(text)
    /\ UNCHANGED <<ser, ld, phase, doc>>

ClientBegin ==
    /\ phase = "start"
    /\ CreateBegin
    /\ phase' = "client"
    /\ UNCHANGED <<ser, ld, doc, text>>

\* Tokens after an error are not read.
ClientTokens == IF State(ps).type \in {"string", "hkey"} THEN InStrings ELSE Alphabet

ClientToken ==
    /\ phase = "client" /\ Len(text) < MaxText
    /\ ps.outcome \in {"leading", "parsing"} /\ ps.err = "none"
    /\ \E c \in ClientTokens : Feed(c) /\ text' = Append(text, c)
    /\ UNCHANGED <<ser, ld, phase, doc>>

TextEnd ==
    /\ phase = "client" \/ (phase = "read" /\ text = <<>>)
    /\ ps.outcome \in {"leading", "parsing"}
    /\ CreateEnd
    /\ UNCHANGED <<ser, ld, phase, doc, text>>

\* What was asked for is done.
Done ==
    \/ phase = "resp" /\ ser.state = "END"
    \/ phase = "load" /\ ld.state \in {"END", "REFUSED", "MISREAD"}
    \/ phase \in {"read", "client"} /\ ps.outcome \notin {"leading", "parsing"}

NextCommand ==
    /\ Done
    /\ ser' = IdleSerializer /\ ld' = IdleLoader /\ phase' = "start"
    /\ doc' = NullNode /\ text' = <<>>
    /\ ps' = IF Reused THEN [NewJSONObjectCtx EXCEPT !.escapes = ps.escapes] ELSE NewJSONObjectCtx

\* The steps of the server once a command has begun.
Serve ==
    \/ Traverse \/ LoadSaved \/ Load
    \/ ReadWritten \/ ReadToken \/ TextEnd \/ NextCommand

Commands ==
    \/ JSONTypeRdbSave \/ ObjectTypeToRespReply \/ SerializeNodeToJSON
    \/ ClientBegin \/ ClientToken

-----------------------------------------------------------------------------

\* A text without the whitespace between its tokens.
InQuotes(s, i) == Cardinality({k \in 1..(i - 1) : s[k] = "\""}) % 2 = 1

Stripped(s) ==
    LET kept == {i \in DOMAIN s : s[i] \notin Whitespace \/ InQuotes(s, i)}
    IN  [k \in 1..Cardinality(kept) |->
            s[CHOOSE i \in kept : Cardinality({j \in kept : j <= i}) = k]]

\* How deep in containers a position of the text is.
Nesting(s, i) ==
    LET before(cs) == Cardinality({k \in 1..(i - 1) : s[k] \in cs /\ ~InQuotes(s, k)})
    IN  before({"{", "["}) - before({"}", "]"})

\* A string follows a bracket, a comma or a colon, and no comma is outside all
\* containers: what the lexer does not check.
StandardCommas(s) ==
    \A i \in DOMAIN s : ~InQuotes(s, i) =>
        /\ s[i] = "\"" /\ i > 1 => s[i - 1] \in {"[", "{", ",", ":"}
        /\ s[i] = "," => Nesting(s, i) > 0

\* The traversal writes what the recursion over the document gives: every
\* node once, delimiters between children and indentation by depth, whatever
\* the stacks of Node_Serializer go through in nested and empty containers.
SerializedRight ==
    ser.state = "END" =>
        /\ phase = "save" => ser.out = SavedAs(doc)
        /\ phase = "resp" => ser.out = RespReplyOf(doc)
        /\ phase = "write" => ser.out = WrittenAs(doc, ser.visitor, 0)

\* Loading what was saved gives the document, reads each item as the kind it
\* was saved as and leaves nothing of the stream; other versions are refused.
RdbRoundTrip ==
    phase = "load" =>
        /\ ld.state # "MISREAD"
        /\ ld.state = "END" => ld.node = doc /\ ld.rdb = <<>>

\* README.md: "Full support of the JSON standard".  Every text the server
\* writes, compact or formatted, is read back as the document, up to the type
\* of whole numbers, and without a write behind the array of nodes.
TextReadBack ==
    phase = "read" /\ Done => ps.outcome = "ok" /\ ps.node = ReadBackOf(doc)

\* The stack of nodes stays parallel to the lexer's, so that popCallback finds
\* the parent below the node it sets, as long as there is one value at level 0
\* and no node was written behind the last slot of the array.
StacksParallel ==
    ps.outcome = "parsing" /\ ps.err = "none" /\ level(ps) > 0 /\ ps.stack[1].nelem = 1 =>
        [i \in DOMAIN ps.nodes |-> ps.nodes[i].type]
            = FlattenSeq([i \in DOMAIN ps.stack |-> NodesOf(ps.stack, i)])

\* A text whose commas are standard and that is accepted is the text of the
\* node made of it: nothing is dropped, misplaced or read from between the
\* values.  None makes popCallback set a node in one that is no container.
ParsedFaithfully ==
    phase = "client" /\ StandardCommas(Stripped(text)) =>
        /\ ps.outcome # "undefined"
        /\ ps.outcome = "ok" => WrittenAs(ps.node, ToJSON(<<>>, <<>>, <<>>), 0) = Stripped(text)

\* Every command ends: the loops over the traversal's, the loader's and the
\* parser's states always reach their end.
CommandsEnd == (phase # "start") ~> (phase = "start")

DocSpec == Start /\ [][Serve \/ Commands]_docVars /\ WF_docVars(Serve)
=============================================================================
