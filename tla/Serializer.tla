----------------------------- MODULE Serializer -----------------------------
(***************************************************************************)
(* Node_Serializer of object.c: the traversal of a document with a stack   *)
(* of nodes and a stack of positions, one action per state of its switch,  *)
(* and the visitors that write an RDB stream (_ObjectTypeSave_Begin), a    *)
(* RESP reply (_ObjectTypeToResp_Begin) and a JSON text                    *)
(* (_JSONSerialize_BeginValue, EndValue and ContainerDelimiter).           *)
(***************************************************************************)
EXTENDS Tokens

VARIABLE ser    \* the traversal: its locals and what the visitor wrote

\* The visitor of SerializeNodeToJSON has the strings of the options as tokens.
Visitor(kind, indent, newline, space) ==
    [kind |-> kind, indent |-> indent, newline |-> newline, space |-> space]

Save == Visitor("rdb", <<>>, <<>>, <<>>)
ToResp == Visitor("resp", <<>>, <<>>, <<>>)
ToJSON(indent, newline, space) == Visitor("json", indent, newline, space)

Brackets == [dict |-> <<"{", "}">>, array |-> <<"[", "]">>]
IsContainer(n) == n.type \in {"dict", "array"}

-----------------------------------------------------------------------------
(* The visitors.                                                           *)

SaveBegin(n) ==
    <<Item("unsigned", TypeCode[n.type], <<>>)>> \o
    CASE n.type = "null" -> <<>>
      [] n.type = "boolean" -> <<Item("string", 0, IF n.num = 1 THEN <<"1">> ELSE <<"0">>)>>
      [] n.type = "integer" -> <<Item("signed", n.num, <<>>)>>
      [] n.type = "number" -> <<Item("double", n.num, <<>>)>>
      [] n.type \in {"string", "keyval"} -> <<Item("string", 0, n.str)>>
      [] IsContainer(n) -> <<Item("unsigned", Len(n.entries), <<>>)>>

RespBegin(n) ==
    CASE n.type = "null" -> <<Item("nil", 0, <<>>)>>
      [] n.type = "boolean" -> <<Item("simple", 0, IF n.num = 1 THEN <<"true">> ELSE <<"false">>)>>
      [] n.type = "integer" -> <<Item("int", n.num, <<>>)>>
      [] n.type = "number" -> <<Item("double", n.num, <<>>)>>
      [] n.type = "string" -> <<Item("bulk", 0, n.str)>>
      [] n.type = "keyval" -> <<Item("array", 2, <<>>), Item("bulk", 0, n.str)>>
      [] IsContainer(n) -> <<Item("array", Len(n.entries) + 1, <<>>),
                             Item("simple", 0, <<Brackets[n.type][1]>>)>>

Indent(v, depth) == FlattenSeq([i \in 1..depth |-> v.indent])

Break(v, n) == IF n.entries = <<>> THEN <<>> ELSE v.newline

JsonBegin(v, n, depth) ==
    CASE n.type = "null" -> <<"null">>
      [] n.type = "boolean" -> <<IF n.num = 1 THEN "true" ELSE "false">>
      [] n.type \in {"integer", "number"} -> <<NumberText(n)>>
      [] n.type = "string" -> Quoted(n.str)
      [] n.type = "keyval" -> Quoted(n.str) \o <<":">> \o v.space
      [] IsContainer(n) -> <<Brackets[n.type][1]>> \o Break(v, n)
            \o (IF n.entries = <<>> THEN <<>> ELSE Indent(v, depth + 1))

JsonEnd(v, n, depth) == Break(v, n) \o Indent(v, depth - 1) \o <<Brackets[n.type][2]>>

\* The masks of the options: only SerializeNodeToJSON has fEnd and fDelim, for
\* dictionaries and arrays.
fBegin(v, n, depth) ==
    CASE v.kind = "rdb" -> SaveBegin(n)
      [] v.kind = "resp" -> RespBegin(n)
      [] v.kind = "json" -> JsonBegin(v, n, depth)

fEnd(v, n, depth) == IF v.kind = "json" /\ IsContainer(n) THEN JsonEnd(v, n, depth) ELSE <<>>

fDelim(v, n, depth) ==
    IF v.kind = "json" /\ IsContainer(n) THEN <<",">> \o v.newline \o Indent(v, depth) ELSE <<>>

\* _JSONBuilderContext.depth
Deeper(v, n) == IF v.kind = "json" /\ IsContainer(n) THEN 1 ELSE 0

-----------------------------------------------------------------------------
(* Node_Serializer.                                                        *)

\* curr_entries and curr_len
Entries(n) ==
    IF n.type = "dict" THEN [i \in DOMAIN n.entries |-> KeyVal(n.keys[i], n.entries[i])]
    ELSE n.entries

IdleSerializer ==
    [state |-> "END", visitor |-> Save, nodes |-> <<>>, indices |-> <<>>,
     node |-> NullNode, entries |-> <<>>, out |-> <<>>, depth |-> 0]

S_INIT(root, v) ==
    ser' = [IdleSerializer EXCEPT !.state = "BEGIN_VALUE", !.visitor = v,
                                  !.nodes = <<root>>, !.indices = <<0>>]

S_BEGIN_VALUE ==
    /\ ser.state = "BEGIN_VALUE"
    /\ LET n == Last(ser.nodes)
       IN  ser' = [ser EXCEPT !.node = n, !.out = @ \o fBegin(ser.visitor, n, ser.depth),
                              !.depth = @ + Deeper(ser.visitor, n),
                              !.state = IF n.type = "null" THEN "END_VALUE" ELSE "CONT_VALUE"]

S_CONT_VALUE ==
    /\ ser.state = "CONT_VALUE"
    /\ ser' = IF ser.node.type \in {"dict", "array", "keyval"}
              THEN [ser EXCEPT !.entries = Entries(ser.node), !.state = "CONTAINER"]
              ELSE [ser EXCEPT !.state = "END_VALUE"]

NextChildDelimited(s) ==
    LET index == Last(s.indices)
    IN  [s EXCEPT !.out = @ \o fDelim(s.visitor, s.node, s.depth),
                  !.indices = Append(Front(@), index + 1) \o <<0>>,
                  !.nodes = Append(@, s.entries[index + 1]),
                  !.state = "BEGIN_VALUE"]

NextChild(s) ==
    LET index == Last(s.indices)
    IN  [s EXCEPT !.out = IF index = 0 THEN @ ELSE @ \o fDelim(s.visitor, s.node, s.depth),
                  !.indices = Append(Front(@), index + 1) \o <<0>>,
                  !.nodes = Append(@, s.entries[index + 1]),
                  !.state = "BEGIN_VALUE"]

S_CONTAINER ==
    /\ ser.state = "CONTAINER"
    /\ ser' = IF Last(ser.indices) < Len(ser.entries) THEN NextChild(ser)
              ELSE [ser EXCEPT !.state = "END_VALUE"]

\* Popping the stack and going back to the container.
Popped(s) ==
    LET nodes == Front(s.nodes)
    IN  [s EXCEPT !.nodes = nodes, !.indices = Front(@),
                  !.node = IF nodes = <<>> THEN @ ELSE Last(nodes),
                  !.state = IF nodes = <<>> THEN "END" ELSE "CONT_VALUE"]

S_END_VALUE ==
    /\ ser.state = "END_VALUE"
    /\ ser' = Popped([ser EXCEPT !.out = @ \o fEnd(ser.visitor, ser.node, ser.depth),
                                 !.depth = @ - Deeper(ser.visitor, ser.node)])

Node_Serializer == S_BEGIN_VALUE \/ S_CONT_VALUE \/ S_CONTAINER \/ S_END_VALUE

=============================================================================
