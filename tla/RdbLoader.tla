----------------------------- MODULE RdbLoader ------------------------------
(***************************************************************************)
(* Loading a document from an RDB file: JSONTypeRdbLoad of json_type.c and *)
(* ObjectTypeRdbLoad of object_type.c, one action per state of its switch  *)
(* and type of node.  It keeps the containers being filled on one stack    *)
(* and the numbers of children still to be read on another.                *)
(***************************************************************************)
EXTENDS Tokens

VARIABLE ld     \* the loader's locals and the rest of the stream

JSONTYPE_ENCODING_VERSION == 0

IdleLoader ==
    [state |-> "END", type |-> "null", nodes |-> <<>>, indices |-> <<>>,
     node |-> NullNode, rdb |-> <<>>]

\* ValkeyModule_LoadUnsigned and its kin: the server stops when the next item
\* of the stream is of another kind.
Reads(kind) == ld.rdb # <<>> /\ Head(ld.rdb).kind = kind

Misread == [ld EXCEPT !.state = "MISREAD"]

JSONTypeRdbLoad(rdb, encver) ==
    ld' = [IdleLoader EXCEPT
             !.state = IF encver < 0 \/ encver > JSONTYPE_ENCODING_VERSION THEN "REFUSED" ELSE "INIT",
             !.rdb = rdb]

\* Reading the type of the next node.
ReadType(l) ==
    IF Reads("unsigned")
    THEN [l EXCEPT !.type = TypeOf(Head(ld.rdb).num), !.rdb = Tail(@), !.state = "BEGIN_VALUE"]
    ELSE Misread

LoadInit == ld.state = "INIT" /\ ld' = ReadType(ld)

LoadNull ==
    /\ ld.state = "BEGIN_VALUE" /\ ld.type = "null"
    /\ ld' = [ld EXCEPT !.node = NullNode, !.state = "END_VALUE"]

\* What each scalar type is read as, and the node it becomes.
ItemKind == [boolean |-> "string", integer |-> "signed", number |-> "double", string |-> "string"]

ScalarNode(type, item) ==
    CASE type = "boolean" -> NewBoolNode(Head(item.str) = "1")
      [] type = "integer" -> NewIntNode(item.num)
      [] type = "number" -> NewDoubleNode(item.num)
      [] type = "string" -> NewStringNode(item.str)

LoadScalar ==
    /\ ld.state = "BEGIN_VALUE" /\ ld.type \in DOMAIN ItemKind
    /\ ld' = IF Reads(ItemKind[ld.type])
             THEN [ld EXCEPT !.node = ScalarNode(ld.type, Head(ld.rdb)),
                             !.rdb = Tail(@), !.state = "END_VALUE"]
             ELSE Misread

\* A container goes on the stacks with the number of its children.
Opened(l, node, len) ==
    [l EXCEPT !.nodes = Append(@, node), !.indices = Append(@, len),
              !.rdb = Tail(@), !.state = "CONTAINER"]

LoadKeyVal ==
    /\ ld.state = "BEGIN_VALUE" /\ ld.type = "keyval"
    /\ ld' = IF Reads("string") THEN Opened(ld, KeyVal(Head(ld.rdb).str, NullNode), 1) ELSE Misread

LoadDictOrArray ==
    /\ ld.state = "BEGIN_VALUE" /\ ld.type \in {"dict", "array"}
    /\ ld' = IF Reads("unsigned")
             THEN Opened(ld, New(ld.type, 0, <<>>, <<>>, <<>>), Head(ld.rdb).num) ELSE Misread

Added(container, n) ==
    CASE container.type = "keyval" -> [container EXCEPT !.entries = <<n>>]
      [] container.type = "dict" -> Node_DictSetKeyVal(container, n)
      [] container.type = "array" -> Node_ArrayAppend(container, n)

LoadEndValueUnended ==
    /\ ld.state = "END_VALUE"
    /\ ld' = IF ld.nodes = <<>> THEN ld
             ELSE [ld EXCEPT !.nodes[Len(ld.nodes)] = Added(@, ld.node), !.state = "CONTAINER"]

LoadEndValue ==
    /\ ld.state = "END_VALUE"
    /\ ld' = IF ld.nodes = <<>> THEN [ld EXCEPT !.state = "END"]
             ELSE [ld EXCEPT !.nodes[Len(ld.nodes)] = Added(@, ld.node), !.state = "CONTAINER"]

\* The next child, counted down, or the end of the container, which leaves
\* both stacks; a stack of numbers left alone ends the containers around it.
LoadContainerKeepsIndex ==
    /\ ld.state = "CONTAINER"
    /\ ld' = IF Last(ld.indices) > 0
             THEN ReadType([ld EXCEPT !.indices[Len(ld.indices)] = @ - 1])
             ELSE [ld EXCEPT !.nodes = Front(@), !.node = Last(ld.nodes), !.state = "END_VALUE"]

LoadContainer ==
    /\ ld.state = "CONTAINER"
    /\ ld' = IF Last(ld.indices) > 0
             THEN ReadType([ld EXCEPT !.indices[Len(ld.indices)] = @ - 1])
             ELSE [ld EXCEPT !.indices = Front(@), !.nodes = Front(@), !.node = Last(ld.nodes),
                             !.state = "END_VALUE"]

ObjectTypeRdbLoad ==
    LoadInit \/ LoadNull \/ LoadScalar \/ LoadKeyVal \/ LoadDictOrArray \/ LoadEndValue \/ LoadContainer
=============================================================================
