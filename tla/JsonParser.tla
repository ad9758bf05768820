----------------------------- MODULE JsonParser -----------------------------
(***************************************************************************)
(* CreateNodeFromJSON of json_object.c: the push-down automaton of jsonsl  *)
(* (jsonsl_feed) over the tokens of a text, and the callbacks that build   *)
(* the document on a stack of nodes of their own.                          *)
(*                                                                         *)
(* One parser context serves every command.  Resetting it leaves the       *)
(* slots of the lexer's stack alone, and with them the count of escapes    *)
(* (nescapes) that a value given up halfway has left in its slot: a number *)
(* or literal name counts its length there.                                *)
(***************************************************************************)
EXTENDS Tokens

CONSTANTS
    Levels,     \* levels_max of the lexer, and how many nodes can be pushed
    Literals,   \* the node of each number and literal name
    OutOfRange  \* numbers that strtoll or strtod refuses

VARIABLE ps     \* the parser context and the text's outcome

Whitespace == {" ", "\t", "\n"}

ASSUME ParserAssumption ==
    (DOMAIN Literals \cup OutOfRange)
        \cap (Whitespace \cup {"{", "}", "[", "]", ",", ":", "\""}) = {}

Slot(type) == [type |-> type, nelem |-> 0]

\* resetJSONObjectCtx: escapes is what it does not reset.
Reset(escapes) ==
    [stack |-> <<Slot("none")>>, expecting |-> "", tok_last |-> "", can_insert |-> TRUE,
     err |-> "none", nodes |-> <<>>, chars |-> <<>>, escapes |-> escapes, scalar |-> FALSE,
     outcome |-> "leading", node |-> NullNode]

NewJSONObjectCtx == [Reset([k \in 1..(Levels - 1) |-> FALSE]) EXCEPT !.outcome = "idle"]

level(p) == Len(p.stack) - 1
State(p) == Last(p.stack)
Fail(p, err) == [p EXCEPT !.err = err]

-----------------------------------------------------------------------------
(* The callbacks.                                                          *)

\* The array of nodes has as many slots as the lexer has levels, and an object
\* with a key read takes two.  Nothing checks that a slot is left: the write
\* behind the last one is undefined.
PushNode(p, n) ==
    [p EXCEPT !.nodes = Append(@, n),
              !.err = IF Len(p.nodes) < Levels THEN @ ELSE "UNDEFINED"]

\* The end of popCallback: the node on top of the stack is set in its parent.
\* Only a key and its value are set in a dictionary, and leave the stack.
SetInParentKeepsKey(p) ==
    LET k == Len(p.nodes)
        n == p.nodes[k]
        parent == p.nodes[k - 1]
        kv == [parent EXCEPT !.entries = <<n>>]
    IN  CASE parent.type = "array" ->
                [p EXCEPT !.nodes = Append(SubSeq(@, 1, k - 2), Node_ArrayAppend(parent, n))]
          [] parent.type = "keyval" ->
                [p EXCEPT !.nodes =
                    SubSeq(@, 1, k - 3) \o <<Node_DictSetKeyVal(p.nodes[k - 2], kv), kv>>]
          [] OTHER -> Fail(p, "UNDEFINED")

SetInParent(p) ==
    LET k == Len(p.nodes)
        n == p.nodes[k]
        parent == p.nodes[k - 1]
        kv == [parent EXCEPT !.entries = <<n>>]
    IN  CASE parent.type = "array" ->
                [p EXCEPT !.nodes = Append(SubSeq(@, 1, k - 2), Node_ArrayAppend(parent, n))]
          [] parent.type = "keyval" ->
                [p EXCEPT !.nodes =
                    Append(SubSeq(@, 1, k - 3), Node_DictSetKeyVal(p.nodes[k - 2], kv))]
          [] OTHER -> Fail(p, "UNDEFINED")

Attached(p) == IF Len(p.nodes) > 1 THEN SetInParent(p) ELSE p

pushCallback(p, type) ==
    CASE type = "object" -> PushNode(p, NewDictNode(<<>>, <<>>))
      [] type = "list" -> PushNode(p, NewArrayNode(<<>>))
      [] OTHER -> p

\* A string is unescaped if its slot counts escapes; that of no characters is
\* taken for an error.
popString(p) ==
    LET escaped == p.escapes[level(p)]
        str == IF escaped THEN [i \in DOMAIN p.chars |-> Unescape(p.chars[i])] ELSE p.chars
    IN  CASE escaped /\ str = <<>> -> Fail(p, "UNESCAPE")
          [] ~(escaped /\ str = <<>>) /\ State(p).type = "string" ->
                Attached(PushNode(p, NewStringNode(str)))
          [] ~(escaped /\ str = <<>>) /\ State(p).type = "hkey" ->
                PushNode(p, KeyVal(str, NullNode))

popSpecial(p) ==
    IF p.chars[1] \in OutOfRange THEN Fail(p, "INVALID_NUMBER")
    ELSE Attached(PushNode(p, Literals[p.chars[1]]))

\* CALLBACK_AND_POP: an error returns before the slot is tidied.
PopSlotUncleared(p) ==
    IF p.err # "none" THEN p
    ELSE [p EXCEPT !.stack = Front(@), !.chars = <<>>]

PopSlot(p) ==
    IF p.err # "none" THEN p
    ELSE [p EXCEPT !.stack = Front(@), !.escapes[level(p)] = FALSE, !.chars = <<>>]

-----------------------------------------------------------------------------
(* The lexer.                                                              *)

STACK_PUSH(p, type) ==
    IF level(p) >= Levels - 1 THEN Fail(p, "LEVELS_EXCEEDED")
    ELSE pushCallback([p EXCEPT !.stack = Append(@, Slot(type))], type)

Counted(p) == [p EXCEPT !.stack[Len(p.stack)].nelem = @ + 1]

\* ENSURE_HVAL
KeyExpected(p) == State(p).type = "object" /\ State(p).nelem % 2 = 0

InString(p, c) ==
    CASE c = "\"" -> PopSlot(popString([p EXCEPT !.can_insert = FALSE]))
      [] c \in {"\t", "\n"} -> Fail(p, "WEIRD_WHITESPACE")
      [] c = "\\?" -> Fail([p EXCEPT !.escapes[level(p)] = TRUE], "ESCAPE_INVALID")
      [] c \in Range(twoCharEscape) ->
            [p EXCEPT !.escapes[level(p)] = TRUE, !.chars = Append(@, c)]
      [] OTHER -> [p EXCEPT !.chars = Append(@, c)]

\* A quote outside a string.  In a list nothing asks for the comma before it.
Quote(p) ==
    LET s == State(p)
        q == [Counted(p) EXCEPT !.can_insert = FALSE, !.tok_last = ""]
    IN  CASE s.type = "object" /\ s.nelem % 2 = 1 ->
                IF p.tok_last # ":" THEN Fail(p, "MISSING_TOKEN")
                ELSE STACK_PUSH([q EXCEPT !.expecting = ","], "string")
          [] s.type = "object" /\ s.nelem % 2 = 0 ->
                IF p.expecting # "\"" THEN Fail(p, "STRAY_TOKEN")
                ELSE STACK_PUSH([q EXCEPT !.expecting = ":"], "hkey")
          [] s.type = "list" -> STACK_PUSH([q EXCEPT !.expecting = ","], "string")
          [] OTHER -> Fail(p, "STRING_OUTSIDE_CONTAINER")

Colon(p) ==
    IF p.expecting # ":" THEN Fail(p, "STRAY_TOKEN")
    ELSE [p EXCEPT !.tok_last = ":", !.can_insert = TRUE, !.expecting = "\""]

Comma(p) ==
    IF p.expecting # "," THEN Fail(p, "STRAY_TOKEN")
    ELSE [p EXCEPT !.tok_last = ",", !.expecting = "\"",
                   !.can_insert = @ \/ State(p).type # "object"]

Open(p, type) ==
    CASE ~p.can_insert -> Fail(p, "CANT_INSERT")
      [] p.can_insert /\ KeyExpected(p) -> Fail(p, "HKEY_EXPECTED")
      [] p.can_insert /\ ~KeyExpected(p) ->
            STACK_PUSH([Counted(p) EXCEPT !.tok_last = "",
                            !.expecting = IF type = "object" THEN "\"" ELSE @], type)

CloseAfterComma(p, type) ==
    CASE State(p).type # type -> Fail(p, "BRACKET_MISMATCH")
      [] State(p).type = type /\ type = "object" /\ State(p).nelem % 2 = 1 ->
            Fail(p, "VALUE_EXPECTED")
      [] OTHER ->
            Attached([p EXCEPT !.can_insert = FALSE, !.expecting = ",", !.tok_last = "",
                               !.stack = Front(@)])

Close(p, type) ==
    CASE p.tok_last = "," -> Fail(p, "TRAILING_COMMA")
      [] p.tok_last # "," /\ State(p).type # type -> Fail(p, "BRACKET_MISMATCH")
      [] p.tok_last # "," /\ State(p).type = type /\ type = "object" /\ State(p).nelem % 2 = 1 ->
            Fail(p, "VALUE_EXPECTED")
      [] OTHER ->
            Attached([p EXCEPT !.can_insert = FALSE, !.expecting = ",", !.tok_last = "",
                               !.stack = Front(@)])

\* A number or literal name, which ends with the token after it.
BeginSpecial(p, c) ==
    LET q == STACK_PUSH(Counted(p), "special")
    IN  CASE KeyExpected(p) -> Fail(p, "HKEY_EXPECTED")
          [] ~KeyExpected(p) /\ ~p.can_insert -> Fail(p, "CANT_INSERT")
          [] OTHER -> IF q.err # "none" THEN q
                      ELSE [q EXCEPT !.escapes[level(q)] = TRUE, !.chars = <<c>>]

Structural(p, c) ==
    CASE c = ":" -> Colon(p)
      [] c = "," -> Comma(p)
      [] c = "{" -> Open(p, "object")
      [] c = "[" -> Open(p, "list")
      [] c = "}" -> Close(p, "object")
      [] c = "]" -> Close(p, "list")
      [] OTHER -> Fail(p, "SPECIAL_EXPECTED")

EndSpecial(p, c) ==
    LET q == PopSlot(popSpecial(p))
        ended == [q EXCEPT !.can_insert = FALSE, !.tok_last = "", !.expecting = ","]
    IN  CASE q.err # "none" -> q
          [] q.err = "none" /\ c \in Whitespace -> ended
          [] q.err = "none" /\ c \notin Whitespace -> Structural(ended, c)

\* One token of jsonsl_feed.  A second number or name right behind one is not
\* a token of its own.
Lex(p, c) ==
    CASE p.err # "none" -> p
      [] p.err = "none" /\ State(p).type \in {"string", "hkey"} -> InString(p, c)
      [] p.err = "none" /\ State(p).type = "special" ->
            IF c \in DOMAIN Literals \cup OutOfRange THEN Fail(p, "SPECIAL_EXPECTED")
            ELSE EndSpecial(p, c)
      [] p.err = "none" /\ State(p).type \in {"none", "object", "list"} ->
            CASE c \in Whitespace -> p
              [] c \in DOMAIN Literals \cup OutOfRange -> BeginSpecial(p, c)
              [] c = "\"" -> Quote(p)
              [] OTHER -> Structural(p, c)

-----------------------------------------------------------------------------
(* CreateNodeFromJSON.                                                     *)

\* The first character that is not whitespace decides whether the text is
\* embedded in a list.
Embedded(p, first) ==
    IF first \in {"{", "["} THEN [p EXCEPT !.outcome = "parsing"]
    ELSE Lex([p EXCEPT !.outcome = "parsing", !.scalar = TRUE], "[")

CreateBegin == ps' = Reset(ps.escapes)

Feed(c) ==
    ps' = CASE ps.outcome = "leading" /\ c \in Whitespace -> ps
            [] ps.outcome = "leading" /\ c \notin Whitespace -> Lex(Embedded(ps, c), c)
            [] ps.outcome = "parsing" -> Lex(ps, c)

\* The checks after the text, and the node or the freeing of those made.
Refused(p) == p.err # "none" \/ level(p) # 0 \/ State(p).nelem = 0

FirstItem(arr) == IF arr.entries = <<>> THEN NullNode ELSE arr.entries[1]

Created(p) ==
    IF p.err = "UNDEFINED" THEN [p EXCEPT !.outcome = "undefined"]
    ELSE IF Refused(p) THEN [p EXCEPT !.outcome = "error", !.nodes = <<>>]
    ELSE [p EXCEPT !.outcome = "ok", !.nodes = Front(@),
                   !.node = IF p.scalar THEN FirstItem(p.nodes[1]) ELSE Last(p.nodes)]

CreateEnd == ps' = Created(IF ps.scalar THEN Lex(ps, "]") ELSE ps)

-----------------------------------------------------------------------------

\* The nodes a slot of the lexer's stack has on the stack of nodes: an object
\* with a key read, and its value begun or not, has the key there too.
NodesOf(stack, i) ==
    LET s == stack[i]
        inKey == i < Len(stack) /\ stack[i + 1].type = "hkey"
        keyRead == IF i = Len(stack) THEN s.nelem % 2 = 1 ELSE ~inKey
    IN  CASE s.type = "list" -> <<"array">>
          [] s.type = "object" /\ keyRead -> <<"dict", "keyval">>
          [] s.type = "object" /\ ~keyRead -> <<"dict">>
          [] OTHER -> <<>>
=============================================================================
