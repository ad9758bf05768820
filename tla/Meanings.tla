------------------------------ MODULE Meanings ------------------------------
(***************************************************************************)
(* What a document is written as: what a node adds to what its children    *)
(* are written as, for the RDB stream, the JSON text and the RESP reply.   *)
(* JsonText closes the recursion.                                          *)
(***************************************************************************)
EXTENDS Tokens

Scalar(n) ==
    CASE n.type = "null" -> <<"null">>
      [] n.type = "boolean" -> <<IF n.num = 1 THEN "true" ELSE "false">>
      [] n.type \in {"integer", "number"} -> <<NumberText(n)>>
      [] n.type = "string" -> Quoted(n.str)

Times(k, s) == FlattenSeq([i \in 1..k |-> s])

\* The text at a depth, with the strings o of the options, from those of the
\* entries.
TextFrom(n, o, depth, texts) ==
    LET members == [i \in DOMAIN texts |->
                       (IF n.type = "dict" THEN Quoted(n.keys[i]) \o <<":">> \o o.space ELSE <<>>)
                       \o texts[i]]
        line == o.newline \o Times(depth + 1, o.indent)
        body == IF texts = <<>> THEN <<>>
                ELSE line \o Joined(members, <<",">> \o line) \o o.newline
    IN  IF n.type \notin {"array", "dict"} THEN Scalar(n)
        ELSE <<IF n.type = "dict" THEN "{" ELSE "[">> \o body \o Times(depth, o.indent)
             \o <<IF n.type = "dict" THEN "}" ELSE "]">>

\* The RDB stream: the type of the node, then its value or length and entries.
RdbFrom(n, streams) ==
    LET entries == [i \in DOMAIN streams |->
            (IF n.type = "dict" THEN <<Item("unsigned", TypeCode["keyval"], <<>>),
                                       Item("string", 0, n.keys[i])>> ELSE <<>>)
            \o streams[i]]
        value ==
            CASE n.type = "null" -> <<>>
              [] n.type = "boolean" -> <<Item("string", 0, IF n.num = 1 THEN <<"1">> ELSE <<"0">>)>>
              [] n.type = "integer" -> <<Item("signed", n.num, <<>>)>>
              [] n.type = "number" -> <<Item("double", n.num, <<>>)>>
              [] n.type = "string" -> <<Item("string", 0, n.str)>>
              [] n.type \in {"array", "dict"} ->
                    <<Item("unsigned", Len(n.entries), <<>>)>> \o FlattenSeq(entries)
    IN  <<Item("unsigned", TypeCode[n.type], <<>>)>> \o value

\* The RESP reply of JSON.RESP, as the comment of JSON.RESP describes it.
RespFrom(n, replies) ==
    LET Array(first, items) ==
            <<Item("array", Len(items) + 1, <<>>), Item("simple", 0, <<first>>)>> \o FlattenSeq(items)
        Pair(i) == <<Item("array", 2, <<>>), Item("bulk", 0, n.keys[i])>> \o replies[i]
    IN  CASE n.type = "null" -> <<Item("nil", 0, <<>>)>>
          [] n.type = "boolean" -> <<Item("simple", 0, Scalar(n))>>
          [] n.type = "integer" -> <<Item("int", n.num, <<>>)>>
          [] n.type = "number" -> <<Item("double", n.num, <<>>)>>
          [] n.type = "string" -> <<Item("bulk", 0, n.str)>>
          [] n.type = "array" -> Array("[", replies)
          [] n.type = "dict" -> Array("{", [i \in DOMAIN replies |-> Pair(i)])

\* What is read back from the text of a document: a double printed without an
\* exponent comes back as an integer.
ReadBackFrom(n, nodes) ==
    IF n.type = "number" /\ NumberText(n) = ToString(n.num) THEN NewIntNode(n.num)
    ELSE [n EXCEPT !.entries = nodes]
=============================================================================
