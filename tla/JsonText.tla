------------------------------ MODULE JsonText ------------------------------
(***************************************************************************)
(* What a document is written as, by recursion over it: the reference for  *)
(* the traversal of Serializer, and the text that the commands reply with. *)
(***************************************************************************)
EXTENDS Meanings

\* The text at a depth, with the strings o of the options.
RECURSIVE TextAt(_, _, _)
TextAt(n, o, depth) ==
    TextFrom(n, o, depth, [i \in DOMAIN n.entries |-> TextAt(n.entries[i], o, depth + 1)])

\* SerializeNodeToJSON without options.
Serialize(n) == TextAt(n, [indent |-> <<>>, newline |-> <<>>, space |-> <<>>], 0)

RECURSIVE RdbOf(_)
RdbOf(n) == RdbFrom(n, [i \in DOMAIN n.entries |-> RdbOf(n.entries[i])])

RECURSIVE RespOf(_)
RespOf(n) == RespFrom(n, [i \in DOMAIN n.entries |-> RespOf(n.entries[i])])

RECURSIVE Reread(_)
Reread(n) == ReadBackFrom(n, [i \in DOMAIN n.entries |-> Reread(n.entries[i])])
=============================================================================
