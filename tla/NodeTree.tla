------------------------------ MODULE NodeTree ------------------------------
(***************************************************************************)
(* Documents (object.c) and the resolution of a search path in one         *)
(* (SearchPath_FindEx of path.c, NodeFromJSONPath of valkeyjson.c).        *)
(*                                                                         *)
(* A node is a record that has all the fields of the union Node.value: num *)
(* for numbers and booleans, str for the bytes of a string, entries for    *)
(* the children of an array or a dictionary, and keys for the keys of a    *)
(* dictionary, one per entry.  The null node stands for the NULL pointer,  *)
(* whose NODETYPE is N_NULL.  Memory is not modelled: freeing a replaced   *)
(* node is dropping it.                                                    *)
(***************************************************************************)
EXTENDS Integers, Sequences, SequencesExt, FiniteSets

New(type, num, str, keys, entries) ==
    [type |-> type, num |-> num, str |-> str, keys |-> keys, entries |-> entries]

NullNode == New("null", 0, <<>>, <<>>, <<>>)
NewBoolNode(b) == New("boolean", IF b THEN 1 ELSE 0, <<>>, <<>>, <<>>)
NewIntNode(i) == New("integer", i, <<>>, <<>>, <<>>)
NewDoubleNode(x) == New("number", x, <<>>, <<>>, <<>>)
NewStringNode(s) == New("string", 0, s, <<>>, <<>>)
NewArrayNode(items) == New("array", 0, <<>>, <<>>, items)
NewDictNode(keys, vals) == New("dict", 0, <<>>, keys, vals)

IsScalar(n) == n.type \notin {"array", "dict"}

Node_Length(n) ==
    CASE n.type \in {"array", "dict"} -> Len(n.entries)
      [] n.type = "string" -> Len(n.str)
      [] OTHER -> -1

-----------------------------------------------------------------------------
(* Arrays, as sequences of entries; C indexes start at 0.                  *)

FromEnd(len, index) == IF index < 0 THEN len + index ELSE index

\* Node_ArrayDelRange, for an index that is in the array or counts from its
\* end.  DelRangeSafe is what its unsigned arithmetic needs to stay within
\* the entries.
DelRangeSafe(len, index, count) == count > 0 /\ len > 0 => index >= -len

Node_ArrayDelRange(s, index, count) ==
    LET len == Len(s)
        start == IF index < 0 THEN len + index ELSE IF index < len THEN index ELSE len - 1
        stop == IF start + count < len THEN start + count ELSE len
    IN  IF count <= 0 \/ len = 0 THEN s
        ELSE SubSeq(s, 1, start) \o SubSeq(s, stop + 1, len)

Node_ArrayInsert(s, index, sub) ==
    LET fromEnd == FromEnd(Len(s), index)
        low == IF fromEnd < 0 THEN 0 ELSE fromEnd
        at == IF low > Len(s) THEN Len(s) ELSE low
    IN  SubSeq(s, 1, at) \o sub \o SubSeq(s, at + 1, Len(s))

\* Node_ArrayItem: what is outside the array is the null pointer.
Node_ArrayItem(s, index) == IF index \in 0 .. (Len(s) - 1) THEN s[index + 1] ELSE NullNode

Node_ArrayAppend(arr, n) == [arr EXCEPT !.entries = Append(@, n)]

ScalarEqual(m, n) == m.type = n.type /\ m.num = n.num /\ m.str = n.str

\* Node_ArrayIndex: the half-open range it searches, then the first match.
IndexRange(len, start, stop) ==
    LET s1 == FromEnd(len, start)
        s2 == IF s1 < 0 THEN 0 ELSE s1
        from == IF s2 >= len THEN len - 1 ELSE s2
        t1 == FromEnd(len, stop)
        t2 == IF t1 >= len \/ t1 = 0 THEN len ELSE t1
        to == IF t2 < from THEN from ELSE t2
    IN  from .. (to - 1)

Node_ArrayIndex(s, n, start, stop) ==
    LET found == {i \in IndexRange(Len(s), start, stop) : ScalarEqual(s[i + 1], n)}
    IN  IF Len(s) = 0 \/ ~IsScalar(n) \/ found = {} THEN -1
        ELSE CHOOSE i \in found : \A j \in found : i <= j

-----------------------------------------------------------------------------
(* Dictionaries.                                                           *)

Positions(d, key) == {i \in DOMAIN d.keys : d.keys[i] = key}

HasKey(d, key) == Positions(d, key) # {}

\* __obj_find: the first entry with the key.
obj_find(d, key) ==
    CHOOSE i \in Positions(d, key) : \A j \in Positions(d, key) : i <= j

\* Node_DictSet replaces the value of the key or appends an entry.
Node_DictSetAppends(d, key, n) ==
    [d EXCEPT !.keys = Append(@, key), !.entries = Append(@, n)]

Node_DictSet(d, key, n) ==
    IF HasKey(d, key) THEN [d EXCEPT !.entries[obj_find(d, key)] = n]
    ELSE [d EXCEPT !.keys = Append(@, key), !.entries = Append(@, n)]

\* Node_DictSetKeyVal, with the entry itself, of type keyval.
Node_DictSetKeyVal(d, kv) == Node_DictSet(d, kv.str, kv.entries[1])

\* The last entry takes the place of the deleted one.
SwapDeleteUnmoved(s, i) == Front(s)

SwapDelete(s, i) == Front([s EXCEPT ![i] = Last(s)])

Node_DictDel(d, key) ==
    LET i == obj_find(d, key)
    IN  [d EXCEPT !.keys = SwapDelete(@, i), !.entries = SwapDelete(@, i)]

-----------------------------------------------------------------------------
(* Search paths.                                                           *)

\* __pathNode_eval: the error, and the position of the child it selects.
pathNode_eval(pn, n) ==
    LET index == FromEnd(Len(n.entries), pn.index)
    IN  CASE n.type = "array" /\ pn.type = "index" ->
                IF index \in 0 .. (Len(n.entries) - 1)
                THEN [err |-> "OK", pos |-> index + 1]
                ELSE [err |-> "NOINDEX", pos |-> 0]
          [] n.type = "dict" /\ pn.type = "key" ->
                IF HasKey(n, pn.key) THEN [err |-> "OK", pos |-> obj_find(n, pn.key)]
                ELSE [err |-> "NOKEY", pos |-> 0]
          [] OTHER -> [err |-> "BADTYPE", pos |-> 0]

\* SearchPath_FindEx: node, parent, error and its level.  trail keeps the
\* nodes passed and the positions taken in them.
FindChild(f, r) ==
    IF r.err = "OK"
    THEN [n |-> f.n.entries[r.pos], p |-> f.n, err |-> "OK", errlevel |-> -1,
          trail |-> Append(f.trail, [node |-> f.n, pos |-> r.pos])]
    ELSE [f EXCEPT !.n = NullNode, !.p = f.n, !.err = r.err, !.errlevel = Len(f.trail)]

FindStep(f, pn) == IF f.err = "OK" THEN FindChild(f, pathNode_eval(pn, f.n)) ELSE f

FindStart(root) ==
    [n |-> root, p |-> NullNode, err |-> "OK", errlevel |-> -1, trail |-> <<>>]

SearchPath_FindEx(nodes, root) == FoldLeft(FindStep, FindStart(root), nodes)

\* The document in which the node at the end of the trail is replaced by n:
\* what an assignment through the pointer to that node leaves.
PutBack(child, t) == [t.node EXCEPT !.entries[t.pos] = child]

Replaced(trail, n) == FoldLeft(PutBack, n, Reverse(trail))
=============================================================================
