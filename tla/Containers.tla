----------------------------- MODULE Containers -----------------------------
(***************************************************************************)
(* The array and the dictionary in memory (NodeArray, NodeDict) against    *)
(* the sequence and the list of keys that the commands compute with        *)
(* (NodeTree, which JsonStore uses).                                       *)
(***************************************************************************)
EXTENDS NodeArray, NodeDict, NodeTree

Elements == [i \in 1..len |-> entries[i - 1]]

Members == NewDictNode([i \in 1..dlen |-> slots[i - 1].key], [i \in 1..dlen |-> slots[i - 1].val])

AsSequence(xs, n) == [i \in 1..n |-> xs[i - 1]]

\* Moving the tail, copying into the gap and cutting out a range, wherever the
\* buffer had to grow, do to the elements what the commands take the operation
\* to do to a sequence, at every index and for every number of elements.
ArrayIsSequence ==
    [][/\ len' > len =>
             LET n == len' - len
             IN  \A index \in Indexes, xs \in Fresh(n) :
                    InsertItems(InsertIndex(index), xs, n)
                        => Elements' = Node_ArrayInsert(Elements, index, AsSequence(xs, n))
       /\ len' < len =>
             \A index \in Indexes, n \in Counts \ {0} :
                index >= -len /\ DelBetween(DelStart(index), DelStop(DelStart(index), n))
                    => Elements' = Node_ArrayDelRange(Elements, index, n)]_arrayVars

\* Growing the buffer, replacing and deleting entries do to the keys and their
\* values, in their order, what the commands take them to do.
DictIsMap ==
    [][/\ dlive' # dlive /\ dlen' >= dlen =>
             \A kv \in KeyVals : DictSetTo(kv) => Members' = Node_DictSet(Members, kv.key, kv.val)
       /\ dlen' < dlen =>
             \A key \in DictKeys : DelKey(key) => Members' = Node_DictDel(Members, key)]_dictVars
=============================================================================
