---------------------------- MODULE MCDocuments -----------------------------
(***************************************************************************)
(* Small instances of Documents and of Containers, the memory of an array  *)
(* and of a dictionary.  They share no state: which one a behaviour is     *)
(* about is decided at its start.                                          *)
(***************************************************************************)
EXTENDS Documents, Containers, JsonText

VARIABLE kind

vars == <<docVars, arrayVars, dictVars, kind>>

One == NewIntNode(1)
A == <<"a">>
B == <<"b">>
EmptyArray == NewArrayNode(<<>>)
EmptyDict == NewDictNode(<<>>, <<>>)

Scalars ==
    {NullNode, NewBoolNode(TRUE), NewBoolNode(FALSE), One, NewDoubleNode(2), NewDoubleNode(20),
     NewStringNode(<<>>), NewStringNode(<<"a", "quote", "newline">>)}

\* Containers in containers, empty ones first, between and last.
Flat == {EmptyArray, EmptyDict, NewArrayNode(<<One, NullNode>>),
         NewDictNode(<<A, B>>, <<One, NewStringNode(<<>>)>>)}
Nested == {NewArrayNode(<<m, n>>) : m, n \in Flat} \cup {NewDictNode(<<B, A>>, <<m, n>>) : m, n \in Flat}
Deep == {NewArrayNode(<<n, One, EmptyDict>>) : n \in Nested}
        \cup {NewDictNode(<<A, <<>>>>, <<n, EmptyArray>>) : n \in Nested}

MCDocs == Scalars \cup Flat \cup {NewArrayNode(<<n>>) : n \in Scalars} \cup Nested \cup Deep

RECURSIVE LevelsOf(_)
LevelsOf(n) == IF n.entries = <<>> THEN 0 ELSE 1 + Max({LevelsOf(n.entries[i]) : i \in DOMAIN n.entries})

MCFormats == {ToJSON(<<>>, <<>>, <<>>), ToJSON(<<"\t">>, <<"\n">>, <<" ">>), ToJSON(<<"\t">>, <<>>, <<>>)}

MCLiterals == ("1" :> One) @@ ("null" :> NullNode) @@ ("true" :> NewBoolNode(TRUE))
    @@ ("false" :> NewBoolNode(FALSE)) @@ ("2" :> NewIntNode(2)) @@ ("20e" :> NewDoubleNode(20))

MCEncodings == {-1, 0, 1}

MCAlphabet == {"{", "}", "[", "]", ",", ":", "\"", "1", "1e999", " "}
MCInStrings == {"\"", "a", ",", "\\?"}

MCIndexes == {-5, -2, -1, 0, 1, 2, 5}
MCPowers == {1, 2, 4, 8}

\* The allocator takes the least free addresses, the same for every behaviour
\* up to their names.
LeastFree(old, new, all) == \A n \in new \ old, m \in all \ (old \cup new) : n < m

ServeStep ==
    /\ kind = "documents"
    /\ Serve
    /\ UNCHANGED <<arrayVars, dictVars, kind>>

CommandStep ==
    /\ kind = "documents"
    /\ Commands
    /\ UNCHANGED <<arrayVars, dictVars, kind>>

ArrayStep ==
    /\ kind = "array"
    /\ ArrayNext /\ LeastFree(live, live', Nodes)
    /\ UNCHANGED <<docVars, dictVars, kind>>

DictStep ==
    /\ kind = "dict"
    /\ DictNext /\ LeastFree(dlive, dlive', Values)
    /\ UNCHANGED <<docVars, arrayVars, kind>>

Init ==
    /\ kind \in {"documents", "array", "dict"}
    /\ Start /\ ArrayInit /\ DictInit
    /\ kind # "array" => cap = 0
    /\ kind # "dict" => dcap = 0

Next == ServeStep \/ CommandStep \/ ArrayStep \/ DictStep

Spec == Init /\ [][Next]_vars /\ WF_vars(ServeStep)
=============================================================================
