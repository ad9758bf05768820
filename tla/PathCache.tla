----------------------------- MODULE PathCache ------------------------------
(***************************************************************************)
(* What the commands may assume of the cache of serialized values: a map   *)
(* from a document and a path to a value.  A fill may push out at most one *)
(* other entry; changing a document at a path drops, at once, exactly the  *)
(* entries above, at and below that path; a document takes its entries     *)
(* with it.  Nothing else disappears, except all of it in a restart.       *)
(***************************************************************************)
EXTENDS Integers, Sequences, FiniteSets, SequencesExt

CONSTANTS Docs, Paths, Values

VARIABLES
    content,    \* triples <<document, path, value>>
    docs        \* allocated documents

avars == <<content, docs>>

Affected(p, q) == IsPrefix(p, q) \/ IsPrefix(q, p)

Init == content = {} /\ docs = {}

Create(d) == d \notin docs /\ docs' = docs \cup {d} /\ UNCHANGED content

Fill(d, p, v) ==
    /\ d \in docs
    /\ \A t \in content : ~(t[1] = d /\ t[2] = p)
    /\ \E victims \in SUBSET content :
        /\ Cardinality(victims) <= 1
        /\ content' = (content \ victims) \cup {<<d, p, v>>}
    /\ UNCHANGED docs

Invalidate(d, p) ==
    /\ d \in docs
    /\ content' = {t \in content : ~(t[1] = d /\ Affected(t[2], p))}
    /\ UNCHANGED docs

Free(d) ==
    /\ d \in docs
    /\ docs' = docs \ {d}
    /\ content' = {t \in content : t[1] # d}

Restart == content' = {} /\ docs' = {}

Next ==
    \/ \E d \in Docs : Create(d) \/ Free(d)
    \/ \E d \in Docs, p \in Paths : Invalidate(d, p)
    \/ \E d \in Docs, p \in Paths, v \in Values : Fill(d, p, v)
    \/ Restart

Spec == Init /\ [][Next]_avars
=============================================================================
