--------------------------- MODULE DocumentsProofs ---------------------------
(***************************************************************************)
(* Proofs about Documents, for every set of documents: the parser's two    *)
(* stacks stay parallel, the traversal writes what the recursion over the  *)
(* document gives, the loader gives back what was saved, and the parser    *)
(* reads back what the serializer wrote.                                   *)
(***************************************************************************)
EXTENDS Documents, JsonParserProofs

-----------------------------------------------------------------------------
(* Reading a text.                                                         *)

\* A text that is read to its end has begun, and the stacks are parallel.
Reading ==
    /\ ps.outcome = "parsing" => Sound(ps)
    /\ ps.outcome = "leading" => Fresh(ps) /\ ps.scalar = FALSE
    /\ phase = "read" /\ text # <<>> => ps.outcome \in {"leading", "parsing"}

\* What a text begins with.
LEMMA ResetFresh ==
    ASSUME NEW escapes
    PROVE  Fresh(Reset(escapes)) /\ Reset(escapes).outcome = "leading" /\ Reset(escapes).scalar = FALSE
BY DEF Reset, Fresh, IsContext, Fields

\* A token.
LEMMA FeedReads ==
    ASSUME Reading, ps.outcome \in {"leading", "parsing"}, NEW c, Feed(c)
    PROVE  /\ ps'.outcome = "parsing" => Sound(ps')
           /\ ps'.outcome = "leading" => Fresh(ps') /\ ps'.scalar = FALSE
           /\ ps'.outcome \in {"leading", "parsing"}
<1>1. CASE ps.outcome = "leading" /\ c \in Whitespace
  <2>1. ps' = ps
    BY <1>1 DEF Feed
  <2> QED BY <1>1, <2>1 DEF Reading
<1>2. CASE ps.outcome = "leading" /\ c \notin Whitespace
  <2>1. ps' = Lex(Embedded(ps, c), c)
    BY <1>2 DEF Feed
  <2>2. Sound(ps')
    BY <1>2, <2>1, LeadingSound DEF Reading
  <2> QED BY <2>2 DEF Sound
<1>3. CASE ps.outcome = "parsing"
  <2>1. ps' = Lex(ps, c)
    BY <1>3 DEF Feed
  <2>2. Sound(ps')
    BY <1>3, <2>1, LexSound DEF Reading
  <2> QED BY <2>2 DEF Sound
<1> QED BY <1>1, <1>2, <1>3

\* The checks after the text.
LEMMA CreatedDone ==
    ASSUME NEW p, IsContext(p)
    PROVE  Created(p).outcome \notin {"leading", "parsing"}
BY DEF Created, IsContext, Fields

\* The end of a text.
LEMMA EndReads ==
    ASSUME Reading, ps.outcome \in {"leading", "parsing"}, CreateEnd
    PROVE  ps'.outcome \notin {"leading", "parsing"}
<1>1. IsContext(ps)
  BY DEF Reading, Sound, Fresh
<1>2. CASE ~ps.scalar
  <2>1. ps' = Created(ps)
    BY <1>2 DEF CreateEnd
  <2> QED BY <1>1, <2>1, CreatedDone
<1>3. CASE ps.scalar
  <2>1. ps' = Created(Lex(ps, "]"))
    BY <1>3 DEF CreateEnd
  <2>2. ps.outcome = "parsing"
    BY <1>3 DEF Reading
  <2>3. IsContext(Lex(ps, "]"))
    BY <2>2, LexSound DEF Reading, Sound
  <2> QED BY <2>1, <2>3, CreatedDone
<1> QED BY <1>2, <1>3

\* Every step of the server.
LEMMA ReadingKept ==
    ASSUME Reading, [Serve \/ Commands]_docVars
    PROVE  Reading'
<1>1. ASSUME UNCHANGED <<ps, phase, text>> PROVE Reading'
  <2>1. ps' = ps /\ phase' = phase /\ text' = text
    BY <1>1
  <2> QED BY <2>1 DEF Reading
<1>2. CASE UNCHANGED docVars
  BY <1>1, <1>2 DEF docVars
<1>3. ASSUME UNCHANGED <<ps, text>>, phase' # "read" PROVE Reading'
  <2>1. ps' = ps /\ text' = text
    BY <1>3
  <2> QED BY <1>3, <2>1 DEF Reading
<1>4. CASE Traverse \/ Load
  BY <1>1, <1>4 DEF Traverse, Load
<1>5. CASE LoadSaved
  BY <1>3, <1>5 DEF LoadSaved
<1>6. ASSUME CreateBegin PROVE Fresh(ps') /\ ps'.outcome = "leading" /\ ps'.scalar = FALSE
  <2>1. ps' = Reset(ps.escapes)
    BY <1>6 DEF CreateBegin
  <2> QED BY <2>1, ResetFresh
<1>7. CASE ReadWritten \/ ClientBegin
  <2>1. CreateBegin
    BY <1>7 DEF ReadWritten, ClientBegin
  <2> QED BY <1>6, <2>1 DEF Reading
<1>8. CASE ReadToken
  <2>1. PICK c : Feed(c)
    BY <1>8 DEF ReadToken
  <2>2. ps.outcome \in {"leading", "parsing"}
    BY <1>8 DEF ReadToken, Reading
  <2> QED BY <2>1, <2>2, FeedReads DEF Reading
<1>9. CASE ClientToken
  <2>1. PICK c : Feed(c)
    BY <1>9 DEF ClientToken
  <2>2. ps.outcome \in {"leading", "parsing"}
    BY <1>9 DEF ClientToken
  <2> QED BY <2>1, <2>2, FeedReads DEF Reading
<1>10. CASE TextEnd
  <2>1. CreateEnd /\ ps.outcome \in {"leading", "parsing"} /\ phase' = phase /\ text' = text
    BY <1>10 DEF TextEnd
  <2>2. ps'.outcome \notin {"leading", "parsing"}
    BY <2>1, EndReads
  <2>3. phase = "read" => text = <<>>
    BY <1>10 DEF TextEnd
  <2> QED BY <2>1, <2>2, <2>3 DEF Reading
<1>11. CASE NextCommand
  <2>1. PICK p : p = Reset([k \in 1..(Levels - 1) |-> FALSE])
    OBVIOUS
  <2>2. IsContext(p)
    BY <2>1, ResetFresh DEF Fresh
  <2>3. PICK q : q = [p EXCEPT !.outcome = "idle"]
    OBVIOUS
  <2>4. IsContext(q) /\ q.outcome = "idle"
    BY <2>2, <2>3 DEF IsContext, Fields
  <2>5. ps' = q \/ ps' = [q EXCEPT !.escapes = ps.escapes]
    BY <1>11, <2>1, <2>3 DEF NextCommand, NewJSONObjectCtx
  <2>6. ps'.outcome = "idle"
    BY <2>4, <2>5 DEF IsContext, Fields
  <2>7. phase' = "start"
    BY <1>11 DEF NextCommand
  <2> QED BY <2>6, <2>7 DEF Reading
<1>12. CASE JSONTypeRdbSave \/ ObjectTypeToRespReply \/ SerializeNodeToJSON
  <2>1. PICK next, v : next \in {"save", "resp", "write"} /\ Write(next, v)
    BY <1>12 DEF JSONTypeRdbSave, ObjectTypeToRespReply, SerializeNodeToJSON
  <2> QED BY <1>3, <2>1 DEF Write
<1> QED BY <1>2, <1>4, <1>5, <1>7, <1>8, <1>9, <1>10, <1>11, <1>12 DEF Serve, Commands

\* The stack of nodes that the parser's callbacks keep is parallel to the
\* stack of the lexer, whatever the text and wherever it is cut off, until a
\* node is written behind the array's last slot.
THEOREM StacksAlwaysParallel == DocSpec => []StacksParallel
<1>1. Start => Reading
  <2> SUFFICES ASSUME Start PROVE Reading
    OBVIOUS
  <2>1. PICK p : p = Reset([k \in 1..(Levels - 1) |-> FALSE])
    OBVIOUS
  <2>2. IsContext(p)
    BY <2>1, ResetFresh DEF Fresh
  <2>3. ps = [p EXCEPT !.outcome = "idle"]
    BY <2>1 DEF Start, NewJSONObjectCtx
  <2>4. ps.outcome = "idle" /\ phase = "start"
    BY <2>2, <2>3 DEF IsContext, Fields, Start
  <2> QED BY <2>4 DEF Reading
<1>2. Reading => StacksParallel
  <2> SUFFICES ASSUME Reading, ps.outcome = "parsing", ps.err = "none", level(ps) > 0, ps.stack[1].nelem = 1
               PROVE  [i \in DOMAIN ps.nodes |-> ps.nodes[i].type]
                        = FlattenSeq([i \in DOMAIN ps.stack |-> NodesOf(ps.stack, i)])
    BY DEF StacksParallel
  <2>1. Shape(ps.stack) /\ Matched(ps.stack, TypesOf(ps.nodes))
    BY DEF Reading, Sound, Parallel
  <2>2. Len(ps.stack) \in Nat /\ Len(ps.stack) - 1 > 0
    BY <2>1, StateIs DEF level
  <2>3. Len(ps.stack) > 1
    BY <2>2
  <2> QED BY <2>1, <2>3 DEF Matched, TypesOf, Slotted
<1> QED BY <1>1, <1>2, ReadingKept, PTL DEF DocSpec

-----------------------------------------------------------------------------
(* Sequences, whatever they are of.                                        *)

\* A sequence is one over every set that has its elements.
LEMMA SequenceWithin ==
    ASSUME NEW s, IsSequence(s), NEW U, Range(s) \subseteq U
    PROVE  s \in Seq(U)
<1>1. PICK R : R = Range(s)
  OBVIOUS
<1>2. s \in Seq(R) /\ R \subseteq U
  BY <1>1 DEF IsSequence
<1> QED BY <1>2

\* A sequence over any set is one over the set of its elements.
LEMMA SequenceOf ==
    ASSUME NEW U, NEW s \in Seq(U)
    PROVE  IsSequence(s)
BY OfItsOwn DEF IsSequence

\* Sequences of up to two elements.
LEMMA SmallSequences ==
    ASSUME NEW a, NEW b
    PROVE  /\ IsSequence(<<>>) /\ IsSequence(<<a>>) /\ IsSequence(<<a, b>>)
           /\ <<a>> \o <<b>> = <<a, b>>
<1>1. PICK U : U = {a, b}
  OBVIOUS
<1>2. PICK e : e = <<>>
  OBVIOUS
<1>3. e \in Seq(U)
  BY <1>2, EmptySeq
<1>4. PICK s : s = <<a>>
  OBVIOUS
<1>5. s \in Seq(U) /\ Len(s) = 1 /\ s[1] = a
  BY <1>1, <1>4
<1>6. PICK r : r = <<b>>
  OBVIOUS
<1>7. r \in Seq(U) /\ Len(r) = 1 /\ r[1] = b
  BY <1>1, <1>6
<1>8. PICK t : t = <<a, b>>
  OBVIOUS
<1>9. t \in Seq(U) /\ Len(t) = 2 /\ t[1] = a /\ t[2] = b
  BY <1>1, <1>8
<1>10. PICK c : c = s \o r
  OBVIOUS
<1>11. c \in Seq(U) /\ Len(c) = 2 /\ c[1] = a /\ c[2] = b
  <2>1. /\ c \in Seq(U) /\ Len(c) = Len(s) + Len(r)
        /\ \A i \in 1..(Len(s) + Len(r)) : c[i] = IF i <= Len(s) THEN s[i] ELSE r[i - Len(s)]
    BY <1>5, <1>7, <1>10, ConcatProperties
  <2>2. Len(c) = 2 /\ \A i \in 1..2 : c[i] = IF i <= 1 THEN s[i] ELSE r[i - 1]
    BY <1>5, <1>7, <2>1
  <2>3. 1 \in 1..2 /\ 2 \in 1..2 /\ 1 <= 1 /\ ~(2 <= 1) /\ 2 - 1 = 1
    OBVIOUS
  <2>4. c[1] = s[1] /\ c[2] = r[1]
    BY <2>2, <2>3
  <2> QED BY <1>5, <1>7, <2>1, <2>2, <2>4
<1>12. \A i \in 1..2 : i = 1 \/ i = 2
  OBVIOUS
<1>13. c = t
  BY <1>9, <1>11, <1>12, SeqEqual
<1> QED BY <1>2, <1>3, <1>4, <1>5, <1>6, <1>8, <1>9, <1>10, <1>13, SequenceOf

\* Concatenation.
LEMMA Concats ==
    ASSUME NEW a, IsSequence(a), NEW b, IsSequence(b)
    PROVE  /\ IsSequence(a \o b) /\ a \o <<>> = a /\ <<>> \o a = a
           /\ Len(a \o b) = Len(a) + Len(b)
<1>1. PICK U : U = Range(a) \cup Range(b)
  OBVIOUS
<1>2. a \in Seq(U) /\ b \in Seq(U)
  BY <1>1, SequenceWithin
<1>3. a \o b \in Seq(U) /\ a \o <<>> = a /\ <<>> \o a = a /\ Len(a \o b) = Len(a) + Len(b)
  BY <1>2, ConcatEmptySeq
<1> QED BY <1>3, SequenceOf

\* Concatenation is associative.
LEMMA Associates ==
    ASSUME NEW a, IsSequence(a), NEW b, IsSequence(b), NEW c, IsSequence(c)
    PROVE  (a \o b) \o c = a \o (b \o c)
<1>1. PICK V : V = Range(a) \cup Range(b) \cup Range(c)
  OBVIOUS
<1>2. Range(a) \subseteq V /\ Range(b) \subseteq V /\ Range(c) \subseteq V
  BY <1>1
<1>3. a \in Seq(V) /\ b \in Seq(V) /\ c \in Seq(V)
  BY <1>2, SequenceWithin
<1> QED BY <1>3, ConcatAssociative, SMTT(40)

AllSequences(s, n) == \A i \in 1..n : IsSequence(s[i])

\* Sequences of sequences, made by a rule.
LEMMA NestedSequences ==
    ASSUME NEW n \in Nat, NEW s, s = [i \in 1..n |-> s[i]], AllSequences(s, n)
    PROVE  \E U : s \in Seq(Seq(U)) /\ Len(s) = n
<1>1. PICK U : U = UNION {Range(s[i]) : i \in 1..n}
  OBVIOUS
<1>2. ASSUME NEW i \in 1..n PROVE s[i] \in Seq(U)
  <2>1. Range(s[i]) \subseteq U
    BY <1>1
  <2>2. IsSequence(s[i])
    BY DEF AllSequences
  <2> QED BY <2>1, <2>2, SequenceWithin
<1>3. PICK S : S = Seq(U)
  OBVIOUS
<1>4. s \in Seq(S) /\ Len(s) = n
  BY <1>2, <1>3
<1> QED BY <1>3, <1>4

\* A rule with values in a set is a sequence over it.
LEMMA SequenceByRule ==
    ASSUME NEW n \in Nat, NEW s, s = [i \in 1..n |-> s[i]], NEW S, \A i \in 1..n : s[i] \in S
    PROVE  s \in Seq(S) /\ Len(s) = n
OBVIOUS

\* They flatten to a sequence, with another one at the end too.
LEMMA FlattensTo ==
    ASSUME NEW n \in Nat, NEW s, s = [i \in 1..n |-> s[i]], AllSequences(s, n)
    PROVE  IsSequence(FlattenSeq(s))
<1>1. PICK U : s \in Seq(Seq(U))
  BY NestedSequences
<1> QED BY <1>1, FlattenTyped, SequenceOf

\* One more sequence at the end is flattened behind the others.
LEMMA FlattensNext ==
    ASSUME NEW n \in Nat, NEW s, s = [i \in 1..n |-> s[i]],
           NEW t, t = [i \in 1..(n + 1) |-> t[i]], AllSequences(t, n + 1), \A i \in 1..n : s[i] = t[i]
    PROVE  FlattenSeq(t) = FlattenSeq(s) \o t[n + 1]
<1>1. n + 1 \in Nat /\ \A i \in 1..n : i \in 1..(n + 1)
  OBVIOUS
<1>2. PICK U : t \in Seq(Seq(U)) /\ Len(t) = n + 1
  BY <1>1, NestedSequences
<1>3. PICK S : S = Seq(U)
  OBVIOUS
<1>4. \A i \in 1..n : s[i] \in S
  <2>1. \A i \in 1..(n + 1) : t[i] \in S
    BY <1>2, <1>3
  <2> QED BY <1>1, <2>1
<1>5. s \in Seq(S) /\ Len(s) = n
  BY <1>4, SequenceByRule
<1>6. /\ s \in Seq(Seq(U)) /\ Len(s) = n /\ t \in Seq(Seq(U)) /\ Len(t) = n + 1
      /\ \A i \in 1..n : t[i] = s[i]
  BY <1>2, <1>3, <1>5
<1> QED BY <1>6, FlattenLast

-----------------------------------------------------------------------------
(* What the traversal visits.                                              *)

Visitors == {Save, ToResp} \cup Formats

ScalarTypes == {"null", "boolean", "integer", "number", "string"}

\* The key and value of a member of a dictionary are visited as a node.
IsMember(n, d, i) == d \in Docs /\ d.type = "dict" /\ i \in 1..Len(d.entries) /\ n = KeyVal(d.keys[i], d.entries[i])
Visited(n) == n \in Docs \/ \E d, i : IsMember(n, d, i)

Height(n) == IF n.type = "keyval" THEN DepthOf(n.entries[1]) ELSE DepthOf(n)
Within(n, d) == d \in Nat /\ d + Height(n) <= Deepest

\* What is to be written of a document, and of a node that is visited.
Written(v, n, d) ==
    CASE v.kind = "rdb" -> SavedAs(n)
      [] v.kind = "resp" -> RespReplyOf(n)
      [] v.kind = "json" -> WrittenAs(n, v, d)

Meaning(v, n, d) ==
    IF n.type = "keyval" THEN fBegin(v, n, d) \o Written(v, n.entries[1], d) ELSE Written(v, n, d)

\* The same as the traversal puts it together: the beginning of the node, then
\* its children with a delimiter before each but the first.
Delim(v, n, d, i) == IF i = 1 THEN <<>> ELSE fDelim(v, n, d + Deeper(v, n))
Part(v, n, d, i) == Delim(v, n, d, i) \o Meaning(v, Entries(n)[i], d + Deeper(v, n))
Parts(v, n, d, k) == [i \in 1..k |-> Part(v, n, d, i)]
Opening(v, n, d, k) == fBegin(v, n, d) \o FlattenSeq(Parts(v, n, d, k))

\* The visitors, by what they write.
LEMMA VisitorsAre ==
    ASSUME NEW v \in Visitors
    PROVE  /\ v.kind \in {"rdb", "resp", "json"}
           /\ v.kind = "rdb" => v = Save
           /\ v.kind = "resp" => v = ToResp
           /\ v.kind = "json" => v \in Formats
           /\ IsSequence(v.indent) /\ IsSequence(v.newline) /\ IsSequence(v.space)
<1>1. CASE v \in Formats
  <2>1. v = ToJSON(v.indent, v.newline, v.space)
        /\ IsSequence(v.indent) /\ IsSequence(v.newline) /\ IsSequence(v.space)
    BY <1>1, FormatsAssumption
  <2>2. v.kind = "json"
    BY <2>1 DEF ToJSON, Visitor
  <2> QED BY <1>1, <2>1, <2>2
<1>2. CASE v = Save
  <2>1. v.kind = "rdb" /\ v.indent = <<>> /\ v.newline = <<>> /\ v.space = <<>>
    BY <1>2 DEF Save, Visitor
  <2> QED BY <1>2, <2>1, SmallSequences
<1>3. CASE v = ToResp
  <2>1. v.kind = "resp" /\ v.indent = <<>> /\ v.newline = <<>> /\ v.space = <<>>
    BY <1>3 DEF ToResp, Visitor
  <2> QED BY <1>3, <2>1, SmallSequences
<1> QED BY <1>1, <1>2, <1>3 DEF Visitors

\* The documents, by type.
LEMMA DocsAre ==
    ASSUME NEW n \in Docs
    PROVE  /\ n.type \in ScalarTypes \cup {"array", "dict"}
           /\ n.type \in ScalarTypes => n.entries = <<>>
           /\ n.type = "string" => IsSequence(n.str)
           /\ n.entries \in Seq(Docs) /\ Len(n.entries) \in Nat /\ DOMAIN n.entries = 1..Len(n.entries)
           /\ n.type = "dict" => /\ IsSequence(n.keys) /\ Len(n.keys) = Len(n.entries)
                                 /\ \A i \in 1..Len(n.entries) : IsSequence(n.keys[i])
           /\ DepthOf(n) \in Nat /\ DepthOf(n) <= Deepest /\ Deepest \in Nat
           /\ \A i \in 1..Len(n.entries) : DepthOf(n.entries[i]) < DepthOf(n)
<1>1. /\ Deepest \in Nat /\ WellMade(n) /\ DepthOf(n) \in 0..Deepest
      /\ \A i \in DOMAIN n.entries : DepthOf(n.entries[i]) < DepthOf(n)
  BY DocumentsAssumption
<1>2. ASSUME n.entries \in Seq(Docs)
      PROVE  /\ Len(n.entries) \in Nat /\ DOMAIN n.entries = 1..Len(n.entries)
             /\ DepthOf(n) \in Nat /\ DepthOf(n) <= Deepest /\ Deepest \in Nat
             /\ \A i \in 1..Len(n.entries) : DepthOf(n.entries[i]) < DepthOf(n)
  <2>1. Len(n.entries) \in Nat /\ DOMAIN n.entries = 1..Len(n.entries)
    BY <1>2
  <2>2. DepthOf(n) \in Nat /\ DepthOf(n) <= Deepest
    BY <1>1
  <2> QED BY <1>1, <2>1, <2>2
<1>3. PICK e : e = <<>>
  OBVIOUS
<1>4. e \in Seq(Docs)
  BY <1>3, EmptySeq
<1>5. ASSUME NEW t \in ScalarTypes, n.type = t, n.entries = e, t = "string" => IsSequence(n.str)
      PROVE  /\ n.type \in ScalarTypes /\ n.entries = <<>> /\ n.entries \in Seq(Docs)
             /\ n.type # "dict" /\ (n.type = "string" => IsSequence(n.str))
  BY <1>3, <1>4, <1>5 DEF ScalarTypes
<1>6. CASE n \in {NullNode, NewBoolNode(TRUE), NewBoolNode(FALSE)}
  <2>1. (n.type = "null" \/ n.type = "boolean") /\ n.entries = e
    BY <1>3, <1>6 DEF NullNode, NewBoolNode, New
  <2>2. n.type \in ScalarTypes /\ n.type # "string"
    BY <2>1 DEF ScalarTypes
  <2> QED BY <1>2, <1>5, <2>1, <2>2
<1>7. CASE n \in {NewIntNode(n.num), NewDoubleNode(n.num)}
  <2>1. (n.type = "integer" \/ n.type = "number") /\ n.entries = e
    BY <1>3, <1>7 DEF NewIntNode, NewDoubleNode, New
  <2>2. n.type \in ScalarTypes /\ n.type # "string"
    BY <2>1 DEF ScalarTypes
  <2> QED BY <1>2, <1>5, <2>1, <2>2
<1>8. CASE n = NewStringNode(n.str) /\ IsSequence(n.str)
  <2>1. n.type = "string" /\ n.entries = e
    BY <1>3, <1>8 DEF NewStringNode, New
  <2>2. n.type \in ScalarTypes
    BY <2>1 DEF ScalarTypes
  <2> QED BY <1>2, <1>5, <1>8, <2>1, <2>2
<1>9. CASE n = NewArrayNode(n.entries) /\ n.entries \in Seq(Docs)
  <2>1. n.type = "array"
    BY <1>9 DEF NewArrayNode, New
  <2> QED BY <1>2, <1>9, <2>1 DEF ScalarTypes
<1>10. CASE /\ n = NewDictNode(n.keys, n.entries) /\ n.entries \in Seq(Docs)
            /\ IsSequence(n.keys) /\ Len(n.keys) = Len(n.entries)
            /\ \A i, j \in DOMAIN n.keys : IsSequence(n.keys[i]) /\ (n.keys[i] = n.keys[j] => i = j)
  <2>1. n.type = "dict"
    BY <1>10 DEF NewDictNode, New
  <2>2. DOMAIN n.keys = 1..Len(n.keys)
    BY <1>10 DEF IsSequence
  <2>3. \A i \in 1..Len(n.entries) : IsSequence(n.keys[i])
    BY <1>10, <2>2
  <2> QED BY <1>2, <1>10, <2>1, <2>3 DEF ScalarTypes
<1> QED BY <1>1, <1>6, <1>7, <1>8, <1>9, <1>10 DEF WellMade

\* Members are nodes of their own.
LEMMA MembersAre ==
    ASSUME NEW n, NEW d, NEW i, IsMember(n, d, i)
    PROVE  /\ n.type = "keyval" /\ n.str = d.keys[i] /\ IsSequence(n.str)
           /\ n.entries = <<d.entries[i]>> /\ n.entries[1] = d.entries[i] /\ d.entries[i] \in Docs
           /\ Entries(n) = n.entries /\ Len(n.entries) = 1
           /\ Height(n) = DepthOf(d.entries[i])
<1>1. d \in Docs /\ d.type = "dict" /\ i \in 1..Len(d.entries) /\ n = KeyVal(d.keys[i], d.entries[i])
  BY DEF IsMember
<1>2. PICK key : key = d.keys[i]
  OBVIOUS
<1>3. PICK e : e = d.entries[i]
  OBVIOUS
<1>4. e \in Docs /\ IsSequence(key)
  BY <1>1, <1>2, <1>3, DocsAre
<1>5. n = KeyVal(key, e)
  BY <1>1, <1>2, <1>3
<1>6. n.type = "keyval" /\ n.str = key /\ n.entries = <<e>>
  BY <1>5 DEF KeyVal, New
<1>7. n.entries[1] = e /\ Len(n.entries) = 1
  BY <1>6
<1>8. Entries(n) = n.entries
  BY <1>6 DEF Entries
<1> QED BY <1>2, <1>3, <1>4, <1>6, <1>7, <1>8 DEF Height

\* The children of a document.
LEMMA EntriesAre ==
    ASSUME NEW n \in Docs
    PROVE  /\ Len(Entries(n)) = Len(n.entries)
           /\ Entries(n) = [i \in 1..Len(n.entries) |-> Entries(n)[i]]
           /\ \A i \in 1..Len(n.entries) :
                /\ n.type = "dict" => IsMember(Entries(n)[i], n, i)
                /\ n.type # "dict" => Entries(n)[i] = n.entries[i]
<1>1. n.entries \in Seq(Docs) /\ Len(n.entries) \in Nat /\ DOMAIN n.entries = 1..Len(n.entries)
  BY DocsAre
<1>2. PICK k \in Nat : k = Len(n.entries)
  BY <1>1
<1>3. CASE n.type = "dict"
  <2>1. PICK s : s = [i \in 1..k |-> KeyVal(n.keys[i], n.entries[i])]
    OBVIOUS
  <2>2. Entries(n) = s
    BY <1>1, <1>2, <1>3, <2>1 DEF Entries
  <2>3. Len(s) = k /\ s = [i \in 1..k |-> s[i]] /\ \A i \in 1..k : s[i] = KeyVal(n.keys[i], n.entries[i])
    BY <2>1
  <2> QED BY <1>2, <1>3, <2>2, <2>3 DEF IsMember
<1>4. CASE n.type # "dict"
  <2>1. Entries(n) = n.entries
    BY <1>4 DEF Entries
  <2> QED BY <1>1, <1>4, <2>1
<1> QED BY <1>3, <1>4

\* The children of a node are visited in turn, and the depth has room for them.
LEMMA ChildrenAre ==
    ASSUME NEW n, Visited(n)
    PROVE  /\ Len(Entries(n)) \in Nat
           /\ Entries(n) = [i \in 1..Len(Entries(n)) |-> Entries(n)[i]]
           /\ \A i \in 1..Len(Entries(n)) : Visited(Entries(n)[i])
           /\ \A v \in Visitors, d \in Nat : Within(n, d) =>
                /\ Deeper(v, n) \in Nat
                /\ \A i \in 1..Len(Entries(n)) : Within(Entries(n)[i], d + Deeper(v, n))
<1>0. ASSUME NEW v \in Visitors PROVE Deeper(v, n) \in {0, 1}
  BY DEF Deeper
<1>1. CASE n \in Docs
  <2>1. n.type \in ScalarTypes \cup {"array", "dict"} /\ n.type # "keyval"
    BY <1>1, DocsAre DEF ScalarTypes
  <2>2. PICK k \in Nat : k = Len(n.entries) /\ k = Len(Entries(n))
    BY <1>1, DocsAre, EntriesAre
  <2>3. ASSUME NEW i \in 1..k
        PROVE  /\ Visited(Entries(n)[i]) /\ Height(Entries(n)[i]) = DepthOf(n.entries[i])
               /\ DepthOf(n.entries[i]) \in Nat /\ DepthOf(n.entries[i]) < DepthOf(n)
    <3>1. PICK e : e = n.entries[i]
      OBVIOUS
    <3>2. e \in Docs /\ DepthOf(e) < DepthOf(n)
      <4>1. n.entries \in Seq(Docs) /\ \A m \in 1..Len(n.entries) : DepthOf(n.entries[m]) < DepthOf(n)
        BY <1>1, DocsAre
      <4>2. i \in 1..Len(n.entries)
        BY <2>2
      <4>3. n.entries[i] \in Docs /\ DepthOf(n.entries[i]) < DepthOf(n)
        BY <4>1, <4>2
      <4> QED BY <3>1, <4>3
    <3>3. DepthOf(e) \in Nat /\ e.type # "keyval"
      BY <3>2, DocsAre DEF ScalarTypes
    <3>4. CASE n.type = "dict"
      <4>1. IsMember(Entries(n)[i], n, i)
        BY <1>1, <2>2, <3>4, EntriesAre
      <4>2. Visited(Entries(n)[i]) /\ Height(Entries(n)[i]) = DepthOf(e)
        BY <3>1, <4>1, MembersAre DEF Visited
      <4> QED BY <3>1, <3>2, <3>3, <4>2
    <3>5. CASE n.type # "dict"
      <4>1. Entries(n)[i] = e
        BY <1>1, <2>2, <3>1, <3>5, EntriesAre
      <4>2. Visited(e) /\ Height(e) = DepthOf(e)
        BY <3>2, <3>3 DEF Visited, Height
      <4> QED BY <3>1, <3>2, <3>3, <4>1, <4>2
    <3> QED BY <3>4, <3>5
  <2>4. ASSUME NEW v \in Visitors, NEW d \in Nat, Within(n, d), NEW i \in 1..k
        PROVE  Within(Entries(n)[i], d + Deeper(v, n))
    <3>1. d + DepthOf(n) <= Deepest
      BY <2>1, <2>4 DEF Within, Height
    <3>2. DepthOf(n) \in Nat /\ Deepest \in Nat
      BY <1>1, DocsAre
    <3>3. PICK x \in {0, 1} : x = Deeper(v, n)
      BY <1>0
    <3>4. PICK y : y = DepthOf(n.entries[i])
      OBVIOUS
    <3>5. y \in Nat /\ y < DepthOf(n) /\ Height(Entries(n)[i]) = y
      BY <2>3, <3>4
    <3>6. d + x \in Nat /\ (d + x) + y <= Deepest
      BY <3>1, <3>2, <3>5
    <3> QED BY <3>3, <3>5, <3>6 DEF Within
  <2>5. \A v \in Visitors : Deeper(v, n) \in Nat
    BY <1>0
  <2>6. Entries(n) = [i \in 1..Len(Entries(n)) |-> Entries(n)[i]]
    BY <1>1, <2>2, EntriesAre
  <2> QED BY <2>2, <2>3, <2>4, <2>5, <2>6
<1>2. CASE n \notin Docs
  <2>1. PICK f, j : IsMember(n, f, j)
    BY <1>2 DEF Visited
  <2>2. PICK e : e = f.entries[j]
    OBVIOUS
  <2>3. n.type = "keyval" /\ Entries(n) = <<e>> /\ e \in Docs /\ Height(n) = DepthOf(e)
    BY <2>1, <2>2, MembersAre
  <2>4. e.type # "keyval"
    BY <2>3, DocsAre DEF ScalarTypes
  <2>5. Visited(e) /\ Height(e) = DepthOf(e)
    BY <2>3, <2>4 DEF Visited, Height
  <2>6. PICK s : s = <<e>>
    OBVIOUS
  <2>7. Len(s) = 1 /\ s = [i \in 1..1 |-> s[i]] /\ s[1] = e
    BY <2>6
  <2>8. \A v : Deeper(v, n) = 0
    BY <2>3 DEF Deeper, IsContainer
  <2>9. \A d \in Nat : Within(n, d) => Within(e, d + 0)
    BY <2>3, <2>5 DEF Within
  <2>10. \A i \in 1..1 : i = 1
    OBVIOUS
  <2> QED BY <2>3, <2>5, <2>6, <2>7, <2>8, <2>9, <2>10
<1> QED BY <1>1, <1>2

-----------------------------------------------------------------------------
(* What the visitors write.                                                *)

\* Indentation is a sequence.
LEMMA IndentIs ==
    ASSUME NEW v \in Visitors, NEW k \in Nat
    PROVE  IsSequence(Indent(v, k))
<1>1. PICK s : s = [i \in 1..k |-> v.indent]
  OBVIOUS
<1>2. s = [i \in 1..k |-> s[i]] /\ \A i \in 1..k : s[i] = v.indent
  BY <1>1
<1>3. AllSequences(s, k)
  BY <1>2, VisitorsAre DEF AllSequences
<1> QED BY <1>1, <1>2, <1>3, FlattensTo DEF Indent

\* So is a quoted string.
LEMMA QuotedIs ==
    ASSUME NEW s, IsSequence(s)
    PROVE  IsSequence(Quoted(s))
<1>1. PICK q : q = "\""
  OBVIOUS
<1>2. PICK n \in Nat : n = Len(s) /\ DOMAIN s = 1..n
  BY DEF IsSequence
<1>3. PICK t : t = [i \in 1..n |-> Escape(s[i])]
  OBVIOUS
<1>4. Quoted(s) = <<q>> \o t \o <<q>>
  BY <1>1, <1>2, <1>3 DEF Quoted
<1>5. PICK U : U = {Escape(s[i]) : i \in 1..n}
  OBVIOUS
<1>6. t = [i \in 1..n |-> t[i]] /\ \A i \in 1..n : t[i] \in U
  BY <1>3, <1>5
<1>7. IsSequence(t)
  BY <1>6, SequenceByRule, SequenceOf
<1>8. IsSequence(<<q>>)
  BY SmallSequences
<1> QED BY <1>4, <1>7, <1>8, Concats

\* The types of the nodes that are visited.
LEMMA VisitedTypes ==
    ASSUME NEW n, Visited(n)
    PROVE  /\ n.type \in ScalarTypes \cup {"array", "dict", "keyval"}
           /\ n.type \in {"string", "keyval"} => IsSequence(n.str)
           /\ n.type # "keyval" => n \in Docs
           /\ n.type = "keyval" => n \notin Docs /\ \E d, i : IsMember(n, d, i)
<1>1. CASE n \in Docs
  <2>1. n.type # "keyval"
    BY <1>1, DocsAre DEF ScalarTypes
  <2> QED BY <1>1, <2>1, DocsAre
<1>2. CASE n \notin Docs
  <2>1. PICK d, i : IsMember(n, d, i)
    BY <1>2 DEF Visited
  <2>2. n.type = "keyval" /\ IsSequence(n.str)
    BY <2>1, MembersAre
  <2> QED BY <1>2, <2>1, <2>2
<1> QED BY <1>1, <1>2

\* And three sequences in a row.
LEMMA ThreeSequences ==
    ASSUME NEW a, IsSequence(a), NEW b, IsSequence(b), NEW c, IsSequence(c)
    PROVE  IsSequence(a \o b \o c)
<1>1. IsSequence(a \o b)
  BY Concats
<1> QED BY <1>1, Concats

\* What a visitor writes first of a node is a sequence: in the stream,
LEMMA SaveBeginIs ==
    ASSUME NEW n, Visited(n)
    PROVE  IsSequence(SaveBegin(n))
<1>1. PICK x : x = Item("unsigned", TypeCode[n.type], <<>>)
  OBVIOUS
<1>2. \A y : IsSequence(<<x>> \o <<y>>) /\ IsSequence(<<x>> \o <<>>)
  BY SmallSequences, Concats
<1>3. CASE n.type = "null"
  <2>1. SaveBegin(n) = <<x>> \o <<>>
    BY <1>1, <1>3 DEF SaveBegin, IsContainer
  <2> QED BY <1>2, <2>1
<1>4. CASE n.type = "boolean"
  <2>1. PICK y : y = Item("string", 0, IF n.num = 1 THEN <<"1">> ELSE <<"0">>)
    OBVIOUS
  <2>2. SaveBegin(n) = <<x>> \o <<y>>
    BY <1>1, <1>4, <2>1 DEF SaveBegin, IsContainer
  <2> QED BY <1>2, <2>2
<1>5. CASE n.type = "integer"
  <2>1. SaveBegin(n) = <<x>> \o <<Item("signed", n.num, <<>>)>>
    BY <1>1, <1>5 DEF SaveBegin, IsContainer
  <2> QED BY <1>2, <2>1
<1>6. CASE n.type = "number"
  <2>1. SaveBegin(n) = <<x>> \o <<Item("double", n.num, <<>>)>>
    BY <1>1, <1>6 DEF SaveBegin, IsContainer
  <2> QED BY <1>2, <2>1
<1>7. CASE n.type \in {"string", "keyval"}
  <2>1. SaveBegin(n) = <<x>> \o <<Item("string", 0, n.str)>>
    BY <1>1, <1>7 DEF SaveBegin, IsContainer
  <2> QED BY <1>2, <2>1
<1>8. CASE n.type \in {"array", "dict"}
  <2>1. SaveBegin(n) = <<x>> \o <<Item("unsigned", Len(n.entries), <<>>)>>
    BY <1>1, <1>8 DEF SaveBegin, IsContainer
  <2> QED BY <1>2, <2>1
<1>9. n.type \in ScalarTypes \cup {"array", "dict", "keyval"}
  BY VisitedTypes
<1> QED BY <1>3, <1>4, <1>5, <1>6, <1>7, <1>8, <1>9 DEF ScalarTypes

\* in the reply,
LEMMA RespBeginIs ==
    ASSUME NEW n, Visited(n)
    PROVE  IsSequence(RespBegin(n))
<1>1. \A x, y : IsSequence(<<x>>) /\ IsSequence(<<x, y>>)
  BY SmallSequences
<1>2. CASE n.type = "null"
  <2>1. RespBegin(n) = <<Item("nil", 0, <<>>)>>
    BY <1>2 DEF RespBegin, IsContainer
  <2> QED BY <1>1, <2>1
<1>3. CASE n.type = "boolean"
  <2>1. RespBegin(n) = <<Item("simple", 0, IF n.num = 1 THEN <<"true">> ELSE <<"false">>)>>
    BY <1>3 DEF RespBegin, IsContainer
  <2> QED BY <1>1, <2>1
<1>4. CASE n.type = "integer"
  <2>1. RespBegin(n) = <<Item("int", n.num, <<>>)>>
    BY <1>4 DEF RespBegin, IsContainer
  <2> QED BY <1>1, <2>1
<1>5. CASE n.type = "number"
  <2>1. RespBegin(n) = <<Item("double", n.num, <<>>)>>
    BY <1>5 DEF RespBegin, IsContainer
  <2> QED BY <1>1, <2>1
<1>6. CASE n.type = "string"
  <2>1. RespBegin(n) = <<Item("bulk", 0, n.str)>>
    BY <1>6 DEF RespBegin, IsContainer
  <2> QED BY <1>1, <2>1
<1>7. CASE n.type = "keyval"
  <2>1. RespBegin(n) = <<Item("array", 2, <<>>), Item("bulk", 0, n.str)>>
    BY <1>7 DEF RespBegin, IsContainer
  <2> QED BY <1>1, <2>1
<1>8. CASE n.type \in {"array", "dict"}
  <2>1. RespBegin(n) = <<Item("array", Len(n.entries) + 1, <<>>), Item("simple", 0, <<Brackets[n.type][1]>>)>>
    BY <1>8 DEF RespBegin, IsContainer
  <2> QED BY <1>1, <2>1
<1>9. n.type \in ScalarTypes \cup {"array", "dict", "keyval"}
  BY VisitedTypes
<1> QED BY <1>2, <1>3, <1>4, <1>5, <1>6, <1>7, <1>8, <1>9 DEF ScalarTypes

\* and in the text.
LEMMA JsonBeginIs ==
    ASSUME NEW v \in Visitors, NEW n, Visited(n), NEW d \in Nat
    PROVE  IsSequence(JsonBegin(v, n, d))
<1>1. \A x : IsSequence(<<x>>) /\ IsSequence(<<>>)
  BY SmallSequences
<1>2. n.type \in {"string", "keyval"} => IsSequence(Quoted(n.str))
  BY VisitedTypes, QuotedIs
<1>3. IsSequence(Indent(v, d + 1)) /\ IsSequence(v.space) /\ IsSequence(v.newline)
  BY IndentIs, VisitorsAre
<1>4. CASE n.type = "null"
  <2>1. JsonBegin(v, n, d) = <<"null">>
    BY <1>4 DEF JsonBegin, IsContainer
  <2> QED BY <1>1, <2>1
<1>5. CASE n.type = "boolean"
  <2>1. PICK x : x = IF n.num = 1 THEN "true" ELSE "false"
    OBVIOUS
  <2>2. JsonBegin(v, n, d) = <<x>>
    BY <1>5, <2>1 DEF JsonBegin, IsContainer
  <2> QED BY <1>1, <2>2
<1>6. CASE n.type \in {"integer", "number"}
  <2>1. JsonBegin(v, n, d) = <<NumberText(n)>>
    BY <1>6 DEF JsonBegin, IsContainer
  <2> QED BY <1>1, <2>1
<1>7. CASE n.type = "string"
  <2>1. JsonBegin(v, n, d) = Quoted(n.str)
    BY <1>7 DEF JsonBegin, IsContainer
  <2> QED BY <1>2, <1>7, <2>1
<1>8. CASE n.type = "keyval"
  <2>1. PICK x : x = ":"
    OBVIOUS
  <2>2. JsonBegin(v, n, d) = Quoted(n.str) \o <<x>> \o v.space
    BY <1>8, <2>1 DEF JsonBegin, IsContainer
  <2> QED BY <1>1, <1>2, <1>3, <1>8, <2>2, ThreeSequences
<1>9. CASE n.type \in {"array", "dict"}
  <2>1. PICK x : x = Brackets[n.type][1]
    OBVIOUS
  <2>2. PICK r : r = IF n.entries = <<>> THEN <<>> ELSE Indent(v, d + 1)
    OBVIOUS
  <2>3. JsonBegin(v, n, d) = <<x>> \o Break(v, n) \o r
    BY <1>9, <2>1, <2>2 DEF JsonBegin, IsContainer
  <2>4. IsSequence(r) /\ IsSequence(Break(v, n))
    BY <1>1, <1>3, <2>2 DEF Break
  <2> QED BY <1>1, <2>3, <2>4, ThreeSequences
<1>10. n.type \in ScalarTypes \cup {"array", "dict", "keyval"}
  BY VisitedTypes
<1> QED BY <1>4, <1>5, <1>6, <1>7, <1>8, <1>9, <1>10 DEF ScalarTypes

\* They write sequences.
LEMMA PiecesAre ==
    ASSUME NEW v \in Visitors, NEW n, Visited(n), NEW d \in Nat
    PROVE  /\ IsSequence(fBegin(v, n, d))
           /\ IsSequence(fEnd(v, n, d + Deeper(v, n)))
           /\ \A i : IsSequence(Delim(v, n, d, i))
<1>1. IsSequence(fBegin(v, n, d))
  BY SaveBeginIs, RespBeginIs, JsonBeginIs, VisitorsAre DEF fBegin
<1>2. \A x : IsSequence(<<x>>) /\ IsSequence(<<>>)
  BY SmallSequences
<1>3. /\ IsSequence(Indent(v, d)) /\ IsSequence(Indent(v, d + 1)) /\ IsSequence(v.newline)
  BY IndentIs, VisitorsAre
<1>4. CASE v.kind = "json" /\ IsContainer(n)
  <2>1. d + Deeper(v, n) = d + 1 /\ (d + 1) - 1 = d
    BY <1>4 DEF Deeper
  <2>2. fEnd(v, n, d + 1) = Break(v, n) \o Indent(v, d) \o <<Brackets[n.type][2]>>
    BY <1>4, <2>1 DEF fEnd, JsonEnd
  <2>0. PICK comma : comma = ","
    OBVIOUS
  <2>3. fDelim(v, n, d + 1) = <<comma>> \o v.newline \o Indent(v, d + 1)
    BY <1>4, <2>0 DEF fDelim
  <2>4. IsSequence(Break(v, n))
    BY <1>2, <1>3 DEF Break
  <2>5. IsSequence(fEnd(v, n, d + 1))
    BY <1>2, <1>3, <2>2, <2>4, ThreeSequences
  <2>6. IsSequence(fDelim(v, n, d + 1))
    BY <1>2, <1>3, <2>3, ThreeSequences
  <2> QED BY <1>1, <1>2, <2>1, <2>5, <2>6 DEF Delim
<1>5. CASE ~(v.kind = "json" /\ IsContainer(n))
  BY <1>1, <1>2, <1>5 DEF fEnd, fDelim, Delim
<1> QED BY <1>4, <1>5

-----------------------------------------------------------------------------
(* A node is what the traversal writes of it.                              *)

\* What the children of a node are written as.
ChildrenWritten(v, n, d) ==
    \A i \in 1..Len(Entries(n)) : IsSequence(Meaning(v, Entries(n)[i], d + Deeper(v, n)))

\* The parts that precede the end of a node are sequences.
LEMMA PartsAre ==
    ASSUME NEW v \in Visitors, NEW n, Visited(n), NEW d \in Nat, ChildrenWritten(v, n, d),
           NEW k \in Nat, k <= Len(Entries(n))
    PROVE  /\ Parts(v, n, d, k) = [i \in 1..k |-> Parts(v, n, d, k)[i]]
           /\ \A i \in 1..k : Parts(v, n, d, k)[i] = Part(v, n, d, i)
           /\ AllSequences(Parts(v, n, d, k), k)
           /\ IsSequence(FlattenSeq(Parts(v, n, d, k))) /\ IsSequence(Opening(v, n, d, k))
<1>1. Len(Entries(n)) \in Nat
  BY ChildrenAre
<1>2. ASSUME NEW i \in 1..k PROVE IsSequence(Part(v, n, d, i))
  <2>1. i \in 1..Len(Entries(n))
    BY <1>1
  <2>2. IsSequence(Meaning(v, Entries(n)[i], d + Deeper(v, n)))
    BY <2>1 DEF ChildrenWritten
  <2>3. IsSequence(Delim(v, n, d, i))
    BY PiecesAre
  <2> QED BY <2>2, <2>3, Concats DEF Part
<1>3. PICK p : p = [i \in 1..k |-> Part(v, n, d, i)]
  OBVIOUS
<1>4. p = [i \in 1..k |-> p[i]] /\ \A i \in 1..k : p[i] = Part(v, n, d, i)
  BY <1>3
<1>5. AllSequences(p, k)
  BY <1>2, <1>4 DEF AllSequences
<1>6. IsSequence(FlattenSeq(p))
  BY <1>4, <1>5, FlattensTo
<1>7. IsSequence(fBegin(v, n, d) \o FlattenSeq(p))
  BY <1>6, PiecesAre, Concats
<1>8. p = Parts(v, n, d, k)
  BY <1>3 DEF Parts
<1> QED BY <1>4, <1>5, <1>6, <1>7, <1>8 DEF Opening

\* Before its children there is the beginning of a node.
LEMMA OpeningNone ==
    ASSUME NEW v \in Visitors, NEW n, Visited(n), NEW d \in Nat
    PROVE  Opening(v, n, d, 0) = fBegin(v, n, d)
<1>1. Parts(v, n, d, 0) = <<>>
  BY DEF Parts
<1>2. FlattenSeq(Parts(v, n, d, 0)) = <<>>
  BY <1>1, FlattenNone
<1> QED BY <1>2, PiecesAre, Concats DEF Opening

\* A child comes after the delimiter.
LEMMA OpeningNext ==
    ASSUME NEW v \in Visitors, NEW n, Visited(n), NEW d \in Nat, ChildrenWritten(v, n, d),
           NEW k \in Nat, k + 1 <= Len(Entries(n))
    PROVE  Opening(v, n, d, k + 1)
             = (Opening(v, n, d, k) \o Delim(v, n, d, k + 1)) \o Meaning(v, Entries(n)[k + 1], d + Deeper(v, n))
<1>1. Len(Entries(n)) \in Nat /\ k <= Len(Entries(n)) /\ k + 1 \in Nat
      /\ k + 1 \in 1..Len(Entries(n)) /\ k + 1 \in 1..(k + 1) /\ \A i \in 1..k : i \in 1..(k + 1)
  BY ChildrenAre
<1>2. PICK s : s = Parts(v, n, d, k)
  OBVIOUS
<1>3. PICK t : t = Parts(v, n, d, k + 1)
  OBVIOUS
<1>4. s = [i \in 1..k |-> s[i]] /\ (\A i \in 1..k : s[i] = Part(v, n, d, i)) /\ IsSequence(FlattenSeq(s))
  BY <1>1, <1>2, PartsAre
<1>5. PICK m \in Nat : m = k + 1
  BY <1>1
<1>6. /\ t = [i \in 1..m |-> t[i]] /\ (\A i \in 1..m : t[i] = Part(v, n, d, i))
      /\ AllSequences(t, m)
  BY <1>1, <1>3, <1>5, PartsAre
<1>7. \A i \in 1..k : s[i] = t[i]
  BY <1>1, <1>4, <1>5, <1>6
<1>8. FlattenSeq(t) = FlattenSeq(s) \o t[k + 1]
  BY <1>4, <1>5, <1>6, <1>7, FlattensNext
<1>9. t[k + 1] = Part(v, n, d, k + 1)
  BY <1>1, <1>5, <1>6
<1>10. PICK a : a = fBegin(v, n, d)
  OBVIOUS
<1>11. PICK f : f = FlattenSeq(s)
  OBVIOUS
<1>12. PICK l : l = Delim(v, n, d, k + 1)
  OBVIOUS
<1>13. PICK w : w = Meaning(v, Entries(n)[k + 1], d + Deeper(v, n))
  OBVIOUS
<1>14. IsSequence(a) /\ IsSequence(f) /\ IsSequence(l)
  BY <1>4, <1>10, <1>11, <1>12, PiecesAre
<1>15. IsSequence(w)
  BY <1>1, <1>13 DEF ChildrenWritten
<1>16. IsSequence(a \o f) /\ IsSequence(l \o w)
  BY <1>14, <1>15, Concats
<1>17. a \o (f \o (l \o w)) = (a \o f) \o (l \o w)
  <2>1. PICK e : e = l \o w
    OBVIOUS
  <2>2. IsSequence(a) /\ IsSequence(f) /\ IsSequence(e)
    BY <1>14, <1>16, <2>1
  <2>3. (a \o f) \o e = a \o (f \o e)
    BY ONLY <2>2, Associates, SMTT(40)
  <2> QED BY <2>1, <2>3
<1>18. (a \o f) \o (l \o w) = ((a \o f) \o l) \o w
  <2>1. PICK e : e = a \o f
    OBVIOUS
  <2>2. IsSequence(e) /\ IsSequence(l) /\ IsSequence(w)
    BY <1>14, <1>15, <1>16, <2>1
  <2>3. (e \o l) \o w = e \o (l \o w)
    BY ONLY <2>2, Associates, SMTT(40)
  <2> QED BY <2>1, <2>3
<1>19. Opening(v, n, d, k) = a \o f
  BY <1>2, <1>10, <1>11 DEF Opening
<1>20. t[k + 1] = l \o w
  BY <1>9, <1>12, <1>13 DEF Part
<1>21. FlattenSeq(t) = f \o (l \o w)
  BY <1>8, <1>11, <1>20
<1>22. Opening(v, n, d, k + 1) = a \o (f \o (l \o w))
  BY <1>3, <1>10, <1>21 DEF Opening
<1> QED BY <1>12, <1>13, <1>17, <1>18, <1>19, <1>22

\* What the assumption on the parameters says of a node.
LEMMA WrittenIs ==
    ASSUME NEW v \in Visitors, NEW n \in Docs, NEW d, Within(n, d)
    PROVE  /\ v.kind = "rdb" =>
                Written(v, n, d) = RdbFrom(n, [i \in DOMAIN n.entries |-> SavedAs(n.entries[i])])
           /\ v.kind = "resp" =>
                Written(v, n, d) = RespFrom(n, [i \in DOMAIN n.entries |-> RespReplyOf(n.entries[i])])
           /\ v.kind = "json" =>
                Written(v, n, d) = TextFrom(n, v, d, [i \in DOMAIN n.entries |-> WrittenAs(n.entries[i], v, d + 1)])
<1>1. n.type # "keyval"
  BY DocsAre DEF ScalarTypes
<1>2. d \in Nat /\ d + DepthOf(n) <= Deepest
  BY <1>1 DEF Within, Height
<1>3. d \in 0..(Deepest - DepthOf(n))
  BY <1>2, DocsAre
<1>4. CASE v.kind = "rdb"
  <2>1. Written(v, n, d) = SavedAs(n)
    BY <1>4 DEF Written
  <2> QED BY <1>4, <2>1, MeaningsAssumption
<1>5. CASE v.kind = "resp"
  <2>1. Written(v, n, d) = RespReplyOf(n)
    BY <1>5 DEF Written
  <2> QED BY <1>5, <2>1, MeaningsAssumption
<1>6. CASE v.kind = "json"
  <2>1. v \in Formats /\ Written(v, n, d) = WrittenAs(n, v, d)
    BY <1>6, VisitorsAre DEF Written
  <2> QED BY <1>3, <1>6, <2>1, MeaningsAssumption
<1> QED BY <1>4, <1>5, <1>6, VisitorsAre

\* A scalar is written by the beginning of its node alone.
LEMMA ScalarSaved ==
    ASSUME NEW n, n.type \in ScalarTypes, NEW s
    PROVE  RdbFrom(n, s) = SaveBegin(n)
<1>1. CASE n.type = "null"
  BY <1>1 DEF RdbFrom, SaveBegin, IsContainer
<1>2. CASE n.type = "boolean"
  BY <1>2 DEF RdbFrom, SaveBegin, IsContainer
<1>3. CASE n.type = "integer"
  BY <1>3 DEF RdbFrom, SaveBegin, IsContainer
<1>4. CASE n.type = "number"
  BY <1>4 DEF RdbFrom, SaveBegin, IsContainer
<1>5. CASE n.type = "string"
  BY <1>5 DEF RdbFrom, SaveBegin, IsContainer
<1> QED BY <1>1, <1>2, <1>3, <1>4, <1>5 DEF ScalarTypes

\* The reply for a scalar is what its visitor writes.
LEMMA ScalarReplied ==
    ASSUME NEW n, n.type \in ScalarTypes, NEW s
    PROVE  RespFrom(n, s) = RespBegin(n)
<1>1. CASE n.type = "null"
  BY <1>1 DEF RespFrom, RespBegin, IsContainer
<1>2. CASE n.type = "boolean"
  BY <1>2 DEF RespFrom, RespBegin, IsContainer, Scalar
<1>3. CASE n.type = "integer"
  BY <1>3 DEF RespFrom, RespBegin, IsContainer
<1>4. CASE n.type = "number"
  BY <1>4 DEF RespFrom, RespBegin, IsContainer
<1>5. CASE n.type = "string"
  BY <1>5 DEF RespFrom, RespBegin, IsContainer
<1> QED BY <1>1, <1>2, <1>3, <1>4, <1>5 DEF ScalarTypes

\* And so is its text.
LEMMA ScalarText ==
    ASSUME NEW n, n.type \in ScalarTypes, NEW v, NEW d, NEW s
    PROVE  TextFrom(n, v, d, s) = JsonBegin(v, n, d)
<1>1. TextFrom(n, v, d, s) = Scalar(n)
  <2>1. n.type \notin {"array", "dict"}
    BY DEF ScalarTypes
  <2> QED BY <2>1 DEF TextFrom
<1>2. CASE n.type = "null"
  BY <1>1, <1>2 DEF Scalar, JsonBegin, IsContainer
<1>3. CASE n.type = "boolean"
  BY <1>1, <1>3 DEF Scalar, JsonBegin, IsContainer
<1>4. CASE n.type = "integer"
  BY <1>1, <1>4 DEF Scalar, JsonBegin, IsContainer
<1>5. CASE n.type = "number"
  BY <1>1, <1>5 DEF Scalar, JsonBegin, IsContainer
<1>6. CASE n.type = "string"
  BY <1>1, <1>6 DEF Scalar, JsonBegin, IsContainer
<1> QED BY <1>2, <1>3, <1>4, <1>5, <1>6 DEF ScalarTypes

\* A scalar, for every visitor.
LEMMA ScalarWhole ==
    ASSUME NEW v \in Visitors, NEW n \in Docs, NEW d, Within(n, d), n.type \in ScalarTypes
    PROVE  Written(v, n, d) = fBegin(v, n, d) /\ fEnd(v, n, d + Deeper(v, n)) = <<>>
<1>1. ~IsContainer(n)
  BY DEF IsContainer, ScalarTypes
<1>2. fEnd(v, n, d + Deeper(v, n)) = <<>>
  BY <1>1 DEF fEnd
<1>3. CASE v.kind = "rdb"
  <2>1. Written(v, n, d) = SaveBegin(n)
    BY <1>3, WrittenIs, ScalarSaved
  <2> QED BY <1>2, <1>3, <2>1 DEF fBegin
<1>4. CASE v.kind = "resp"
  <2>0. PICK r : r = [i \in DOMAIN n.entries |-> RespReplyOf(n.entries[i])]
    OBVIOUS
  <2>1. Written(v, n, d) = RespFrom(n, r)
    BY <1>4, <2>0, WrittenIs
  <2>2. Written(v, n, d) = RespBegin(n)
    BY <2>1, ScalarReplied
  <2> QED BY <1>2, <1>4, <2>2 DEF fBegin
<1>5. CASE v.kind = "json"
  <2>0. PICK r : r = [i \in DOMAIN n.entries |-> WrittenAs(n.entries[i], v, d + 1)]
    OBVIOUS
  <2>1. Written(v, n, d) = TextFrom(n, v, d, r)
    BY <1>5, <2>0, WrittenIs
  <2>2. Written(v, n, d) = JsonBegin(v, n, d)
    BY <2>1, ScalarText
  <2> QED BY <1>2, <1>5, <2>2 DEF fBegin
<1> QED BY <1>3, <1>4, <1>5, VisitorsAre

\* What precedes the value of a member.
Key(v, k) ==
    CASE v.kind = "rdb" -> <<Item("unsigned", TypeCode["keyval"], <<>>), Item("string", 0, k)>>
      [] v.kind = "resp" -> <<Item("array", 2, <<>>), Item("bulk", 0, k)>>
      [] v.kind = "json" -> Quoted(k) \o <<":">> \o v.space

\* A key is a sequence.
LEMMA KeyIs ==
    ASSUME NEW v \in Visitors, NEW n, n.type = "keyval", NEW d
    PROVE  fBegin(v, n, d) = Key(v, n.str)
<1>1. CASE v.kind = "rdb"
  <2>1. PICK x : x = Item("unsigned", TypeCode["keyval"], <<>>)
    OBVIOUS
  <2>2. PICK y : y = Item("string", 0, n.str)
    OBVIOUS
  <2>3. SaveBegin(n) = <<x>> \o <<y>>
    BY <2>1, <2>2 DEF SaveBegin, IsContainer
  <2>4. Key(v, n.str) = <<x, y>>
    BY <1>1, <2>1, <2>2 DEF Key
  <2> QED BY <1>1, <2>3, <2>4, SmallSequences DEF fBegin
<1>2. CASE v.kind = "resp"
  <2>1. RespBegin(n) = <<Item("array", 2, <<>>), Item("bulk", 0, n.str)>>
    BY DEF RespBegin, IsContainer
  <2> QED BY <1>2, <2>1 DEF fBegin, Key
<1>3. CASE v.kind = "json"
  <2>1. JsonBegin(v, n, d) = Quoted(n.str) \o <<":">> \o v.space
    BY DEF JsonBegin, IsContainer
  <2> QED BY <1>3, <2>1 DEF fBegin, Key
<1> QED BY <1>1, <1>2, <1>3, VisitorsAre

\* A child of a document: the key of a member and what its document is written as.
LEMMA ChildIs ==
    ASSUME NEW v \in Visitors, NEW n \in Docs, NEW d, NEW i \in 1..Len(n.entries),
           IsSequence(Meaning(v, Entries(n)[i], d))
    PROVE  /\ n.type = "dict" => Meaning(v, Entries(n)[i], d) = Key(v, n.keys[i]) \o Written(v, n.entries[i], d)
           /\ n.type # "dict" => /\ Meaning(v, Entries(n)[i], d) = Written(v, n.entries[i], d)
                                 /\ <<>> \o Written(v, n.entries[i], d) = Written(v, n.entries[i], d)
<1>1. n.entries[i] \in Docs
  BY DocsAre
<1>2. n.entries[i].type # "keyval"
  BY <1>1, DocsAre DEF ScalarTypes
<1>3. CASE n.type = "dict"
  <2>1. IsMember(Entries(n)[i], n, i)
    BY <1>3, EntriesAre
  <2>2. PICK m : m = Entries(n)[i]
    OBVIOUS
  <2>3. m.type = "keyval" /\ m.str = n.keys[i] /\ m.entries[1] = n.entries[i]
    BY <2>1, <2>2, MembersAre
  <2>4. fBegin(v, m, d) = Key(v, n.keys[i])
    BY <2>3, KeyIs
  <2> QED BY <1>3, <2>2, <2>3, <2>4 DEF Meaning
<1>4. CASE n.type # "dict"
  <2>1. Entries(n)[i] = n.entries[i]
    BY <1>4, EntriesAre
  <2>2. Meaning(v, Entries(n)[i], d) = Written(v, n.entries[i], d)
    BY <1>2, <2>1 DEF Meaning
  <2> QED BY <1>4, <2>2, Concats
<1> QED BY <1>3, <1>4

\* Sequences made by rules that agree.
LEMMA SameRule ==
    ASSUME NEW n \in Nat, NEW s, s = [i \in 1..n |-> s[i]], NEW t, t = [i \in 1..n |-> t[i]],
           \A i \in 1..n : s[i] = t[i]
    PROVE  s = t
OBVIOUS

\* Its children, in a stream or reply: no delimiters.
LEMMA PartsPlain ==
    ASSUME NEW v \in Visitors, v.kind # "json", NEW n \in Docs, NEW d \in Nat, ChildrenWritten(v, n, d),
           NEW k \in Nat, k = Len(n.entries),
           NEW s, s = [i \in 1..k |-> s[i]],
           \A i \in 1..k : s[i] = IF n.type = "dict" THEN Key(v, n.keys[i]) \o Written(v, n.entries[i], d)
                                  ELSE Written(v, n.entries[i], d)
    PROVE  Parts(v, n, d, Len(Entries(n))) = s
<1>1. Deeper(v, n) = 0 /\ d + 0 = d /\ Len(Entries(n)) = k
  BY EntriesAre DEF Deeper
<1>2. PICK p : p = Parts(v, n, d, k)
  OBVIOUS
<1>3. p = [i \in 1..k |-> p[i]] /\ \A i \in 1..k : p[i] = Part(v, n, d, i)
  BY <1>2 DEF Parts
<1>4. ASSUME NEW i \in 1..k PROVE p[i] = s[i]
  <2>1. PICK w : w = Meaning(v, Entries(n)[i], d)
    OBVIOUS
  <2>2. IsSequence(w)
    BY <1>1, <2>1 DEF ChildrenWritten
  <2>3. Delim(v, n, d, i) = <<>>
    BY DEF Delim, fDelim
  <2>4. Part(v, n, d, i) = w
    BY <1>1, <2>1, <2>2, <2>3, Concats DEF Part
  <2>5. w = IF n.type = "dict" THEN Key(v, n.keys[i]) \o Written(v, n.entries[i], d) ELSE Written(v, n.entries[i], d)
    BY <2>1, <2>2, ChildIs
  <2> QED BY <1>3, <2>4, <2>5
<1>5. p = s
  BY <1>3, <1>4, SameRule
<1> QED BY <1>1, <1>2, <1>5

\* A container in an RDB stream.
LEMMA ContainerSaved ==
    ASSUME NEW v \in Visitors, v.kind = "rdb", NEW n \in Docs, n.type \in {"array", "dict"}, NEW d, Within(n, d),
           ChildrenWritten(v, n, d)
    PROVE  Written(v, n, d) = Opening(v, n, d, Len(Entries(n)))
<1>0. d \in Nat /\ \A i : Written(v, n.entries[i], d) = SavedAs(n.entries[i])
  BY DEF Within, Written
<1>1. PICK k \in Nat : k = Len(n.entries)
  BY DocsAre
<1>2. DOMAIN n.entries = 1..k
  BY <1>1, DocsAre
<1>3. PICK r : r = [i \in 1..k |-> SavedAs(n.entries[i])]
  OBVIOUS
<1>4. Written(v, n, d) = RdbFrom(n, r)
  BY <1>2, <1>3, WrittenIs
<1>5. DOMAIN r = 1..k /\ \A i \in 1..k : r[i] = SavedAs(n.entries[i])
  BY <1>3
<1>6. PICK x : x = Item("unsigned", TypeCode[n.type], <<>>)
  OBVIOUS
<1>7. PICK y : y = Item("unsigned", Len(n.entries), <<>>)
  OBVIOUS
<1>8. PICK s : s = [i \in DOMAIN r |->
            (IF n.type = "dict" THEN <<Item("unsigned", TypeCode["keyval"], <<>>),
                                       Item("string", 0, n.keys[i])>> ELSE <<>>)
            \o r[i]]
  OBVIOUS
<1>9. RdbFrom(n, r) = <<x>> \o (<<y>> \o FlattenSeq(s))
  BY <1>6, <1>7, <1>8 DEF RdbFrom
<1>10. s = [i \in 1..k |-> s[i]]
  BY <1>5, <1>8
<1>11. ASSUME NEW i \in 1..k
       PROVE  s[i] = IF n.type = "dict" THEN Key(v, n.keys[i]) \o Written(v, n.entries[i], d)
                     ELSE Written(v, n.entries[i], d)
  <2>1. r[i] = Written(v, n.entries[i], d)
    BY <1>0, <1>5
  <2>2. CASE n.type = "dict"
    <3>1. Key(v, n.keys[i]) = <<Item("unsigned", TypeCode["keyval"], <<>>), Item("string", 0, n.keys[i])>>
      BY DEF Key
    <3>2. s[i] = <<Item("unsigned", TypeCode["keyval"], <<>>), Item("string", 0, n.keys[i])>> \o r[i]
      BY <1>5, <1>8, <2>2
    <3> QED BY <2>1, <2>2, <3>1, <3>2
  <2>3. CASE n.type # "dict"
    <3>1. s[i] = <<>> \o r[i]
      BY <1>5, <1>8, <2>3
    <3>2. IsSequence(Meaning(v, Entries(n)[i], d))
      <4>1. Deeper(v, n) = 0 /\ d + 0 = d /\ Len(Entries(n)) = k
        BY <1>0, <1>1, EntriesAre DEF Deeper
      <4> QED BY <4>1 DEF ChildrenWritten
    <3>3. <<>> \o Written(v, n.entries[i], d) = Written(v, n.entries[i], d)
      BY <1>1, <2>3, <3>2, ChildIs
    <3> QED BY <2>1, <2>3, <3>1, <3>3
  <2> QED BY <2>2, <2>3
<1>12. PICK p : p = Parts(v, n, d, Len(Entries(n)))
  OBVIOUS
<1>13. p = s
  BY <1>0, <1>1, <1>10, <1>11, <1>12, PartsPlain, SMTT(40)
<1>14. IsSequence(FlattenSeq(p))
  BY <1>0, <1>12, PartsAre, ChildrenAre DEF Visited
<1>15. IsSequence(<<x>>) /\ IsSequence(<<y>>)
  BY SmallSequences
<1>16. PICK f : f = FlattenSeq(p)
  OBVIOUS
<1>17. IsSequence(f)
  BY <1>14, <1>16
<1>18. (<<x>> \o <<y>>) \o f = <<x>> \o (<<y>> \o f)
  BY ONLY <1>15, <1>17, Associates, SMTT(40)
<1>19. fBegin(v, n, d) = <<x>> \o <<y>>
  BY <1>6, <1>7 DEF fBegin, SaveBegin, IsContainer
<1>20. Opening(v, n, d, Len(Entries(n))) = (<<x>> \o <<y>>) \o f
  BY <1>12, <1>16, <1>19 DEF Opening
<1> QED BY <1>4, <1>9, <1>13, <1>16, <1>18, <1>20

\* The brackets of a container.
LEMMA BracketsOf ==
    /\ Brackets["dict"][1] = "{" /\ Brackets["dict"][2] = "}"
    /\ Brackets["array"][1] = "[" /\ Brackets["array"][2] = "]"
<1>1. PICK o : o = "{"
  OBVIOUS
<1>2. PICK c : c = "}"
  OBVIOUS
<1>3. PICK b : b = "["
  OBVIOUS
<1>4. PICK e : e = "]"
  OBVIOUS
<1>5. Brackets = [dict |-> <<o, c>>, array |-> <<b, e>>]
  BY <1>1, <1>2, <1>3, <1>4 DEF Brackets
<1>6. Brackets["dict"] = <<o, c>> /\ Brackets["array"] = <<b, e>>
  BY <1>5
<1>7. Brackets["dict"][1] = o /\ Brackets["dict"][2] = c /\ Brackets["array"][1] = b /\ Brackets["array"][2] = e
  BY <1>6
<1> QED BY <1>1, <1>2, <1>3, <1>4, <1>7

\* A container in a reply.
LEMMA ContainerReplied ==
    ASSUME NEW v \in Visitors, v.kind = "resp", NEW n \in Docs, n.type \in {"array", "dict"}, NEW d, Within(n, d),
           ChildrenWritten(v, n, d)
    PROVE  Written(v, n, d) = Opening(v, n, d, Len(Entries(n)))
<1>0. d \in Nat /\ \A i : Written(v, n.entries[i], d) = RespReplyOf(n.entries[i])
  BY DEF Within, Written
<1>1. PICK k \in Nat : k = Len(n.entries)
  BY DocsAre
<1>2. DOMAIN n.entries = 1..k
  BY <1>1, DocsAre
<1>3. PICK r : r = [i \in 1..k |-> RespReplyOf(n.entries[i])]
  OBVIOUS
<1>4. Written(v, n, d) = RespFrom(n, r)
  BY <1>2, <1>3, WrittenIs
<1>5. DOMAIN r = 1..k /\ Len(r) = k /\ \A i \in 1..k : r[i] = RespReplyOf(n.entries[i])
  BY <1>3
<1>6. PICK s : s = IF n.type = "dict"
                   THEN [i \in DOMAIN r |-> <<Item("array", 2, <<>>), Item("bulk", 0, n.keys[i])>> \o r[i]]
                   ELSE r
  OBVIOUS
<1>7. s = [i \in 1..k |-> s[i]] /\ Len(s) = k
  <2>1. CASE n.type = "dict"
    <3>1. s = [i \in 1..k |-> <<Item("array", 2, <<>>), Item("bulk", 0, n.keys[i])>> \o r[i]]
      BY <1>5, <1>6, <2>1
    <3> QED BY <3>1
  <2>2. CASE n.type # "dict"
    <3>1. s = [i \in 1..k |-> RespReplyOf(n.entries[i])]
      BY <1>3, <1>6, <2>2
    <3> QED BY <3>1
  <2> QED BY <2>1, <2>2
<1>8. RespFrom(n, r) = <<Item("array", Len(s) + 1, <<>>), Item("simple", 0, <<Brackets[n.type][1]>>)>> \o FlattenSeq(s)
  <2>1. CASE n.type = "array"
    <3>1. s = r
      BY <1>6, <2>1
    <3>2. PICK b : b = "["
      OBVIOUS
    <3>3. Brackets[n.type][1] = b
      BY <2>1, <3>2, BracketsOf
    <3>4. RespFrom(n, r) = <<Item("array", Len(r) + 1, <<>>), Item("simple", 0, <<b>>)>> \o FlattenSeq(r)
      BY <2>1, <3>2 DEF RespFrom
    <3> QED BY <3>1, <3>3, <3>4
  <2>2. CASE n.type = "dict"
    <3>1. s = [i \in DOMAIN r |-> <<Item("array", 2, <<>>), Item("bulk", 0, n.keys[i])>> \o r[i]]
      BY <1>6, <2>2
    <3>2. PICK b : b = "{"
      OBVIOUS
    <3>3. Brackets[n.type][1] = b
      BY <2>2, <3>2, BracketsOf
    <3>4. RespFrom(n, r) = <<Item("array", Len(s) + 1, <<>>), Item("simple", 0, <<b>>)>> \o FlattenSeq(s)
      BY <2>2, <3>1, <3>2 DEF RespFrom
    <3> QED BY <3>3, <3>4
  <2> QED BY <2>1, <2>2
<1>9. ASSUME NEW i \in 1..k
      PROVE  s[i] = IF n.type = "dict" THEN Key(v, n.keys[i]) \o Written(v, n.entries[i], d)
                    ELSE Written(v, n.entries[i], d)
  <2>1. r[i] = Written(v, n.entries[i], d)
    BY <1>0, <1>5
  <2>2. CASE n.type = "dict"
    <3>1. Key(v, n.keys[i]) = <<Item("array", 2, <<>>), Item("bulk", 0, n.keys[i])>>
      BY DEF Key
    <3>2. s[i] = <<Item("array", 2, <<>>), Item("bulk", 0, n.keys[i])>> \o r[i]
      BY <1>5, <1>6, <2>2
    <3> QED BY <2>1, <2>2, <3>1, <3>2
  <2>3. CASE n.type # "dict"
    BY <1>6, <2>1, <2>3
  <2> QED BY <2>2, <2>3
<1>10. PICK p : p = Parts(v, n, d, Len(Entries(n)))
  OBVIOUS
<1>11. p = s
  BY <1>0, <1>1, <1>7, <1>9, <1>10, PartsPlain
<1>12. fBegin(v, n, d) = <<Item("array", Len(n.entries) + 1, <<>>), Item("simple", 0, <<Brackets[n.type][1]>>)>>
  <2>1. RespBegin(n) = <<Item("array", Len(n.entries) + 1, <<>>), Item("simple", 0, <<Brackets[n.type][1]>>)>>
    BY DEF RespBegin, IsContainer
  <2> QED BY <2>1 DEF fBegin
<1> QED BY <1>1, <1>4, <1>7, <1>8, <1>10, <1>11, <1>12 DEF Opening

\* A text of six pieces, as the recursion and as the traversal brackets them.
Pieces(a, b, c, f, g, z) ==
    /\ IsSequence(a) /\ IsSequence(b) /\ IsSequence(c)
    /\ IsSequence(f) /\ IsSequence(g) /\ IsSequence(z)

ByRecursion(x, a, b, c, f, g, z) == x = ((a \o (((b \o c) \o f) \o b)) \o g) \o z
ByTraversal(y, a, b, c, f, g, z) == y = (((a \o b) \o c) \o f) \o ((b \o g) \o z)

\* The two ways to put six pieces together are one.
LEMMA SixPieces ==
    ASSUME NEW a, NEW b, NEW c, NEW f, NEW g, NEW z, Pieces(a, b, c, f, g, z),
           NEW x, ByRecursion(x, a, b, c, f, g, z),
           NEW y, ByTraversal(y, a, b, c, f, g, z)
    PROVE  x = y
<1>0. /\ IsSequence(a) /\ IsSequence(b) /\ IsSequence(c)
      /\ IsSequence(f) /\ IsSequence(g) /\ IsSequence(z)
  BY DEF Pieces
<1>1. PICK p : p = b \o c
  OBVIOUS
<1>2. PICK q : q = p \o f
  OBVIOUS
<1>3. PICK r : r = b \o g
  OBVIOUS
<1>4. IsSequence(p) /\ IsSequence(q) /\ IsSequence(r)
  <2>1. IsSequence(p)
    BY <1>0, <1>1, Concats
  <2>2. IsSequence(q)
    BY <1>0, <1>2, <2>1, Concats
  <2>3. IsSequence(r)
    BY <1>0, <1>3, Concats
  <2> QED BY <2>1, <2>2, <2>3
<1>5. PICK h : h = a \o q
  OBVIOUS
<1>6. IsSequence(h)
  BY <1>0, <1>4, <1>5, Concats
<1>7. a \o (q \o b) = h \o b
  <2>1. IsSequence(a) /\ IsSequence(q) /\ IsSequence(b)
    BY <1>0, <1>4
  <2>2. (a \o q) \o b = a \o (q \o b)
    BY ONLY <2>1, Associates, SMTT(40)
  <2> QED BY <1>5, <2>2
<1>8. (h \o b) \o g = h \o r
  <2>1. IsSequence(h) /\ IsSequence(b) /\ IsSequence(g)
    BY <1>0, <1>6
  <2>2. (h \o b) \o g = h \o (b \o g)
    BY ONLY <2>1, Associates, SMTT(40)
  <2> QED BY <1>3, <2>2
<1>9. (h \o r) \o z = h \o (r \o z)
  <2>1. IsSequence(h) /\ IsSequence(r) /\ IsSequence(z)
    BY <1>0, <1>4, <1>6
  <2> QED BY ONLY <2>1, Associates, SMTT(40)
<1>10. (a \o b) \o c = a \o p
  <2>1. IsSequence(a) /\ IsSequence(b) /\ IsSequence(c)
    BY <1>0
  <2>2. (a \o b) \o c = a \o (b \o c)
    BY ONLY <2>1, Associates, SMTT(40)
  <2> QED BY <1>1, <2>2
<1>11. (a \o p) \o f = h
  <2>1. IsSequence(a) /\ IsSequence(p) /\ IsSequence(f)
    BY <1>0, <1>4
  <2>2. (a \o p) \o f = a \o (p \o f)
    BY ONLY <2>1, Associates, SMTT(40)
  <2> QED BY <1>2, <1>5, <2>2
<1> QED BY <1>1, <1>2, <1>3, <1>7, <1>8, <1>9, <1>10, <1>11 DEF ByRecursion, ByTraversal

\* A container in a text.
LEMMA ContainerText ==
    ASSUME NEW v \in Visitors, v.kind = "json", NEW n \in Docs, n.type \in {"array", "dict"}, NEW d, Within(n, d),
           ChildrenWritten(v, n, d)
    PROVE  Written(v, n, d) = Opening(v, n, d, Len(Entries(n))) \o fEnd(v, n, d + Deeper(v, n))
<1>0. d \in Nat /\ IsContainer(n) /\ Deeper(v, n) = 1 /\ (d + 1) - 1 = d
  BY DEF Within, IsContainer, Deeper
<1>1. PICK k \in Nat : k = Len(n.entries) /\ Len(Entries(n)) = k
  BY DocsAre, EntriesAre
<1>2. DOMAIN n.entries = 1..k
  BY <1>1, DocsAre
<1>3. PICK r : r = [i \in 1..k |-> WrittenAs(n.entries[i], v, d + 1)]
  OBVIOUS
<1>4. Written(v, n, d) = TextFrom(n, v, d, r)
  BY <1>2, <1>3, WrittenIs
<1>5. DOMAIN r = 1..k /\ \A i \in 1..k : r[i] = Written(v, n.entries[i], d + 1)
  BY <1>3 DEF Written
<1>6. PICK c : c = Indent(v, d + 1)
  OBVIOUS
<1>7. PICK g : g = Indent(v, d)
  OBVIOUS
<1>8. PICK b : b = v.newline
  OBVIOUS
<1>9. c = Times(d + 1, v.indent) /\ g = Times(d, v.indent)
  BY <1>6, <1>7 DEF Indent, Times
<1>10. PICK comma : comma = ","
  OBVIOUS
<1>11. PICK m : m = [i \in DOMAIN r |->
            (IF n.type = "dict" THEN Quoted(n.keys[i]) \o <<":">> \o v.space ELSE <<>>) \o r[i]]
  OBVIOUS
<1>12. DOMAIN m = 1..k /\ Len(m) = k
  BY <1>5, <1>11
<1>13. PICK s : s = [i \in 1..Len(m) |-> (IF i = 1 THEN <<>> ELSE <<comma>> \o (b \o c)) \o m[i]]
  OBVIOUS
<1>14. Joined(m, <<comma>> \o (b \o c)) = FlattenSeq(s)
  BY <1>13 DEF Joined
<1>15. PICK p : p = Parts(v, n, d, k)
  OBVIOUS
<1>16. p = [i \in 1..k |-> p[i]] /\ (\A i \in 1..k : p[i] = Part(v, n, d, i)) /\ IsSequence(FlattenSeq(p))
  <2>1. Visited(n) /\ k <= Len(Entries(n))
    BY <1>1 DEF Visited
  <2> QED BY <1>0, <1>15, <2>1, PartsAre
<1>17. s = [i \in 1..k |-> s[i]]
  BY <1>12, <1>13
<1>18. IsSequence(b) /\ IsSequence(c) /\ IsSequence(g) /\ IsSequence(<<comma>>) /\ IsSequence(<<>>)
  <2>1. d + 1 \in Nat
    BY <1>0
  <2>2. IsSequence(c) /\ IsSequence(g)
    BY <1>0, <1>6, <1>7, <2>1, IndentIs
  <2> QED BY <1>8, <2>2, VisitorsAre, SmallSequences
<1>19. (<<comma>> \o b) \o c = <<comma>> \o (b \o c)
  BY ONLY <1>18, Associates, SMTT(40)
<1>20. ASSUME NEW i \in 1..k PROVE s[i] = p[i]
  <2>1. PICK w : w = Meaning(v, Entries(n)[i], d + 1)
    OBVIOUS
  <2>2. IsSequence(w)
    BY <1>0, <1>1, <2>1 DEF ChildrenWritten
  <2>3. m[i] = w
    <3>1. CASE n.type = "dict"
      <4>1. m[i] = (Quoted(n.keys[i]) \o <<":">> \o v.space) \o r[i]
        BY <1>5, <1>11, <3>1
      <4>2. Key(v, n.keys[i]) = Quoted(n.keys[i]) \o <<":">> \o v.space
        BY DEF Key
      <4>3. w = Key(v, n.keys[i]) \o Written(v, n.entries[i], d + 1)
        BY <1>1, <2>1, <2>2, <3>1, ChildIs
      <4> QED BY <1>5, <4>1, <4>2, <4>3
    <3>2. CASE n.type # "dict"
      <4>1. m[i] = <<>> \o r[i]
        BY <1>5, <1>11, <3>2
      <4>2. w = Written(v, n.entries[i], d + 1) /\ <<>> \o Written(v, n.entries[i], d + 1) = Written(v, n.entries[i], d + 1)
        BY <1>1, <2>1, <2>2, <3>2, ChildIs
      <4> QED BY <1>5, <4>1, <4>2
    <3> QED BY <3>1, <3>2
  <2>4. fDelim(v, n, d + 1) = (<<comma>> \o b) \o c
    BY <1>0, <1>6, <1>8, <1>10 DEF fDelim
  <2>5. Delim(v, n, d, i) = IF i = 1 THEN <<>> ELSE <<comma>> \o (b \o c)
    BY <1>0, <1>19, <2>4 DEF Delim
  <2>6. Part(v, n, d, i) = (IF i = 1 THEN <<>> ELSE <<comma>> \o (b \o c)) \o w
    BY <1>0, <2>1, <2>5 DEF Part
  <2>7. s[i] = (IF i = 1 THEN <<>> ELSE <<comma>> \o (b \o c)) \o m[i]
    BY <1>12, <1>13
  <2> QED BY <1>16, <2>3, <2>6, <2>7
<1>21. s = p
  BY <1>16, <1>17, <1>20, SameRule
<1>22. PICK f : f = FlattenSeq(p)
  OBVIOUS
<1>23. PICK a : a = <<Brackets[n.type][1]>>
  OBVIOUS
<1>24. PICK z : z = <<Brackets[n.type][2]>>
  OBVIOUS
<1>25. IsSequence(a) /\ IsSequence(f) /\ IsSequence(z)
  BY <1>16, <1>22, <1>23, <1>24, SmallSequences
<1>26. <<IF n.type = "dict" THEN "{" ELSE "[">> = a /\ <<IF n.type = "dict" THEN "}" ELSE "]">> = z
  <2>1. CASE n.type = "dict"
    BY <1>23, <1>24, <2>1, BracketsOf
  <2>2. CASE n.type = "array"
    BY <1>23, <1>24, <2>2, BracketsOf
  <2> QED BY <2>1, <2>2
<1>27. PICK body : body = IF r = <<>> THEN <<>> ELSE ((b \o c) \o f) \o b
  OBVIOUS
<1>28. TextFrom(n, v, d, r) = ((a \o body) \o g) \o z
  BY <1>8, <1>9, <1>10, <1>11, <1>14, <1>21, <1>22, <1>26, <1>27 DEF TextFrom
<1>29. fBegin(v, n, d) = (a \o Break(v, n)) \o (IF n.entries = <<>> THEN <<>> ELSE c)
  BY <1>0, <1>6, <1>23 DEF fBegin, JsonBegin, IsContainer
<1>30. fEnd(v, n, d + Deeper(v, n)) = (Break(v, n) \o g) \o z
  BY <1>0, <1>7, <1>24 DEF fEnd, JsonEnd
<1>31. Opening(v, n, d, Len(Entries(n))) = fBegin(v, n, d) \o f
  BY <1>1, <1>15, <1>22 DEF Opening
<1>32. n.entries = <<>> <=> k = 0
  BY <1>1, DocsAre, EmptySeq
<1>33. r = <<>> <=> k = 0
  BY <1>3, <1>5
<1>34. CASE k = 0
  <2>1. Break(v, n) = <<>> /\ body = <<>> /\ fBegin(v, n, d) = (a \o <<>>) \o <<>>
    BY <1>27, <1>29, <1>32, <1>33, <1>34 DEF Break
  <2>2. p = <<>>
    BY <1>16, <1>34
  <2>3. f = <<>>
    BY <1>22, <2>2, FlattenNone
  <2>4. fBegin(v, n, d) = a /\ a \o f = a /\ a \o body = a /\ <<>> \o g = g
    BY <1>18, <1>25, <2>1, <2>3, Concats
  <2>5. (a \o g) \o z = a \o (g \o z)
    <3>1. IsSequence(a) /\ IsSequence(g) /\ IsSequence(z)
      BY <1>18, <1>25
    <3> QED BY ONLY <3>1, Associates, SMTT(40)
  <2> QED BY <1>4, <1>28, <1>30, <1>31, <2>1, <2>4, <2>5
<1>35. CASE k # 0
  <2>1. Break(v, n) = b /\ body = ((b \o c) \o f) \o b /\ fBegin(v, n, d) = (a \o b) \o c
    BY <1>8, <1>27, <1>29, <1>32, <1>33, <1>35 DEF Break
  <2>2. ((a \o (((b \o c) \o f) \o b)) \o g) \o z = (((a \o b) \o c) \o f) \o ((b \o g) \o z)
    <3>1. Pieces(a, b, c, f, g, z)
      BY <1>18, <1>25 DEF Pieces
    <3>2. PICK x : x = ((a \o (((b \o c) \o f) \o b)) \o g) \o z
      OBVIOUS
    <3>3. PICK y : y = (((a \o b) \o c) \o f) \o ((b \o g) \o z)
      OBVIOUS
    <3>4. ByRecursion(x, a, b, c, f, g, z) /\ ByTraversal(y, a, b, c, f, g, z)
      BY <3>2, <3>3 DEF ByRecursion, ByTraversal
    <3>5. x = y
      BY <3>1, <3>4, SixPieces
    <3> QED BY <3>2, <3>3, <3>5
  <2> QED BY <1>4, <1>28, <1>30, <1>31, <2>1, <2>2
<1> QED BY <1>34, <1>35

\* A document is what its beginning, its children and its end are written as.
LEMMA DocWhole ==
    ASSUME NEW v \in Visitors, NEW n \in Docs, NEW d, Within(n, d), ChildrenWritten(v, n, d)
    PROVE  /\ Written(v, n, d) = Opening(v, n, d, Len(Entries(n))) \o fEnd(v, n, d + Deeper(v, n))
           /\ IsSequence(Written(v, n, d))
<1>1. Visited(n) /\ d \in Nat
  BY DEF Visited, Within
<1>2. PICK k \in Nat : k = Len(Entries(n)) /\ k = Len(n.entries)
  BY <1>1, EntriesAre, DocsAre
<1>3. PICK o : o = Opening(v, n, d, k)
  OBVIOUS
<1>4. PICK e : e = fEnd(v, n, d + Deeper(v, n))
  OBVIOUS
<1>5. IsSequence(o) /\ IsSequence(e)
  <2>1. k <= Len(Entries(n))
    BY <1>2
  <2>2. IsSequence(o)
    BY <1>1, <1>3, <2>1, PartsAre
  <2>3. IsSequence(e)
    BY <1>1, <1>4, PiecesAre
  <2> QED BY <2>2, <2>3
<1>6. IsSequence(o \o e) /\ o \o <<>> = o
  BY <1>5, Concats
<1>7. Written(v, n, d) = o \o e
  <2>1. CASE n.type \in ScalarTypes
    <3>1. n.entries = <<>>
      BY <2>1, DocsAre
    <3>2. k = 0
      BY <1>2, <3>1
    <3>3. o = fBegin(v, n, d)
      BY <1>1, <1>3, <3>2, OpeningNone
    <3>4. Written(v, n, d) = fBegin(v, n, d) /\ e = <<>>
      BY <1>4, <2>1, ScalarWhole
    <3> QED BY <1>6, <3>3, <3>4
  <2>2. CASE n.type \in {"array", "dict"}
    <3>1. CASE v.kind = "rdb"
      <4>1. e = <<>>
        BY <1>4, <3>1 DEF fEnd
      <4> QED BY <1>2, <1>3, <1>6, <2>2, <3>1, <4>1, ContainerSaved
    <3>2. CASE v.kind = "resp"
      <4>1. e = <<>>
        BY <1>4, <3>2 DEF fEnd
      <4> QED BY <1>2, <1>3, <1>6, <2>2, <3>2, <4>1, ContainerReplied
    <3>3. CASE v.kind = "json"
      BY <1>2, <1>3, <1>4, <2>2, <3>3, ContainerText
    <3> QED BY <3>1, <3>2, <3>3, VisitorsAre
  <2> QED BY <2>1, <2>2, DocsAre
<1> QED BY <1>2, <1>3, <1>4, <1>6, <1>7

\* A child is within the bound, and a sequence if its document is.
LEMMA ChildWritten ==
    ASSUME NEW v \in Visitors, NEW n, Visited(n), NEW d, Within(n, d), NEW i \in 1..Len(Entries(n)),
           NEW D, D = d + Deeper(v, n),
           \A e \in Docs : Within(e, D) /\ (n \in Docs => DepthOf(e) < DepthOf(n)) => IsSequence(Written(v, e, D))
    PROVE  IsSequence(Meaning(v, Entries(n)[i], D))
<1>0. d \in Nat
  BY DEF Within
<1>1. PICK c : c = Entries(n)[i]
  OBVIOUS
<1>2. Visited(c) /\ Within(c, D) /\ D \in Nat
  <2>1. Visited(c)
    BY <1>1, ChildrenAre
  <2>2. Deeper(v, n) \in Nat /\ Within(c, D)
    BY <1>0, <1>1, ChildrenAre
  <2> QED BY <1>0, <2>1, <2>2
<1>3. CASE n \in Docs /\ n.type = "dict"
  <2>1. i \in 1..Len(n.entries)
    BY <1>3, EntriesAre
  <2>2. IsMember(c, n, i)
    BY <1>1, <1>3, <2>1, EntriesAre
  <2>3. PICK e : e = n.entries[i]
    OBVIOUS
  <2>4. c.type = "keyval" /\ c.entries[1] = e /\ e \in Docs /\ Height(c) = DepthOf(e)
    BY <2>2, <2>3, MembersAre
  <2>5. e.type # "keyval"
    BY <2>4, DocsAre DEF ScalarTypes
  <2>6. Within(e, D)
    BY <1>2, <2>4, <2>5 DEF Within, Height
  <2>7. DepthOf(e) < DepthOf(n)
    BY <1>3, <2>1, <2>3, DocsAre
  <2>8. IsSequence(Written(v, e, D))
    BY <2>4, <2>6, <2>7
  <2>9. IsSequence(fBegin(v, c, D))
    BY <1>2, PiecesAre
  <2> QED BY <1>1, <2>4, <2>8, <2>9, Concats DEF Meaning
<1>4. CASE n \in Docs /\ n.type # "dict"
  <2>1. i \in 1..Len(n.entries)
    BY <1>4, EntriesAre
  <2>2. c = n.entries[i]
    BY <1>1, <1>4, <2>1, EntriesAre
  <2>3. c \in Docs /\ DepthOf(c) < DepthOf(n)
    BY <1>4, <2>1, <2>2, DocsAre
  <2>4. c.type # "keyval"
    BY <2>3, DocsAre DEF ScalarTypes
  <2>5. IsSequence(Written(v, c, D))
    BY <1>2, <2>3
  <2> QED BY <1>1, <2>4, <2>5 DEF Meaning
<1>5. CASE n \notin Docs
  <2>1. PICK f, j : IsMember(n, f, j)
    BY <1>5 DEF Visited
  <2>2. Entries(n) = n.entries /\ Len(n.entries) = 1 /\ n.entries[1] \in Docs
    BY <2>1, MembersAre
  <2>3. i = 1
    BY <2>2
  <2>4. c \in Docs
    BY <1>1, <2>2, <2>3
  <2>5. c.type # "keyval"
    BY <2>4, DocsAre DEF ScalarTypes
  <2>6. IsSequence(Written(v, c, D))
    BY <1>2, <1>5, <2>4
  <2> QED BY <1>1, <2>5, <2>6 DEF Meaning
<1> QED BY <1>3, <1>4, <1>5

\* Every document is written as a sequence, by induction on its depth.
LEMMA AllWritten ==
    ASSUME NEW v \in Visitors
    PROVE  \A n \in Docs : \A d : Within(n, d) => IsSequence(Written(v, n, d))
<1> DEFINE S == {k \in Nat : \A n \in Docs : \A d : Within(n, d) /\ DepthOf(n) < k => IsSequence(Written(v, n, d))}
<1>1. 0 \in S
  BY DocsAre
<1>2. ASSUME NEW k \in Nat, k \in S PROVE k + 1 \in S
  <2>1. ASSUME NEW n \in Docs, NEW d, Within(n, d), DepthOf(n) < k + 1
        PROVE  IsSequence(Written(v, n, d))
    <3>1. PICK D : D = d + Deeper(v, n)
      OBVIOUS
    <3>2. DepthOf(n) \in Nat /\ \A e \in Docs : DepthOf(e) \in Nat
      BY DocsAre
    <3>3. \A e \in Docs : DepthOf(e) < DepthOf(n) => DepthOf(e) < k
      BY <2>1, <3>2
    <3>4. \A e \in Docs : Within(e, D) /\ (n \in Docs => DepthOf(e) < DepthOf(n)) => IsSequence(Written(v, e, D))
      BY <1>2, <3>3
    <3>5. Visited(n)
      BY DEF Visited
    <3>6. \A i \in 1..Len(Entries(n)) : IsSequence(Meaning(v, Entries(n)[i], D))
      BY <2>1, <3>1, <3>4, <3>5, ChildWritten
    <3>7. ChildrenWritten(v, n, d)
      BY <3>1, <3>6 DEF ChildrenWritten
    <3> QED BY <2>1, <3>7, DocWhole
  <2> QED BY <2>1
<1>3. \A k \in Nat : k \in S
  <2> HIDE DEF S
  <2> QED BY <1>1, <1>2, Joining!NatSet
<1>4. ASSUME NEW n \in Docs, NEW d, Within(n, d) PROVE IsSequence(Written(v, n, d))
  <2>1. DepthOf(n) \in Nat
    BY DocsAre
  <2>2. PICK k \in Nat : k = DepthOf(n) + 1
    BY <2>1
  <2>3. k \in S /\ DepthOf(n) < k
    BY <1>3, <2>1, <2>2
  <2> QED BY <1>4, <2>3
<1> QED BY <1>4

\* The same of the nodes that are visited.
LEMMA Whole ==
    ASSUME NEW v \in Visitors, NEW n, Visited(n), NEW d, Within(n, d)
    PROVE  /\ ChildrenWritten(v, n, d)
           /\ Meaning(v, n, d) = Opening(v, n, d, Len(Entries(n))) \o fEnd(v, n, d + Deeper(v, n))
<1>1. PICK D : D = d + Deeper(v, n)
  OBVIOUS
<1>2. \A e \in Docs : Within(e, D) /\ (n \in Docs => DepthOf(e) < DepthOf(n)) => IsSequence(Written(v, e, D))
  BY AllWritten
<1>3. \A i \in 1..Len(Entries(n)) : IsSequence(Meaning(v, Entries(n)[i], D))
  BY <1>1, <1>2, ChildWritten
<1>4. ChildrenWritten(v, n, d)
  BY <1>1, <1>3 DEF ChildrenWritten
<1>5. CASE n \in Docs
  <2>1. n.type # "keyval"
    BY <1>5, DocsAre DEF ScalarTypes
  <2> QED BY <1>4, <1>5, <2>1, DocWhole DEF Meaning
<1>6. CASE n \notin Docs
  <2>1. PICK f, j : IsMember(n, f, j)
    BY <1>6 DEF Visited
  <2>2. PICK e : e = n.entries[1]
    OBVIOUS
  <2>3. n.type = "keyval" /\ Entries(n) = n.entries /\ Len(n.entries) = 1 /\ e \in Docs
    BY <2>1, <2>2, MembersAre
  <2>4. d \in Nat /\ e.type # "keyval"
    BY <2>3, DocsAre DEF Within, ScalarTypes
  <2>5. ~IsContainer(n)
    BY <2>3 DEF IsContainer
  <2>6. Deeper(v, n) = 0 /\ d + 0 = d /\ fEnd(v, n, d + Deeper(v, n)) = <<>>
    BY <2>4, <2>5 DEF Deeper, fEnd
  <2>7. PICK k \in Nat : k = 0
    OBVIOUS
  <2>8. Len(Entries(n)) = k + 1 /\ Entries(n)[k + 1] = e
    BY <2>2, <2>3, <2>7
  <2>9. Opening(v, n, d, k + 1)
          = (Opening(v, n, d, k) \o Delim(v, n, d, k + 1)) \o Meaning(v, Entries(n)[k + 1], d + Deeper(v, n))
    <3>1. d \in Nat /\ k + 1 <= Len(Entries(n))
      BY <2>4, <2>7, <2>8
    <3> QED BY <1>4, <3>1, OpeningNext
  <2>10. PICK b : b = fBegin(v, n, d)
    OBVIOUS
  <2>11. PICK w : w = Written(v, e, d)
    OBVIOUS
  <2>12. Delim(v, n, d, k + 1) = <<>> /\ Opening(v, n, d, k) = b
    BY <2>4, <2>7, <2>10, OpeningNone DEF Delim
  <2>13. Meaning(v, e, d) = w /\ Meaning(v, n, d) = b \o w
    BY <2>2, <2>3, <2>4, <2>10, <2>11 DEF Meaning
  <2>14. IsSequence(b)
    BY <2>4, <2>10, PiecesAre
  <2>15. IsSequence(w)
    <3>1. Meaning(v, Entries(n)[k + 1], D) = w
      BY <1>1, <2>6, <2>8, <2>13
    <3> QED BY <1>3, <2>7, <2>8, <3>1
  <2>16. IsSequence(b \o w) /\ b \o <<>> = b /\ (b \o w) \o <<>> = b \o w
    <3>1. IsSequence(b \o w) /\ b \o <<>> = b
      BY <2>14, <2>15, Concats
    <3> QED BY <3>1, Concats
  <2>17. Opening(v, n, d, k + 1) = b \o w
    BY <2>6, <2>8, <2>9, <2>12, <2>13, <2>16
  <2> QED BY <1>4, <2>6, <2>8, <2>13, <2>16, <2>17
<1> QED BY <1>5, <1>6

-----------------------------------------------------------------------------
(* The stacks of the traversal.                                            *)

\* Stacks.
LEMMA StackOps ==
    ASSUME NEW t \in Nat, t > 0, NEW s, s = [i \in 1..t |-> s[i]]
    PROVE  /\ Len(s) = t /\ Last(s) = s[t]
           /\ Front(s) = [i \in 1..(t - 1) |-> s[i]]
           /\ Front(s) = <<>> <=> t = 1
           /\ \A x : Append(s, x) = [i \in 1..(t + 1) |-> IF i = t + 1 THEN x ELSE s[i]]
           /\ \A x, y : Append(Front(s), x) \o <<y>>
                          = [i \in 1..(t + 1) |-> IF i = t + 1 THEN y ELSE IF i = t THEN x ELSE s[i]]
<1>1. PICK U : U = {s[i] : i \in 1..t}
  OBVIOUS
<1>2. s \in Seq(U) /\ Len(s) = t
  BY <1>1, SequenceByRule
<1>3. Last(s) = s[t]
  BY <1>2 DEF Last
<1>4. PICK f : f = Front(s)
  OBVIOUS
<1>5. f = SubSeq(s, 1, t - 1)
  BY <1>2, <1>4 DEF Front
<1>6. f = [i \in 1..(t - 1) |-> s[i]]
  BY <1>2, <1>5
<1>7. f \in Seq(U) /\ Len(f) = t - 1 /\ \A i \in 1..(t - 1) : f[i] = s[i]
  <2>1. PICK m \in Nat : m = t - 1
    OBVIOUS
  <2>2. f = [i \in 1..m |-> s[i]] /\ \A i \in 1..m : s[i] \in U
    BY <1>1, <1>6, <2>1
  <2>3. f = [i \in 1..m |-> f[i]] /\ \A i \in 1..m : f[i] = s[i]
    BY <2>2
  <2>4. \A i \in 1..m : f[i] \in U
    BY <2>2, <2>3
  <2>5. f \in Seq(U) /\ Len(f) = m
    BY <2>3, <2>4, SequenceByRule
  <2> QED BY <2>1, <2>3, <2>5
<1>8. f = <<>> <=> t = 1
  BY <1>7, EmptySeq
<1>9. ASSUME NEW x PROVE Append(s, x) = [i \in 1..(t + 1) |-> IF i = t + 1 THEN x ELSE s[i]]
  <2>1. s \in Seq(U \cup {x})
    BY <1>2
  <2> QED BY <1>2, <2>1
<1>10. ASSUME NEW x, NEW y
       PROVE  Append(Front(s), x) \o <<y>>
                = [i \in 1..(t + 1) |-> IF i = t + 1 THEN y ELSE IF i = t THEN x ELSE s[i]]
  <2>1. PICK V : V = U \cup {x, y}
    OBVIOUS
  <2>2. f \in Seq(V)
    BY <1>7, <2>1
  <2>3. PICK g : g = Append(f, x)
    OBVIOUS
  <2>4. g \in Seq(V) /\ Len(g) = t /\ g[t] = x /\ \A i \in 1..(t - 1) : g[i] = s[i]
    <3>1. x \in V /\ Len(f) = t - 1
      BY <1>7, <2>1
    <3>2. /\ Append(f, x) \in Seq(V) /\ Len(Append(f, x)) = Len(f) + 1
          /\ \A i \in 1..Len(f) : Append(f, x)[i] = f[i]
          /\ Append(f, x)[Len(f) + 1] = x
      BY <2>2, <3>1, AppendProperties
    <3>3. Len(f) + 1 = t /\ 1..Len(f) = 1..(t - 1)
      BY <3>1
    <3> QED BY <1>7, <2>3, <3>2, <3>3
  <2>5. PICK o : o = <<y>>
    OBVIOUS
  <2>6. o \in Seq(V) /\ Len(o) = 1 /\ o[1] = y
    BY <2>1, <2>5
  <2>7. PICK h : h = g \o o
    OBVIOUS
  <2>8. h \in Seq(V) /\ Len(h) = t + 1 /\ h[t + 1] = y /\ \A i \in 1..t : h[i] = g[i]
    <3>1. /\ h \in Seq(V) /\ Len(h) = Len(g) + Len(o)
          /\ \A i \in 1..(Len(g) + Len(o)) : h[i] = IF i <= Len(g) THEN g[i] ELSE o[i - Len(g)]
      BY <2>4, <2>6, <2>7, ConcatProperties
    <3>2. \A i \in 1..(t + 1) : h[i] = IF i <= t THEN g[i] ELSE o[i - t]
      BY <2>4, <2>6, <3>1
    <3>3. t + 1 \in 1..(t + 1) /\ ~(t + 1 <= t) /\ (t + 1) - t = 1
      OBVIOUS
    <3>4. h[t + 1] = y
      BY <2>6, <3>2, <3>3
    <3>5. \A i \in 1..t : h[i] = g[i]
      BY <3>2
    <3> QED BY <2>4, <2>6, <3>1, <3>4, <3>5
  <2>9. h = [i \in 1..(t + 1) |-> h[i]]
    BY <2>8
  <2>10. \A i \in 1..(t + 1) : h[i] = IF i = t + 1 THEN y ELSE IF i = t THEN x ELSE s[i]
    <3>1. ASSUME NEW i \in 1..(t + 1)
          PROVE  h[i] = IF i = t + 1 THEN y ELSE IF i = t THEN x ELSE s[i]
      <4>1. CASE i = t + 1
        BY <2>8, <4>1
      <4>2. CASE i = t
        BY <2>4, <2>8, <4>2
      <4>3. CASE i \in 1..(t - 1)
        <5>1. i \in 1..t /\ i # t + 1 /\ i # t
          BY <4>3
        <5>2. h[i] = g[i] /\ g[i] = s[i]
          BY <2>4, <2>8, <4>3, <5>1
        <5> QED BY <5>1, <5>2
      <4> QED BY <4>1, <4>2, <4>3
    <3> QED BY <3>1
  <2>11. h = [i \in 1..(t + 1) |-> IF i = t + 1 THEN y ELSE IF i = t THEN x ELSE s[i]]
    BY <2>9, <2>10
  <2> QED BY <1>4, <2>3, <2>5, <2>7, <2>11
<1> QED BY <1>2, <1>3, <1>4, <1>6, <1>8, <1>9, <1>10

TraversalFields == {"state", "visitor", "nodes", "indices", "node", "entries", "out", "depth"}
IsTraversal(s) == DOMAIN s = TraversalFields

\* A node on the stack, its depth d and what was written before it, w.
Frame(n, d, w) == Visited(n) /\ Within(n, d) /\ IsSequence(w)

\* From a node to its i-th child.
Descent(v, n, i, d, w, child, deeper, written) ==
    /\ i \in 1..Len(Entries(n)) /\ child = Entries(n)[i]
    /\ deeper = d + Deeper(v, n)
    /\ written = w \o (Opening(v, n, d, i - 1) \o Delim(v, n, d, i))

\* The stacks lead from the document to the node that is visited.
Stacked(s, root, t, e, b) ==
    /\ s.nodes = [k \in 1..t |-> s.nodes[k]] /\ s.indices = [k \in 1..t |-> s.indices[k]]
    /\ s.nodes[1] = root /\ e[1] = 0 /\ b[1] = <<>>
    /\ \A k \in 1..t : Frame(s.nodes[k], e[k], b[k])
    /\ \A k \in 1..(t - 1) :
        Descent(s.visitor, s.nodes[k], s.indices[k], e[k], b[k], s.nodes[k + 1], e[k + 1], b[k + 1])

\* What was written when i children of the node on top have been.
AtNode(s, n, i, d, w) ==
    /\ s.state \in {"BEGIN_VALUE", "CONT_VALUE", "CONTAINER", "END_VALUE"}
    /\ s.state = "BEGIN_VALUE" => i = 0 /\ s.depth = d /\ s.out = w
    /\ s.state # "BEGIN_VALUE" =>
        /\ i \in 0..Len(Entries(n)) /\ s.node = n /\ s.depth = d + Deeper(s.visitor, n)
        /\ s.out = w \o Opening(s.visitor, n, d, i)
    /\ s.state = "CONTAINER" => s.entries = Entries(n)
    /\ s.state = "END_VALUE" => i = Len(Entries(n))

UnderWay(s, root) == \E t \in Nat : \E e, b :
    t > 0 /\ Stacked(s, root, t, e, b) /\ AtNode(s, s.nodes[t], s.indices[t], e[t], b[t])

\* A traversal of a document.
Traversing(s, root) ==
    /\ IsTraversal(s) /\ s.visitor \in Visitors /\ root \in Docs
    /\ s.state = "END" => s.out = Written(s.visitor, root, 0)
    /\ s.state # "END" => UnderWay(s, root)

\* Steps that leave the stacks as they are.
LEMMA SameStacks ==
    ASSUME NEW s, NEW root, NEW t \in Nat, NEW e, NEW b, t > 0, Stacked(s, root, t, e, b),
           NEW q, IsTraversal(q), q.visitor = s.visitor, q.visitor \in Visitors, root \in Docs,
           q.nodes = s.nodes, q.indices = s.indices,
           AtNode(q, s.nodes[t], s.indices[t], e[t], b[t])
    PROVE  Traversing(q, root)
<1>1. Stacked(q, root, t, e, b)
  BY DEF Stacked
<1>2. UnderWay(q, root)
  BY <1>1 DEF UnderWay
<1>3. q.state # "END"
  BY DEF AtNode
<1> QED BY <1>2, <1>3 DEF Traversing

\* The traversal begins.
LEMMA TraversalBegins ==
    ASSUME NEW root \in Docs, NEW v \in Visitors, S_INIT(root, v)
    PROVE  Traversing(ser', root) /\ ser'.visitor = v
<1>1. PICK q : q = ser'
  OBVIOUS
<1>2. /\ IsTraversal(q) /\ q.visitor = v /\ q.state = "BEGIN_VALUE" /\ q.nodes = <<root>> /\ q.indices = <<0>>
      /\ q.out = <<>> /\ q.depth = 0
  BY <1>1 DEF S_INIT, IdleSerializer, IsTraversal, TraversalFields
<1>3. PICK e : e = [k \in 1..1 |-> 0]
  OBVIOUS
<1>4. PICK b : b = [k \in 1..1 |-> <<>>]
  OBVIOUS
<1>5. e[1] = 0 /\ b[1] = <<>> /\ q.nodes[1] = root /\ q.indices[1] = 0
  BY <1>2, <1>3, <1>4
<1>6. q.nodes = [k \in 1..1 |-> q.nodes[k]] /\ q.indices = [k \in 1..1 |-> q.indices[k]]
  <2>1. PICK n : n = q.nodes
    OBVIOUS
  <2>2. n = [k \in 1..1 |-> n[k]]
    BY <1>2, <2>1
  <2>3. PICK x : x = q.indices
    OBVIOUS
  <2>4. x = [k \in 1..1 |-> x[k]]
    BY <1>2, <2>3
  <2> QED BY <2>1, <2>2, <2>3, <2>4
<1>7. Frame(root, 0, <<>>)
  <2>1. root.type # "keyval"
    BY DocsAre DEF ScalarTypes
  <2>2. DepthOf(root) \in Nat /\ DepthOf(root) <= Deepest /\ Deepest \in Nat
    BY DocsAre
  <2>3. Within(root, 0)
    BY <2>1, <2>2 DEF Within, Height
  <2> QED BY <2>3, SmallSequences DEF Frame, Visited
<1>8. PICK t \in Nat : t = 1
  OBVIOUS
<1>9. Stacked(q, root, t, e, b)
  <2>1. 1..(t - 1) = {} /\ \A k \in 1..t : k = 1
    BY <1>8
  <2> QED BY <1>5, <1>6, <1>7, <1>8, <2>1 DEF Stacked
<1>10. AtNode(q, q.nodes[t], q.indices[t], e[t], b[t])
  BY <1>2, <1>5, <1>8 DEF AtNode
<1>11. UnderWay(q, root)
  BY <1>8, <1>9, <1>10 DEF UnderWay
<1> QED BY <1>1, <1>2, <1>11 DEF Traversing

\* What is known of the node on top of the stacks.
LEMMA OnTop ==
    ASSUME NEW s, NEW root, NEW t \in Nat, NEW e, NEW b, t > 0, Stacked(s, root, t, e, b), s.visitor \in Visitors
    PROVE  /\ Visited(s.nodes[t]) /\ Within(s.nodes[t], e[t]) /\ IsSequence(b[t]) /\ e[t] \in Nat
           /\ ChildrenWritten(s.visitor, s.nodes[t], e[t])
           /\ Last(s.nodes) = s.nodes[t] /\ Last(s.indices) = s.indices[t]
<1>1. t \in 1..t
  OBVIOUS
<1>2. Visited(s.nodes[t]) /\ Within(s.nodes[t], e[t]) /\ IsSequence(b[t]) /\ e[t] \in Nat
  BY <1>1 DEF Stacked, Frame, Within
<1>3. ChildrenWritten(s.visitor, s.nodes[t], e[t])
  BY <1>2, Whole
<1>4. PICK n : n = s.nodes
  OBVIOUS
<1>5. PICK x : x = s.indices
  OBVIOUS
<1>6. n = [k \in 1..t |-> n[k]] /\ x = [k \in 1..t |-> x[k]]
  BY <1>4, <1>5 DEF Stacked
<1>7. Last(n) = n[t] /\ Last(x) = x[t]
  BY <1>6, StackOps
<1> QED BY <1>2, <1>3, <1>4, <1>5, <1>7

\* A node begins.
LEMMA BeginTraversed ==
    ASSUME NEW root, Traversing(ser, root), S_BEGIN_VALUE
    PROVE  Traversing(ser', root) /\ ser'.visitor = ser.visitor
<1>1. IsTraversal(ser) /\ ser.visitor \in Visitors /\ root \in Docs /\ ser.state = "BEGIN_VALUE"
  BY DEF S_BEGIN_VALUE, Traversing
<1>2a. PICK t \in Nat : \E e, b :
        t > 0 /\ Stacked(ser, root, t, e, b) /\ AtNode(ser, ser.nodes[t], ser.indices[t], e[t], b[t])
  BY <1>1 DEF Traversing, UnderWay
<1>2. PICK e, b :
        t > 0 /\ Stacked(ser, root, t, e, b) /\ AtNode(ser, ser.nodes[t], ser.indices[t], e[t], b[t])
  BY <1>2a
<1>3. PICK n : n = ser.nodes[t]
  OBVIOUS
<1>4. Visited(n) /\ IsSequence(b[t]) /\ e[t] \in Nat /\ Last(ser.nodes) = n
  BY <1>1, <1>2, <1>3, OnTop
<1>5. PICK q : q = ser'
  OBVIOUS
<1>6. /\ IsTraversal(q) /\ q.visitor = ser.visitor /\ q.nodes = ser.nodes /\ q.indices = ser.indices
      /\ q.node = n /\ q.out = ser.out \o fBegin(ser.visitor, n, ser.depth)
      /\ q.depth = ser.depth + Deeper(ser.visitor, n)
      /\ q.state = IF n.type = "null" THEN "END_VALUE" ELSE "CONT_VALUE"
  BY <1>1, <1>4, <1>5 DEF S_BEGIN_VALUE, IsTraversal, TraversalFields
<1>7. ser.indices[t] = 0 /\ ser.depth = e[t] /\ ser.out = b[t]
  BY <1>1, <1>2 DEF AtNode
<1>8. fBegin(ser.visitor, n, e[t]) = Opening(ser.visitor, n, e[t], 0)
  BY <1>1, <1>4, OpeningNone
<1>9. Len(Entries(n)) \in Nat /\ (n.type = "null" => Len(Entries(n)) = 0)
  <2>1. Len(Entries(n)) \in Nat
    BY <1>4, ChildrenAre
  <2>2. ASSUME n.type = "null" PROVE Len(Entries(n)) = 0
    <3>1. n \in Docs
      BY <1>4, <2>2, VisitedTypes
    <3>2. n.type \in ScalarTypes
      BY <2>2 DEF ScalarTypes
    <3>3. n.entries = <<>>
      BY <3>1, <3>2, DocsAre
    <3>4. Entries(n) = <<>>
      BY <2>2, <3>3 DEF Entries
    <3> QED BY <3>4
  <2> QED BY <2>1, <2>2
<1>10. AtNode(q, n, 0, e[t], b[t])
  <2>1. 0 \in 0..Len(Entries(n))
    BY <1>9
  <2>2. q.depth = e[t] + Deeper(q.visitor, n) /\ q.out = b[t] \o Opening(q.visitor, n, e[t], 0)
    BY <1>6, <1>7, <1>8
  <2> QED BY <1>6, <1>9, <2>1, <2>2 DEF AtNode
<1>11. Traversing(q, root)
  BY <1>1, <1>2, <1>3, <1>6, <1>7, <1>10, SameStacks
<1> QED BY <1>5, <1>6, <1>11

\* A container is entered or gone on with; a scalar ends.
LEMMA ContTraversed ==
    ASSUME NEW root, Traversing(ser, root), S_CONT_VALUE
    PROVE  Traversing(ser', root) /\ ser'.visitor = ser.visitor
<1>1. IsTraversal(ser) /\ ser.visitor \in Visitors /\ root \in Docs /\ ser.state = "CONT_VALUE"
  BY DEF S_CONT_VALUE, Traversing
<1>2a. PICK t \in Nat : \E e, b :
        t > 0 /\ Stacked(ser, root, t, e, b) /\ AtNode(ser, ser.nodes[t], ser.indices[t], e[t], b[t])
  BY <1>1 DEF Traversing, UnderWay
<1>2. PICK e, b :
        t > 0 /\ Stacked(ser, root, t, e, b) /\ AtNode(ser, ser.nodes[t], ser.indices[t], e[t], b[t])
  BY <1>2a
<1>3. PICK n : n = ser.nodes[t]
  OBVIOUS
<1>4. Visited(n)
  BY <1>1, <1>2, <1>3, OnTop
<1>5. PICK i : i = ser.indices[t]
  OBVIOUS
<1>6. /\ i \in 0..Len(Entries(n)) /\ ser.node = n /\ ser.depth = e[t] + Deeper(ser.visitor, n)
      /\ ser.out = b[t] \o Opening(ser.visitor, n, e[t], i)
  BY <1>1, <1>2, <1>3, <1>5 DEF AtNode
<1>7. PICK q : q = ser'
  OBVIOUS
<1>8. /\ IsTraversal(q) /\ q.visitor = ser.visitor /\ q.nodes = ser.nodes /\ q.indices = ser.indices
      /\ q.node = n /\ q.out = ser.out /\ q.depth = ser.depth
      /\ \/ q.state = "CONTAINER" /\ q.entries = Entries(n)
         \/ q.state = "END_VALUE" /\ n.type \notin {"dict", "array", "keyval"}
  <2>1. CASE n.type \in {"dict", "array", "keyval"}
    <3>1. q = [ser EXCEPT !.entries = Entries(n), !.state = "CONTAINER"]
      BY <1>6, <1>7, <2>1 DEF S_CONT_VALUE
    <3> QED BY <1>1, <1>6, <3>1 DEF IsTraversal, TraversalFields
  <2>2. CASE n.type \notin {"dict", "array", "keyval"}
    <3>1. q = [ser EXCEPT !.state = "END_VALUE"]
      BY <1>6, <1>7, <2>2 DEF S_CONT_VALUE
    <3> QED BY <1>1, <1>6, <2>2, <3>1 DEF IsTraversal, TraversalFields
  <2> QED BY <2>1, <2>2
<1>9. n.type \notin {"dict", "array", "keyval"} => i = Len(Entries(n))
  <2>1. SUFFICES ASSUME n.type \notin {"dict", "array", "keyval"} PROVE Len(Entries(n)) = 0 /\ i = 0
    OBVIOUS
  <2>2. n \in Docs /\ n.type \in ScalarTypes
    BY <1>4, <2>1, VisitedTypes
  <2>3. n.entries = <<>>
    BY <2>2, DocsAre
  <2>4. Entries(n) = <<>>
    BY <2>1, <2>3 DEF Entries
  <2>5. Len(Entries(n)) = 0
    BY <2>4
  <2> QED BY <1>6, <2>5
<1>10. AtNode(q, n, i, e[t], b[t])
  <2>1. q.depth = e[t] + Deeper(q.visitor, n) /\ q.out = b[t] \o Opening(q.visitor, n, e[t], i)
    BY <1>6, <1>8
  <2>2. CASE q.state = "CONTAINER" /\ q.entries = Entries(n)
    BY <1>6, <1>8, <2>1, <2>2 DEF AtNode
  <2>3. CASE q.state = "END_VALUE" /\ n.type \notin {"dict", "array", "keyval"}
    BY <1>6, <1>8, <1>9, <2>1, <2>3 DEF AtNode
  <2> QED BY <1>8, <2>2, <2>3
<1>11. Traversing(q, root)
  BY <1>1, <1>2, <1>3, <1>5, <1>8, <1>10, SameStacks
<1> QED BY <1>7, <1>8, <1>11

\* The stacks with a child on top.
LEMMA ChildOnTop ==
    ASSUME NEW s, NEW root, NEW t \in Nat, NEW e, NEW b, t > 0, Stacked(s, root, t, e, b), s.visitor \in Visitors,
           NEW i, NEW child, NEW d, NEW w, Frame(child, d, w),
           Descent(s.visitor, s.nodes[t], i, e[t], b[t], child, d, w),
           NEW q, IsTraversal(q), q.visitor = s.visitor, root \in Docs, q.state = "BEGIN_VALUE",
           q.nodes = Append(s.nodes, child), q.indices = Append(Front(s.indices), i) \o << 0 >>,
           q.depth = d, q.out = w
    PROVE  Traversing(q, root)
<1>1. PICK n : n = s.nodes
  OBVIOUS
<1>2. PICK x : x = s.indices
  OBVIOUS
<1>3. n = [k \in 1..t |-> n[k]] /\ x = [k \in 1..t |-> x[k]]
  BY <1>1, <1>2 DEF Stacked
<1>4. PICK m : m = q.nodes
  OBVIOUS
<1>5. PICK y : y = q.indices
  OBVIOUS
<1>6. m = [k \in 1..(t + 1) |-> IF k = t + 1 THEN child ELSE n[k]]
  <2>1. \A z : Append(n, z) = [k \in 1..(t + 1) |-> IF k = t + 1 THEN z ELSE n[k]]
    BY <1>3, StackOps
  <2> QED BY <1>1, <1>4, <2>1
<1>7. y = [k \in 1..(t + 1) |-> IF k = t + 1 THEN 0 ELSE IF k = t THEN i ELSE x[k]]
  <2>1. \A z, o : Append(Front(x), z) \o <<o>>
                      = [k \in 1..(t + 1) |-> IF k = t + 1 THEN o ELSE IF k = t THEN z ELSE x[k]]
    BY <1>3, StackOps, ZenonT(40)
  <2>2. Append(Front(x), i) \o <<0>>
          = [k \in 1..(t + 1) |-> IF k = t + 1 THEN 0 ELSE IF k = t THEN i ELSE x[k]]
    BY <2>1, ZenonT(40)
  <2> QED BY <1>2, <1>5, <2>2
<1>8. PICK f : f = [k \in 1..(t + 1) |-> IF k = t + 1 THEN d ELSE e[k]]
  OBVIOUS
<1>9. PICK c : c = [k \in 1..(t + 1) |-> IF k = t + 1 THEN w ELSE b[k]]
  OBVIOUS
<1>10. PICK u \in Nat : u = t + 1
  OBVIOUS
<1>11. m[u] = child /\ y[u] = 0 /\ f[u] = d /\ c[u] = w /\ y[t] = i
  <2>1. u \in 1..(t + 1) /\ t \in 1..(t + 1) /\ t # t + 1
    BY <1>10
  <2> QED BY <1>6, <1>7, <1>8, <1>9, <1>10, <2>1
<1>12. \A k \in 1..t : m[k] = n[k] /\ f[k] = e[k] /\ c[k] = b[k]
  <2>1. \A k \in 1..t : k \in 1..(t + 1) /\ k # t + 1
    OBVIOUS
  <2> QED BY <1>6, <1>8, <1>9, <2>1
<1>13. \A k \in 1..(t - 1) : y[k] = x[k]
  <2>1. \A k \in 1..(t - 1) : k \in 1..(t + 1) /\ k # t + 1 /\ k # t
    OBVIOUS
  <2> QED BY <1>7, <2>1
<1>14. ASSUME NEW k \in 1..u PROVE Frame(m[k], f[k], c[k])
  <2>1. CASE k = u
    BY <1>11, <2>1
  <2>2. CASE k # u
    <3>1. k \in 1..t
      BY <1>10, <2>2
    <3>2. Frame(n[k], e[k], b[k])
      BY <1>1, <3>1 DEF Stacked
    <3> QED BY <1>12, <3>1, <3>2
  <2> QED BY <2>1, <2>2
<1>15. ASSUME NEW k \in 1..(u - 1)
       PROVE  Descent(q.visitor, m[k], y[k], f[k], c[k], m[k + 1], f[k + 1], c[k + 1])
  <2>1. CASE k = t
    <3>1. k + 1 = u /\ t \in 1..t
      BY <1>10, <2>1
    <3>2. m[k] = s.nodes[t] /\ f[k] = e[t] /\ c[k] = b[t]
      BY <1>1, <1>12, <2>1, <3>1
    <3>3. m[k + 1] = child /\ f[k + 1] = d /\ c[k + 1] = w /\ y[k] = i
      BY <1>11, <2>1, <3>1
    <3> QED BY <3>2, <3>3
  <2>2. CASE k # t
    <3>1. k \in 1..(t - 1) /\ k \in 1..t /\ k + 1 \in 1..t
      BY <1>10, <2>2
    <3>2. Descent(s.visitor, n[k], x[k], e[k], b[k], n[k + 1], e[k + 1], b[k + 1])
      BY <1>1, <1>2, <3>1 DEF Stacked
    <3>3. m[k] = n[k] /\ f[k] = e[k] /\ c[k] = b[k] /\ m[k + 1] = n[k + 1] /\ f[k + 1] = e[k + 1] /\ c[k + 1] = b[k + 1]
      BY <1>12, <3>1
    <3>4. y[k] = x[k]
      BY <1>13, <3>1
    <3> QED BY <3>2, <3>3, <3>4
  <2> QED BY <2>1, <2>2
<1>16. Stacked(q, root, u, f, c)
  <2>1. 1 \in 1..t
    OBVIOUS
  <2>2. m[1] = root /\ f[1] = 0 /\ c[1] = <<>>
    BY <1>1, <1>12, <2>1 DEF Stacked
  <2>3. m = [k \in 1..u |-> m[k]] /\ y = [k \in 1..u |-> y[k]]
    BY <1>6, <1>7, <1>10
  <2> QED BY <1>4, <1>5, <1>14, <1>15, <2>2, <2>3 DEF Stacked
<1>17. AtNode(q, m[u], y[u], f[u], c[u])
  BY <1>11 DEF AtNode
<1>18. UnderWay(q, root)
  <2>1. u > 0
    BY <1>10
  <2> QED BY <1>4, <1>5, <1>16, <1>17, <2>1 DEF UnderWay
<1> QED BY <1>18 DEF Traversing

\* The next child of a container, after the delimiter, or its end.
LEMMA ContainerTraversed ==
    ASSUME NEW root, Traversing(ser, root), S_CONTAINER
    PROVE  Traversing(ser', root) /\ ser'.visitor = ser.visitor
<1>1. IsTraversal(ser) /\ ser.visitor \in Visitors /\ root \in Docs /\ ser.state = "CONTAINER"
  BY DEF S_CONTAINER, Traversing
<1>2a. PICK t \in Nat : \E e, b :
        t > 0 /\ Stacked(ser, root, t, e, b) /\ AtNode(ser, ser.nodes[t], ser.indices[t], e[t], b[t])
  BY <1>1 DEF Traversing, UnderWay
<1>2. PICK e, b :
        t > 0 /\ Stacked(ser, root, t, e, b) /\ AtNode(ser, ser.nodes[t], ser.indices[t], e[t], b[t])
  BY <1>2a
<1>3. PICK n : n = ser.nodes[t]
  OBVIOUS
<1>4. PICK i : i = ser.indices[t]
  OBVIOUS
<1>5. PICK v : v = ser.visitor
  OBVIOUS
<1>6. PICK d : d = e[t]
  OBVIOUS
<1>7. /\ Visited(n) /\ Within(n, d) /\ IsSequence(b[t]) /\ d \in Nat /\ ChildrenWritten(v, n, d)
      /\ Last(ser.nodes) = n /\ Last(ser.indices) = i
  BY <1>1, <1>2, <1>3, <1>4, <1>5, <1>6, OnTop
<1>8. /\ i \in 0..Len(Entries(n)) /\ ser.node = n /\ ser.depth = d + Deeper(v, n)
      /\ ser.out = b[t] \o Opening(v, n, d, i) /\ ser.entries = Entries(n)
  BY <1>1, <1>2, <1>3, <1>4, <1>5, <1>6 DEF AtNode
<1>9. Len(Entries(n)) \in Nat /\ i \in Nat
  BY <1>7, <1>8, ChildrenAre
<1>10. PICK q : q = ser'
  OBVIOUS
<1>11. CASE i < Len(Entries(n))
  <2>1. q = NextChild(ser)
    BY <1>7, <1>8, <1>10, <1>11 DEF S_CONTAINER
  <2>2. PICK o : o = IF i = 0 THEN ser.out ELSE ser.out \o fDelim(v, n, ser.depth)
    OBVIOUS
  <2>3. PICK ns : ns = Append(ser.nodes, Entries(n)[i + 1])
    OBVIOUS
  <2>4. PICK is : is = Append(Front(ser.indices), i + 1) \o <<0>>
    OBVIOUS
  <2>5. q = [ser EXCEPT !.out = o, !.indices = is, !.nodes = ns, !.state = "BEGIN_VALUE"]
    BY <1>5, <1>7, <1>8, <2>1, <2>2, <2>3, <2>4 DEF NextChild
  <2>6. /\ IsTraversal(q) /\ q.visitor = v /\ q.out = o /\ q.indices = is /\ q.nodes = ns
        /\ q.state = "BEGIN_VALUE" /\ q.depth = ser.depth
    BY <1>1, <1>5, <2>5 DEF IsTraversal, TraversalFields
  <2>7. PICK p : p = Opening(v, n, d, i)
    OBVIOUS
  <2>8. PICK l : l = Delim(v, n, d, i + 1)
    OBVIOUS
  <2>9. IsSequence(b[t]) /\ IsSequence(p) /\ IsSequence(l)
    <3>1. i <= Len(Entries(n))
      BY <1>8, <1>9
    <3>2. IsSequence(p)
      BY <1>1, <1>5, <1>7, <1>9, <2>7, <3>1, PartsAre
    <3>3. IsSequence(l)
      BY <1>1, <1>5, <1>7, <2>8, PiecesAre
    <3> QED BY <1>7, <3>2, <3>3
  <2>10. o = b[t] \o (p \o l)
    <3>1. PICK bt : bt = b[t]
      OBVIOUS
    <3>2. (bt \o p) \o l = bt \o (p \o l)
      <4>1. IsSequence(bt) /\ IsSequence(p) /\ IsSequence(l)
        BY <2>9, <3>1
      <4> QED BY ONLY <4>1, Associates, SMTT(40)
    <3>3. o = (bt \o p) \o l
      <4>1. CASE i = 0
        <5>1. i + 1 = 1
          BY <4>1
        <5>2. l = <<>>
          BY <2>8, <5>1 DEF Delim
        <5>3. IsSequence(bt \o p)
          BY <2>9, <3>1, Concats
        <5>4. (bt \o p) \o <<>> = bt \o p
          BY <5>3, Concats
        <5> QED BY <1>8, <2>2, <2>7, <3>1, <4>1, <5>2, <5>4
      <4>2. CASE i # 0
        <5>1. i + 1 # 1
          BY <1>9, <4>2
        <5>2. l = fDelim(v, n, ser.depth)
          BY <1>8, <2>8, <5>1 DEF Delim
        <5> QED BY <1>8, <2>2, <2>7, <3>1, <4>2, <5>2
      <4> QED BY <4>1, <4>2
    <3> QED BY <3>1, <3>2, <3>3
  <2>11. PICK c : c = Entries(n)[i + 1]
    OBVIOUS
  <2>12. i + 1 \in 1..Len(Entries(n)) /\ (i + 1) - 1 = i
    BY <1>9, <1>11
  <2>13. Descent(v, n, i + 1, d, b[t], c, ser.depth, o)
    BY <1>8, <2>7, <2>8, <2>10, <2>11, <2>12 DEF Descent
  <2>14. Frame(c, ser.depth, o)
    <3>1. Visited(c)
      BY <1>7, <2>11, <2>12, ChildrenAre
    <3>2. Within(c, ser.depth)
      BY <1>1, <1>5, <1>7, <1>8, <2>11, <2>12, ChildrenAre
    <3>3. IsSequence(p \o l)
      BY <2>9, Concats
    <3>4. IsSequence(o)
      BY <2>9, <2>10, <3>3, Concats
    <3> QED BY <3>1, <3>2, <3>4 DEF Frame
  <2>15. Traversing(q, root)
    BY <1>1, <1>2, <1>3, <1>5, <1>6, <2>3, <2>4, <2>6, <2>11, <2>13, <2>14, ChildOnTop
  <2> QED BY <1>5, <1>10, <2>6, <2>15
<1>12. CASE ~(i < Len(Entries(n)))
  <2>1. q = [ser EXCEPT !.state = "END_VALUE"]
    BY <1>7, <1>8, <1>10, <1>12 DEF S_CONTAINER
  <2>2. /\ IsTraversal(q) /\ q.visitor = v /\ q.nodes = ser.nodes /\ q.indices = ser.indices /\ q.node = n
        /\ q.depth = ser.depth /\ q.out = ser.out /\ q.state = "END_VALUE"
    BY <1>1, <1>5, <1>8, <2>1 DEF IsTraversal, TraversalFields
  <2>3. i = Len(Entries(n))
    BY <1>8, <1>9, <1>12
  <2>4. q.depth = d + Deeper(q.visitor, n) /\ q.out = b[t] \o Opening(q.visitor, n, d, i)
    BY <1>8, <2>2
  <2>5. AtNode(q, n, i, d, b[t])
    BY <1>8, <2>2, <2>3, <2>4 DEF AtNode
  <2>6. Traversing(q, root)
    BY <1>1, <1>2, <1>3, <1>4, <1>5, <1>6, <2>2, <2>5, SameStacks
  <2> QED BY <1>5, <1>10, <2>2, <2>6
<1> QED BY <1>11, <1>12

\* The stacks without the node on top.
LEMMA BackInParent ==
    ASSUME NEW s, NEW root, NEW u \in Nat, NEW e, NEW b, u > 0, Stacked(s, root, u + 1, e, b), s.visitor \in Visitors,
           NEW q, IsTraversal(q), q.visitor = s.visitor, root \in Docs, q.state = "CONT_VALUE",
           q.nodes = Front(s.nodes), q.indices = Front(s.indices), q.node = s.nodes[u],
           q.depth = e[u + 1], q.out = b[u + 1] \o Meaning(s.visitor, s.nodes[u + 1], e[u + 1])
    PROVE  Traversing(q, root)
<1>1. PICK t \in Nat : t = u + 1
  OBVIOUS
<1>2. t > 0 /\ t - 1 = u /\ Stacked(s, root, t, e, b)
  BY <1>1
<1>3. PICK n : n = s.nodes
  OBVIOUS
<1>4. PICK x : x = s.indices
  OBVIOUS
<1>5. n = [k \in 1..t |-> n[k]] /\ x = [k \in 1..t |-> x[k]]
  BY <1>2, <1>3, <1>4 DEF Stacked
<1>6. q.nodes = [k \in 1..u |-> n[k]] /\ q.indices = [k \in 1..u |-> x[k]]
  <2>1. Front(n) = [k \in 1..(t - 1) |-> n[k]] /\ Front(x) = [k \in 1..(t - 1) |-> x[k]]
    BY <1>2, <1>5, StackOps
  <2> QED BY <1>2, <1>3, <1>4, <2>1
<1>7. PICK m : m = q.nodes
  OBVIOUS
<1>8. PICK y : y = q.indices
  OBVIOUS
<1>9. m = [k \in 1..u |-> m[k]] /\ y = [k \in 1..u |-> y[k]] /\ \A k \in 1..u : m[k] = n[k] /\ y[k] = x[k]
  BY <1>6, <1>7, <1>8
<1>10. Stacked(q, root, u, e, b)
  <2>1. 1 \in 1..u /\ (\A k \in 1..u : k \in 1..t) /\ \A k \in 1..(u - 1) : k \in 1..u /\ k + 1 \in 1..u /\ k \in 1..(t - 1)
    BY <1>1
  <2>2. m[1] = root /\ e[1] = 0 /\ b[1] = <<>>
    BY <1>2, <1>3, <1>9, <2>1 DEF Stacked
  <2>3. ASSUME NEW k \in 1..u PROVE Frame(m[k], e[k], b[k])
    <3>1. Frame(n[k], e[k], b[k])
      BY <1>2, <1>3, <2>1 DEF Stacked
    <3> QED BY <1>9, <3>1
  <2>4. ASSUME NEW k \in 1..(u - 1)
        PROVE  Descent(q.visitor, m[k], y[k], e[k], b[k], m[k + 1], e[k + 1], b[k + 1])
    <3>1. Descent(s.visitor, n[k], x[k], e[k], b[k], n[k + 1], e[k + 1], b[k + 1])
      BY <1>2, <1>3, <1>4, <2>1 DEF Stacked
    <3>2. m[k] = n[k] /\ y[k] = x[k] /\ m[k + 1] = n[k + 1]
      BY <1>9, <2>1
    <3> QED BY <3>1, <3>2
  <2> QED BY <1>7, <1>8, <1>9, <2>2, <2>3, <2>4 DEF Stacked
<1>11. PICK p : p = n[u]
  OBVIOUS
<1>12. PICK i : i = x[u]
  OBVIOUS
<1>13. PICK v : v = s.visitor
  OBVIOUS
<1>14. PICK d : d = e[u]
  OBVIOUS
<1>15. u \in 1..u /\ u \in 1..(t - 1)
  BY <1>2
<1>16. m[u] = p /\ y[u] = i
  BY <1>9, <1>11, <1>12, <1>15
<1>17. Visited(p) /\ Within(p, d) /\ IsSequence(b[u]) /\ d \in Nat /\ ChildrenWritten(v, p, d)
  <2>1. q.visitor \in Visitors
    OBVIOUS
  <2>2. /\ Visited(q.nodes[u]) /\ Within(q.nodes[u], e[u]) /\ IsSequence(b[u]) /\ e[u] \in Nat
        /\ ChildrenWritten(q.visitor, q.nodes[u], e[u])
    BY <1>10, <2>1, OnTop
  <2> QED BY <1>7, <1>13, <1>14, <1>16, <2>2
<1>18. Descent(v, p, i, d, b[u], n[t], e[t], b[t])
  <2>1. Descent(s.visitor, n[u], x[u], e[u], b[u], n[u + 1], e[u + 1], b[u + 1])
    BY <1>2, <1>3, <1>4, <1>15 DEF Stacked
  <2> QED BY <1>1, <1>11, <1>12, <1>13, <1>14, <2>1
<1>19. Len(Entries(p)) \in Nat /\ i \in 1..Len(Entries(p))
  BY <1>17, <1>18, ChildrenAre DEF Descent
<1>20. PICK j \in Nat : j = i - 1 /\ i = j + 1
  BY <1>19
<1>21. PICK o : o = Opening(v, p, d, j)
  OBVIOUS
<1>22. PICK l : l = Delim(v, p, d, i)
  OBVIOUS
<1>23. PICK w : w = Meaning(v, Entries(p)[i], d + Deeper(v, p))
  OBVIOUS
<1>24. PICK bu : bu = b[u]
  OBVIOUS
<1>25. n[t] = Entries(p)[i] /\ e[t] = d + Deeper(v, p) /\ b[t] = bu \o (o \o l)
  BY <1>18, <1>20, <1>21, <1>22, <1>24 DEF Descent
<1>26. q.depth = d + Deeper(v, p) /\ q.out = (bu \o (o \o l)) \o w
  BY <1>1, <1>3, <1>13, <1>23, <1>25
<1>27. IsSequence(bu) /\ IsSequence(o) /\ IsSequence(l) /\ IsSequence(w) /\ IsSequence(o \o l)
  <2>1. v \in Visitors /\ j <= Len(Entries(p))
    BY <1>13, <1>19, <1>20
  <2>2. IsSequence(o)
    BY <1>17, <1>21, <2>1, PartsAre
  <2>3. IsSequence(l)
    BY <1>17, <1>22, <2>1, PiecesAre
  <2>4. IsSequence(w)
    BY <1>17, <1>19, <1>23 DEF ChildrenWritten
  <2> QED BY <1>17, <1>24, <2>2, <2>3, <2>4, Concats
<1>28. Opening(v, p, d, i) = (o \o l) \o w
  <2>1. v \in Visitors /\ j + 1 <= Len(Entries(p))
    BY <1>13, <1>19, <1>20
  <2>2. Opening(v, p, d, j + 1)
          = (Opening(v, p, d, j) \o Delim(v, p, d, j + 1)) \o Meaning(v, Entries(p)[j + 1], d + Deeper(v, p))
    BY <1>17, <2>1, OpeningNext
  <2> QED BY <1>20, <1>21, <1>22, <1>23, <2>2
<1>29. (bu \o (o \o l)) \o w = bu \o ((o \o l) \o w)
  <2>1. PICK z : z = o \o l
    OBVIOUS
  <2>2. IsSequence(bu) /\ IsSequence(z) /\ IsSequence(w)
    BY <1>27, <2>1
  <2>3. (bu \o z) \o w = bu \o (z \o w)
    BY ONLY <2>2, Associates, SMTT(40)
  <2> QED BY <2>1, <2>3
<1>30. q.out = b[u] \o Opening(q.visitor, p, d, i) /\ q.depth = d + Deeper(q.visitor, p) /\ q.node = p
  BY <1>3, <1>11, <1>13, <1>24, <1>26, <1>28, <1>29
<1>31. AtNode(q, p, i, d, b[u])
  <2>1. i \in 0..Len(Entries(p))
    BY <1>19
  <2> QED BY <1>30, <2>1 DEF AtNode
<1>32. UnderWay(q, root)
  BY <1>7, <1>8, <1>10, <1>14, <1>16, <1>31 DEF UnderWay
<1> QED BY <1>32 DEF Traversing

\* A node ends, and the traversal goes back to the one below.
LEMMA EndTraversed ==
    ASSUME NEW root, Traversing(ser, root), S_END_VALUE
    PROVE  Traversing(ser', root) /\ ser'.visitor = ser.visitor
<1>1. IsTraversal(ser) /\ ser.visitor \in Visitors /\ root \in Docs /\ ser.state = "END_VALUE"
  BY DEF S_END_VALUE, Traversing
<1>2a. PICK t \in Nat : \E e, b :
        t > 0 /\ Stacked(ser, root, t, e, b) /\ AtNode(ser, ser.nodes[t], ser.indices[t], e[t], b[t])
  BY <1>1 DEF Traversing, UnderWay
<1>2. PICK e, b :
        t > 0 /\ Stacked(ser, root, t, e, b) /\ AtNode(ser, ser.nodes[t], ser.indices[t], e[t], b[t])
  BY <1>2a
<1>3. PICK n : n = ser.nodes[t]
  OBVIOUS
<1>4. PICK v : v = ser.visitor
  OBVIOUS
<1>5. PICK d : d = e[t]
  OBVIOUS
<1>6. PICK w : w = b[t]
  OBVIOUS
<1>7. Visited(n) /\ Within(n, d) /\ IsSequence(w) /\ d \in Nat /\ ChildrenWritten(v, n, d)
  BY <1>1, <1>2, <1>3, <1>4, <1>5, <1>6, OnTop
<1>8. /\ ser.node = n /\ ser.depth = d + Deeper(v, n)
      /\ ser.out = w \o Opening(v, n, d, Len(Entries(n)))
  BY <1>1, <1>2, <1>3, <1>4, <1>5, <1>6 DEF AtNode
<1>9. PICK q : q = ser'
  OBVIOUS
<1>10. PICK o : o = Opening(v, n, d, Len(Entries(n)))
  OBVIOUS
<1>11. PICK f : f = fEnd(v, n, d + Deeper(v, n))
  OBVIOUS
<1>12. IsSequence(w) /\ IsSequence(o) /\ IsSequence(f)
  <2>1. Len(Entries(n)) \in Nat /\ Len(Entries(n)) <= Len(Entries(n))
    BY <1>7, ChildrenAre
  <2>2. IsSequence(o)
    BY <1>1, <1>4, <1>7, <1>10, <2>1, PartsAre
  <2>3. IsSequence(f)
    BY <1>1, <1>4, <1>7, <1>11, PiecesAre
  <2> QED BY <1>7, <2>2, <2>3
<1>13. (w \o o) \o f = w \o (o \o f)
  BY ONLY <1>12, Associates, SMTT(40)
<1>14. Meaning(v, n, d) = o \o f
  BY <1>1, <1>4, <1>7, <1>10, <1>11, Whole
<1>15. ser.out \o fEnd(ser.visitor, ser.node, ser.depth) = w \o Meaning(v, n, d)
  BY <1>4, <1>8, <1>10, <1>11, <1>13, <1>14
<1>16. ser.depth - Deeper(ser.visitor, ser.node) = d
  <2>1. Deeper(v, n) \in Nat
    BY <1>1, <1>4, <1>7, ChildrenAre
  <2> QED BY <1>4, <1>7, <1>8, <2>1
<1>17. PICK z : z = w \o Meaning(v, n, d)
  OBVIOUS
<1>18. PICK s : s = [ser EXCEPT !.out = z, !.depth = d]
  OBVIOUS
<1>19. q = Popped(s)
  <2>1. [ser EXCEPT !.out = @ \o fEnd(ser.visitor, ser.node, ser.depth),
                    !.depth = @ - Deeper(ser.visitor, ser.node)] = s
    BY <1>15, <1>16, <1>17, <1>18
  <2> QED BY <1>9, <2>1 DEF S_END_VALUE
<1>20. /\ IsTraversal(s) /\ s.visitor = v /\ s.nodes = ser.nodes /\ s.indices = ser.indices /\ s.node = n
       /\ s.out = z /\ s.depth = d
  BY <1>1, <1>4, <1>8, <1>18 DEF IsTraversal, TraversalFields
<1>21. PICK ns : ns = Front(ser.nodes)
  OBVIOUS
<1>22. /\ IsTraversal(q) /\ q.visitor = v /\ q.nodes = ns /\ q.indices = Front(ser.indices) /\ q.depth = d /\ q.out = z
       /\ q.node = (IF ns = <<>> THEN n ELSE Last(ns))
       /\ q.state = (IF ns = <<>> THEN "END" ELSE "CONT_VALUE")
  BY <1>19, <1>20, <1>21 DEF Popped, IsTraversal, TraversalFields
<1>23. (ns = <<>> <=> t = 1) /\ ns = [k \in 1..(t - 1) |-> ser.nodes[k]]
  <2>1. PICK m : m = ser.nodes
    OBVIOUS
  <2>2. m = [k \in 1..t |-> m[k]]
    BY <1>2, <2>1 DEF Stacked
  <2>3. Front(m) = [k \in 1..(t - 1) |-> m[k]] /\ (Front(m) = <<>> <=> t = 1)
    BY <1>2, <2>2, StackOps
  <2> QED BY <1>21, <2>1, <2>3
<1>24. CASE t = 1
  <2>1. n = root /\ d = 0 /\ w = <<>>
    BY <1>2, <1>3, <1>5, <1>6, <1>24 DEF Stacked
  <2>2. root.type # "keyval"
    BY <1>1, DocsAre DEF ScalarTypes
  <2>3. Meaning(v, n, d) = Written(v, root, 0)
    BY <2>1, <2>2 DEF Meaning
  <2>4. IsSequence(o \o f)
    BY <1>12, Concats
  <2>5. z = Written(v, root, 0)
    <3>1. PICK r : r = Meaning(v, n, d)
      OBVIOUS
    <3>2. IsSequence(r)
      BY <1>14, <2>4, <3>1
    <3>3. <<>> \o r = r
      BY <3>2, Concats
    <3> QED BY <1>17, <2>1, <2>3, <3>1, <3>3
  <2>6. q.state = "END"
    BY <1>22, <1>23, <1>24
  <2>7. Traversing(q, root)
    BY <1>1, <1>4, <1>22, <2>5, <2>6 DEF Traversing
  <2> QED BY <1>4, <1>9, <1>22, <2>7
<1>25. CASE t # 1
  <2>1. PICK u \in Nat : t = u + 1
    BY <1>2, <1>25
  <2>2. u > 0 /\ t - 1 = u /\ u \in 1..u
    BY <1>2, <1>25, <2>1
  <2>3. q.state = "CONT_VALUE" /\ q.node = Last(ns)
    BY <1>22, <1>23, <1>25
  <2>4. Last(ns) = ser.nodes[u]
    <3>1. ns = [k \in 1..u |-> ser.nodes[k]]
      BY <1>23, <2>2
    <3>2. ns = [k \in 1..u |-> ns[k]] /\ ns[u] = ser.nodes[u]
      BY <2>2, <3>1
    <3>3. Last(ns) = ns[u]
      BY <2>2, <3>2, StackOps
    <3> QED BY <3>2, <3>3
  <2>5. Stacked(ser, root, u + 1, e, b)
    BY <1>2, <2>1
  <2>6. q.out = b[u + 1] \o Meaning(ser.visitor, ser.nodes[u + 1], e[u + 1]) /\ q.depth = e[u + 1]
    BY <1>3, <1>4, <1>5, <1>6, <1>17, <1>22, <2>1
  <2>7. Traversing(q, root)
    BY <1>1, <1>4, <1>21, <1>22, <2>2, <2>3, <2>4, <2>5, <2>6, BackInParent
  <2> QED BY <1>4, <1>9, <1>22, <2>7
<1> QED BY <1>24, <1>25

\* While a document is written, the traversal is of it and of what was asked for.
Writing ==
    phase \in {"save", "resp", "write"} =>
        /\ Traversing(ser, doc)
        /\ phase = "save" => ser.visitor = Save
        /\ phase = "resp" => ser.visitor = ToResp
        /\ phase = "write" => ser.visitor \in Formats

\* Every step of the server.
LEMMA WritingKept ==
    ASSUME Writing, [Serve \/ Commands]_docVars
    PROVE  Writing'
<1>1. ASSUME phase' \notin {"save", "resp", "write"} PROVE Writing'
  BY <1>1 DEF Writing
<1>2. ASSUME UNCHANGED <<ser, doc, phase>> PROVE Writing'
  <2>1. ser' = ser /\ doc' = doc /\ phase' = phase
    BY <1>2
  <2>2. Traversing(ser, doc) => Traversing(ser', doc')
    BY <2>1
  <2> QED BY <2>1, <2>2 DEF Writing
<1>3. CASE UNCHANGED docVars
  BY <1>2, <1>3 DEF docVars
<1>4. CASE Traverse
  <2>1. Node_Serializer /\ phase' = phase /\ doc' = doc
    BY <1>4 DEF Traverse
  <2>2. CASE phase \in {"save", "resp", "write"}
    <3>1. Traversing(ser, doc)
      BY <2>2 DEF Writing
    <3>2. Traversing(ser', doc) /\ ser'.visitor = ser.visitor
      BY <2>1, <3>1, BeginTraversed, ContTraversed, ContainerTraversed, EndTraversed DEF Node_Serializer
    <3>3. Traversing(ser', doc')
      BY <2>1, <3>2
    <3> QED BY <2>1, <3>2, <3>3 DEF Writing
  <2>3. CASE phase \notin {"save", "resp", "write"}
    BY <1>1, <2>1, <2>3
  <2> QED BY <2>2, <2>3
<1>5. ASSUME NEW next \in {"save", "resp", "write"}, NEW v \in Visitors, Write(next, v),
             next = "save" => v = Save, next = "resp" => v = ToResp, next = "write" => v \in Formats
      PROVE  Writing'
  <2>1. PICK d \in Docs : doc' = d /\ S_INIT(d, v)
    BY <1>5 DEF Write
  <2>2. phase' = next
    BY <1>5 DEF Write
  <2>3. Traversing(ser', d) /\ ser'.visitor = v
    BY <2>1, TraversalBegins
  <2>4. Traversing(ser', doc')
    BY <2>1, <2>3
  <2> QED BY <1>5, <2>2, <2>3, <2>4 DEF Writing
<1>6. CASE JSONTypeRdbSave
  BY <1>5, <1>6 DEF JSONTypeRdbSave, Visitors
<1>7. CASE ObjectTypeToRespReply
  BY <1>5, <1>7 DEF ObjectTypeToRespReply, Visitors
<1>8. CASE SerializeNodeToJSON
  <2>1. PICK v \in Formats : Write("write", v)
    BY <1>8 DEF SerializeNodeToJSON
  <2> QED BY <1>5, <2>1 DEF Visitors
<1>9. CASE LoadSaved \/ ReadWritten \/ ClientBegin \/ NextCommand
  <2>1. phase' \in {"load", "read", "client", "start"}
    BY <1>9 DEF LoadSaved, ReadWritten, ClientBegin, NextCommand
  <2> QED BY <1>1, <2>1
<1>10. CASE Load
  BY <1>2, <1>10 DEF Load
<1>11. CASE ReadToken
  BY <1>2, <1>11 DEF ReadToken
<1>12. CASE ClientToken
  BY <1>2, <1>12 DEF ClientToken
<1>13. CASE TextEnd
  BY <1>2, <1>13 DEF TextEnd
<1> QED BY <1>3, <1>4, <1>6, <1>7, <1>8, <1>9, <1>10, <1>11, <1>12, <1>13 DEF Serve, Commands

\* Whatever the documents, and however nested or empty their containers, the
\* traversal with its two stacks writes to the RDB stream, the reply and the
\* text what the recursion over the document gives.
THEOREM SerializedAlwaysRight == DocSpec => []SerializedRight
<1>1. Start => Writing
  <2> SUFFICES ASSUME Start PROVE Writing
    OBVIOUS
  <2>1. phase = "start"
    BY DEF Start
  <2> QED BY <2>1 DEF Writing
<1>2. Writing => SerializedRight
  <2> SUFFICES ASSUME Writing, ser.state = "END", phase \in {"save", "resp", "write"}
               PROVE  /\ phase = "save" => ser.out = SavedAs(doc)
                      /\ phase = "resp" => ser.out = RespReplyOf(doc)
                      /\ phase = "write" => ser.out = WrittenAs(doc, ser.visitor, 0)
    BY DEF SerializedRight
  <2>1. ser.out = Written(ser.visitor, doc, 0)
    BY DEF Writing, Traversing
  <2>2. CASE phase = "save"
    <3>1. ser.visitor.kind = "rdb"
      BY <2>2 DEF Writing, Save, Visitor
    <3> QED BY <2>1, <2>2, <3>1 DEF Written
  <2>3. CASE phase = "resp"
    <3>1. ser.visitor.kind = "resp"
      BY <2>3 DEF Writing, ToResp, Visitor
    <3> QED BY <2>1, <2>3, <3>1 DEF Written
  <2>4. CASE phase = "write"
    <3>1. ser.visitor \in Formats
      BY <2>4 DEF Writing
    <3>2. ser.visitor = ToJSON(ser.visitor.indent, ser.visitor.newline, ser.visitor.space)
      BY <3>1, FormatsAssumption
    <3>3. ser.visitor.kind = "json"
      BY <3>2 DEF ToJSON, Visitor
    <3> QED BY <2>1, <2>4, <3>3 DEF Written
  <2> QED BY <2>2, <2>3, <2>4
<1> QED BY <1>1, <1>2, WritingKept, PTL DEF DocSpec

-----------------------------------------------------------------------------
(* What the loader reads.                                                  *)

\* The stream of a node that is visited, in the order of the loader: its type,
\* its value, and what is left of its children when it has read i of them.
Stream(n) == Meaning(Save, n, 0)
TypeItem(n) == Item("unsigned", TypeCode[n.type], <<>>)

Payload(n) ==
    CASE n.type = "null" -> <<>>
      [] n.type = "boolean" -> <<Item("string", 0, IF n.num = 1 THEN <<"1">> ELSE <<"0">>)>>
      [] n.type = "integer" -> <<Item("signed", n.num, <<>>)>>
      [] n.type = "number" -> <<Item("double", n.num, <<>>)>>
      [] n.type \in {"string", "keyval"} -> <<Item("string", 0, n.str)>>
      [] n.type \in {"dict", "array"} -> <<Item("unsigned", Len(n.entries), <<>>)>>

Streams(n, i) == [k \in 1..(Len(Entries(n)) - i) |-> Stream(Entries(n)[i + k])]
Rest(n, i) == FlattenSeq(Streams(n, i))

\* Sequences flatten from the front too, by induction on their number.
FlattensFirst(n) ==
    \A t, s :
        t = [i \in 1..(n + 1) |-> t[i]] /\ s = [i \in 1..n |-> s[i]] /\ AllSequences(t, n + 1)
            /\ (\A i \in 1..n : s[i] = t[i + 1])
        => FlattenSeq(t) = t[1] \o FlattenSeq(s)

\* The induction begins with one sequence,
LEMMA FlattenOne == FlattensFirst(0)
<1>1. PICK n \in Nat : n = 0
  OBVIOUS
<1> SUFFICES ASSUME NEW t, t = [i \in 1..(n + 1) |-> t[i]], NEW s, s = [i \in 1..n |-> s[i]],
                    AllSequences(t, n + 1)
             PROVE  FlattenSeq(t) = t[1] \o FlattenSeq(s)
  <2>1. FlattensFirst(n) => FlattensFirst(0)
    BY <1>1
  <2> QED BY <2>1 DEF FlattensFirst
<1>3. FlattenSeq(t) = FlattenSeq(s) \o t[n + 1]
  <2>1. \A i \in 1..n : s[i] = t[i]
    BY <1>1
  <2> QED BY <2>1, FlattensNext
<1>4. s = <<>>
  BY <1>1
<1>5. FlattenSeq(s) = <<>>
  BY <1>4, FlattenNone
<1>6. PICK a : a = t[1]
  OBVIOUS
<1>7. IsSequence(a)
  BY <1>1, <1>6 DEF AllSequences
<1>8. <<>> \o a = a /\ a \o <<>> = a
  BY <1>7, Concats
<1> QED BY <1>1, <1>3, <1>5, <1>6, <1>8

\* goes on with one more,
LEMMA FlattenMore ==
    ASSUME NEW n \in Nat, FlattensFirst(n)
    PROVE  FlattensFirst(n + 1)
<1>1. PICK m \in Nat : m = n + 1
  OBVIOUS
<1> SUFFICES ASSUME NEW t, t = [i \in 1..(m + 1) |-> t[i]], NEW s, s = [i \in 1..m |-> s[i]],
                    AllSequences(t, m + 1), \A i \in 1..m : s[i] = t[i + 1]
             PROVE  FlattenSeq(t) = t[1] \o FlattenSeq(s)
  <2>1. FlattensFirst(m) => FlattensFirst(n + 1)
    BY <1>1
  <2> QED BY <2>1 DEF FlattensFirst
<1>2. PICK u : u = [i \in 1..m |-> t[i]]
  OBVIOUS
<1>3. PICK r : r = [i \in 1..n |-> s[i]]
  OBVIOUS
<1>4. u = [i \in 1..m |-> u[i]] /\ \A i \in 1..m : u[i] = t[i]
  BY <1>2
<1>5. r = [i \in 1..n |-> r[i]] /\ \A i \in 1..n : r[i] = s[i]
  BY <1>3
<1>6. /\ (\A i \in 1..m : i \in 1..(m + 1) /\ i + 1 \in 1..(m + 1)) /\ (\A i \in 1..n : i \in 1..m /\ i + 1 \in 1..m)
      /\ 1 \in 1..m /\ m \in 1..m
  BY <1>1
<1>7. AllSequences(u, m) /\ AllSequences(s, m)
  BY <1>4, <1>6 DEF AllSequences
<1>8. \A i \in 1..n : r[i] = u[i + 1]
  BY <1>4, <1>5, <1>6
<1>9. FlattenSeq(u) = u[1] \o FlattenSeq(r)
  <2>1. u = [i \in 1..(n + 1) |-> u[i]] /\ AllSequences(u, n + 1)
    BY <1>1, <1>4, <1>7
  <2> QED BY <1>5, <1>8, <2>1 DEF FlattensFirst
<1>10. FlattenSeq(t) = FlattenSeq(u) \o t[m + 1]
  BY <1>4, FlattensNext
<1>11. FlattenSeq(s) = FlattenSeq(r) \o s[n + 1]
  <2>1. s = [i \in 1..(n + 1) |-> s[i]] /\ AllSequences(s, n + 1)
    BY <1>1, <1>7
  <2> QED BY <1>5, <2>1, FlattensNext
<1>12. PICK a : a = t[1]
  OBVIOUS
<1>13. PICK f : f = FlattenSeq(r)
  OBVIOUS
<1>14. PICK l : l = t[m + 1]
  OBVIOUS
<1>15. u[1] = a /\ s[n + 1] = l
  BY <1>1, <1>4, <1>6, <1>12, <1>14
<1>16. IsSequence(a) /\ IsSequence(f) /\ IsSequence(l)
  <2>1. AllSequences(r, n)
    BY <1>5, <1>6, <1>7 DEF AllSequences
  <2>2. IsSequence(f)
    BY <1>5, <1>13, <2>1, FlattensTo
  <2>3. 1 \in 1..(m + 1) /\ m + 1 \in 1..(m + 1)
    OBVIOUS
  <2> QED BY <1>12, <1>14, <2>2, <2>3 DEF AllSequences
<1>17. (a \o f) \o l = a \o (f \o l)
  BY ONLY <1>16, Associates, SMTT(40)
<1> QED BY <1>9, <1>10, <1>11, <1>12, <1>13, <1>14, <1>15, <1>17

\* and reaches every number of them.
LEMMA FlattenFirst == \A n \in Nat : FlattensFirst(n)
<1> DEFINE S == {n \in Nat : FlattensFirst(n)}
<1>1. 0 \in S
  BY FlattenOne
<1>2. \A n \in Nat : n \in S => n + 1 \in S
  BY FlattenMore
<1>3. \A n \in Nat : n \in S
  <2> HIDE DEF S
  <2> QED BY <1>1, <1>2, Joining!NatSet
<1> QED BY <1>3

\* Nodes are written from depth 0 to an RDB stream.
LEMMA SaveIs ==
    ASSUME NEW n, Visited(n)
    PROVE  /\ Save \in Visitors /\ Save.kind = "rdb" /\ Within(n, 0)
           /\ Len(Entries(n)) \in Nat
           /\ \A i \in 1..Len(Entries(n)) : Visited(Entries(n)[i]) /\ IsSequence(Stream(Entries(n)[i]))
<1>1. Save \in Visitors /\ Save.kind = "rdb"
  BY DEF Visitors, Save, Visitor
<1>2. Within(n, 0)
  <2>1. CASE n \in Docs
    <3>1. n.type # "keyval"
      BY <2>1, DocsAre DEF ScalarTypes
    <3>2. DepthOf(n) \in Nat /\ DepthOf(n) <= Deepest
      BY <2>1, DocsAre
    <3> QED BY <3>1, <3>2 DEF Within, Height
  <2>2. CASE n \notin Docs
    <3>1. PICK d, i : IsMember(n, d, i)
      BY <2>2 DEF Visited
    <3>2. PICK e : e = d.entries[i]
      OBVIOUS
    <3>3. e \in Docs /\ Height(n) = DepthOf(e)
      BY <3>1, <3>2, MembersAre
    <3>4. DepthOf(e) \in Nat /\ DepthOf(e) <= Deepest
      BY <3>3, DocsAre
    <3> QED BY <3>3, <3>4 DEF Within
  <2> QED BY <2>1, <2>2
<1>3. Deeper(Save, n) = 0
  BY <1>1 DEF Deeper
<1>4. ChildrenWritten(Save, n, 0)
  BY <1>1, <1>2, Whole
<1>5. \A i \in 1..Len(Entries(n)) : IsSequence(Stream(Entries(n)[i]))
  <2>1. PICK d : d = 0 + Deeper(Save, n)
    OBVIOUS
  <2>2. d = 0
    BY <1>3, <2>1
  <2>3. \A i \in 1..Len(Entries(n)) : IsSequence(Meaning(Save, Entries(n)[i], d))
    BY <1>4, <2>1 DEF ChildrenWritten
  <2> QED BY <2>2, <2>3 DEF Stream
<1> QED BY <1>1, <1>2, <1>5, ChildrenAre

\* The streams of the children that are left.
LEMMA StreamsAre ==
    ASSUME NEW n, Visited(n), NEW i \in 0..Len(Entries(n)), NEW k \in Nat, k = Len(Entries(n)) - i
    PROVE  /\ Streams(n, i) = [j \in 1..k |-> Streams(n, i)[j]]
           /\ \A j \in 1..k : Streams(n, i)[j] = Stream(Entries(n)[i + j])
           /\ AllSequences(Streams(n, i), k) /\ IsSequence(Rest(n, i))
<1>1. PICK s : s = [j \in 1..k |-> Stream(Entries(n)[i + j])]
  OBVIOUS
<1>2. s = [j \in 1..k |-> s[j]] /\ \A j \in 1..k : s[j] = Stream(Entries(n)[i + j])
  BY <1>1
<1>3. s = Streams(n, i)
  BY <1>1 DEF Streams
<1>4. AllSequences(s, k)
  <2>1. Len(Entries(n)) \in Nat
    BY SaveIs
  <2>2. \A j \in 1..k : i + j \in 1..Len(Entries(n))
    BY <2>1
  <2>3. ASSUME NEW j \in 1..k PROVE IsSequence(s[j])
    <3>1. PICK m \in 1..Len(Entries(n)) : m = i + j
      BY <2>2
    <3>2. IsSequence(Stream(Entries(n)[m]))
      BY SaveIs
    <3> QED BY <1>2, <3>1, <3>2
  <2> QED BY <2>3 DEF AllSequences
<1>5. IsSequence(FlattenSeq(s))
  BY <1>2, <1>4, FlattensTo
<1> QED BY <1>2, <1>3, <1>4, <1>5 DEF Rest

\* One child less is left.
LEMMA RestNext ==
    ASSUME NEW n, Visited(n), NEW i \in Nat, i < Len(Entries(n))
    PROVE  /\ Rest(n, i) = Stream(Entries(n)[i + 1]) \o Rest(n, i + 1)
           /\ IsSequence(Stream(Entries(n)[i + 1])) /\ IsSequence(Rest(n, i + 1)) /\ IsSequence(Rest(n, i))
           /\ Visited(Entries(n)[i + 1])
<1>1. Len(Entries(n)) \in Nat
  BY SaveIs
<1>2. PICK k \in Nat : k = Len(Entries(n)) - (i + 1)
  <2>1. PICK l \in Nat : l = Len(Entries(n)) /\ i < l
    BY <1>1
  <2>2. l - (i + 1) \in Nat
    BY <2>1
  <2> QED BY <2>1, <2>2
<1>3. i \in 0..Len(Entries(n)) /\ k + 1 = Len(Entries(n)) - i /\ k + 1 \in Nat
  BY <1>1, <1>2
<1>4. PICK m \in 0..Len(Entries(n)) : m = i + 1 /\ k = Len(Entries(n)) - m
  BY <1>1, <1>2
<1>5. PICK t : t = Streams(n, i)
  OBVIOUS
<1>6. PICK s : s = Streams(n, m)
  OBVIOUS
<1>7. PICK K \in Nat : K = k + 1 /\ K = Len(Entries(n)) - i
  BY <1>3
<1>8. /\ t = [j \in 1..K |-> t[j]] /\ (\A j \in 1..K : t[j] = Stream(Entries(n)[i + j]))
      /\ AllSequences(t, K) /\ IsSequence(Rest(n, i))
  BY <1>3, <1>5, <1>7, StreamsAre
<1>9. /\ s = [j \in 1..k |-> s[j]] /\ (\A j \in 1..k : s[j] = Stream(Entries(n)[m + j]))
      /\ IsSequence(Rest(n, m))
  BY <1>4, <1>6, StreamsAre
<1>10. \A j \in 1..k : s[j] = t[j + 1]
  <2>1. \A j \in 1..k : j + 1 \in 1..K /\ m + j = i + (j + 1)
    BY <1>4, <1>7
  <2> QED BY <1>8, <1>9, <2>1
<1>11. FlattenSeq(t) = t[1] \o FlattenSeq(s)
  <2>1. t = [j \in 1..(k + 1) |-> t[j]] /\ AllSequences(t, k + 1)
    BY <1>7, <1>8
  <2>2. FlattensFirst(k)
    BY FlattenFirst
  <2> QED BY <1>9, <1>10, <2>1, <2>2 DEF FlattensFirst
<1>12. t[1] = Stream(Entries(n)[i + 1])
  <2>1. 1 \in 1..K
    BY <1>7
  <2> QED BY <1>8, <2>1
<1>13. i + 1 \in 1..Len(Entries(n))
  BY <1>1
<1> QED BY <1>4, <1>5, <1>6, <1>8, <1>9, <1>11, <1>12, <1>13, SaveIs DEF Rest

\* Nothing is left after the last one.
LEMMA RestNone ==
    ASSUME NEW n, Visited(n)
    PROVE  Rest(n, Len(Entries(n))) = <<>>
<1>1. Len(Entries(n)) \in Nat
  BY SaveIs
<1>2. Len(Entries(n)) - Len(Entries(n)) = 0
  BY <1>1
<1>3. Streams(n, Len(Entries(n))) = <<>>
  BY <1>2 DEF Streams
<1> QED BY <1>3, FlattenNone DEF Rest

\* The stream of a node: its type, its value and its children.
LEMMA StreamIs ==
    ASSUME NEW n, Visited(n)
    PROVE  /\ Stream(n) = <<TypeItem(n)>> \o (Payload(n) \o Rest(n, 0))
           /\ IsSequence(Payload(n)) /\ IsSequence(Rest(n, 0)) /\ IsSequence(Stream(n))
<1>1. Save \in Visitors /\ Save.kind = "rdb" /\ Within(n, 0) /\ 0 \in Nat
  BY SaveIs
<1>2. PICK k \in Nat : k = Len(Entries(n))
  BY SaveIs
<1>3. ChildrenWritten(Save, n, 0) /\ Stream(n) = Opening(Save, n, 0, k) \o fEnd(Save, n, 0 + Deeper(Save, n))
  BY <1>1, <1>2, Whole DEF Stream
<1>4. Deeper(Save, n) = 0 /\ \A i : fEnd(Save, n, i) = <<>> /\ fDelim(Save, n, i) = <<>>
  BY <1>1 DEF Deeper, fEnd, fDelim
<1>5. PICK s : s = Streams(n, 0)
  OBVIOUS
<1>6. s = [j \in 1..k |-> s[j]] /\ (\A j \in 1..k : s[j] = Stream(Entries(n)[j])) /\ IsSequence(Rest(n, 0))
  <2>1. 0 \in 0..Len(Entries(n)) /\ k = Len(Entries(n)) - 0 /\ \A j \in 1..k : 0 + j = j
    BY <1>2
  <2>2. PICK z \in 0..Len(Entries(n)) : z = 0
    BY <2>1
  <2>3. /\ Streams(n, z) = [j \in 1..k |-> Streams(n, z)[j]]
        /\ (\A j \in 1..k : Streams(n, z)[j] = Stream(Entries(n)[z + j])) /\ IsSequence(Rest(n, z))
    BY <2>1, <2>2, StreamsAre
  <2> QED BY <1>5, <2>1, <2>2, <2>3
<1>7. PICK p : p = Parts(Save, n, 0, k)
  OBVIOUS
<1>8. p = [j \in 1..k |-> p[j]] /\ \A j \in 1..k : p[j] = Part(Save, n, 0, j)
  BY <1>7 DEF Parts
<1>9. ASSUME NEW j \in 1..k PROVE p[j] = s[j]
  <2>1. PICK c : c = Entries(n)[j]
    OBVIOUS
  <2>2. IsSequence(Stream(c))
    BY <1>2, <2>1, SaveIs
  <2>3. PICK d : d = 0 + Deeper(Save, n)
    OBVIOUS
  <2>4. d = 0
    BY <1>4, <2>3
  <2>5. Delim(Save, n, 0, j) = <<>>
    BY <1>4 DEF Delim
  <2>6. Part(Save, n, 0, j) = <<>> \o Meaning(Save, c, d)
    BY <2>1, <2>3, <2>5 DEF Part
  <2>7. <<>> \o Stream(c) = Stream(c)
    BY <2>2, Concats
  <2> QED BY <1>6, <1>8, <2>1, <2>4, <2>6, <2>7 DEF Stream
<1>10. p = s
  BY <1>6, <1>8, <1>9, SameRule
<1>11. PICK x : x = TypeItem(n)
  OBVIOUS
<1>12. SaveBegin(n) = <<x>> \o Payload(n)
  <2>1. CASE n.type = "null"
    BY <1>11, <2>1 DEF SaveBegin, IsContainer, Payload, TypeItem
  <2>2. CASE n.type = "boolean"
    BY <1>11, <2>2 DEF SaveBegin, IsContainer, Payload, TypeItem
  <2>3. CASE n.type = "integer"
    BY <1>11, <2>3 DEF SaveBegin, IsContainer, Payload, TypeItem
  <2>4. CASE n.type = "number"
    BY <1>11, <2>4 DEF SaveBegin, IsContainer, Payload, TypeItem
  <2>5. CASE n.type \in {"string", "keyval"}
    BY <1>11, <2>5 DEF SaveBegin, IsContainer, Payload, TypeItem
  <2>6. CASE n.type \in {"dict", "array"}
    BY <1>11, <2>6 DEF SaveBegin, IsContainer, Payload, TypeItem
  <2> QED BY <2>1, <2>2, <2>3, <2>4, <2>5, <2>6, VisitedTypes DEF ScalarTypes
<1>13. IsSequence(Payload(n))
  <2>1. \A y : IsSequence(<<y>>) /\ IsSequence(<<>>)
    BY SmallSequences
  <2>2. CASE n.type = "null"
    BY <2>1, <2>2 DEF Payload
  <2>3. CASE n.type = "boolean"
    BY <2>1, <2>3 DEF Payload
  <2>4. CASE n.type = "integer"
    BY <2>1, <2>4 DEF Payload
  <2>5. CASE n.type = "number"
    BY <2>1, <2>5 DEF Payload
  <2>6. CASE n.type \in {"string", "keyval"}
    BY <2>1, <2>6 DEF Payload
  <2>7. CASE n.type \in {"dict", "array"}
    BY <2>1, <2>7 DEF Payload
  <2> QED BY <2>2, <2>3, <2>4, <2>5, <2>6, <2>7, VisitedTypes DEF ScalarTypes
<1>14. PICK f : f = Rest(n, 0)
  OBVIOUS
<1>15. PICK b : b = Payload(n)
  OBVIOUS
<1>16. IsSequence(<<x>>) /\ IsSequence(b) /\ IsSequence(f)
  BY <1>6, <1>13, <1>14, <1>15, SmallSequences
<1>17. (<<x>> \o b) \o f = <<x>> \o (b \o f)
  BY ONLY <1>16, Associates, SMTT(40)
<1>18. Opening(Save, n, 0, k) = (<<x>> \o b) \o f
  BY <1>1, <1>5, <1>7, <1>10, <1>12, <1>14, <1>15 DEF Opening, Rest, fBegin
<1>19. IsSequence((<<x>> \o b) \o f)
  BY <1>16, ThreeSequences
<1>20. Stream(n) = (<<x>> \o b) \o f
  <2>1. Stream(n) = ((<<x>> \o b) \o f) \o <<>>
    BY <1>3, <1>4, <1>18
  <2>2. PICK y : y = (<<x>> \o b) \o f
    OBVIOUS
  <2>3. y \o <<>> = y
    BY <1>19, <2>2, Concats
  <2> QED BY <2>1, <2>2, <2>3
<1> QED BY <1>11, <1>14, <1>15, <1>16, <1>17, <1>19, <1>20

\* A document is made by the constructor of its type.
LEMMA DocsMade ==
    ASSUME NEW n \in Docs
    PROVE  /\ n.type = "null" => n = NullNode
           /\ n.type = "boolean" => n = NewBoolNode(TRUE) \/ n = NewBoolNode(FALSE)
           /\ n.type = "integer" => n = NewIntNode(n.num)
           /\ n.type = "number" => n = NewDoubleNode(n.num)
           /\ n.type = "string" => n = NewStringNode(n.str)
           /\ n.type = "array" => n = NewArrayNode(n.entries)
           /\ n.type = "dict" => /\ n = NewDictNode(n.keys, n.entries)
                                 /\ \A i, j \in DOMAIN n.keys : n.keys[i] = n.keys[j] => i = j
<1>1. WellMade(n)
  BY DocumentsAssumption
<1>2. CASE n = NullNode
  <2>1. n.type = "null"
    BY <1>2 DEF NullNode, New
  <2> QED BY <1>2, <2>1
<1>3. CASE n = NewBoolNode(TRUE) \/ n = NewBoolNode(FALSE)
  <2>1. n.type = "boolean"
    BY <1>3 DEF NewBoolNode, New
  <2> QED BY <1>3, <2>1
<1>4. CASE n = NewIntNode(n.num)
  <2>1. n.type = "integer"
    BY <1>4 DEF NewIntNode, New
  <2> QED BY <1>4, <2>1
<1>5. CASE n = NewDoubleNode(n.num)
  <2>1. n.type = "number"
    BY <1>5 DEF NewDoubleNode, New
  <2> QED BY <1>5, <2>1
<1>6. CASE n = NewStringNode(n.str)
  <2>1. n.type = "string"
    BY <1>6 DEF NewStringNode, New
  <2> QED BY <1>6, <2>1
<1>7. CASE n = NewArrayNode(n.entries)
  <2>1. n.type = "array"
    BY <1>7 DEF NewArrayNode, New
  <2> QED BY <1>7, <2>1
<1>8. CASE /\ n = NewDictNode(n.keys, n.entries)
           /\ \A i, j \in DOMAIN n.keys : n.keys[i] = n.keys[j] => i = j
  <2>1. n.type = "dict"
    BY <1>8 DEF NewDictNode, New
  <2> QED BY <1>8, <2>1
<1> QED BY <1>1, <1>2, <1>3, <1>4, <1>5, <1>6, <1>7, <1>8 DEF WellMade

\* The type of a node is what its code is read as.
LEMMA TypesRead ==
    ASSUME NEW t \in {"null", "string", "number", "integer", "boolean", "dict", "array", "keyval"}
    PROVE  TypeOf(TypeCode[t]) = t
<1>1. DOMAIN TypeCode = {"null", "string", "number", "integer", "boolean", "dict", "array", "keyval"}
  BY DEF TypeCode
<1>2. /\ TypeCode["null"] = 1 /\ TypeCode["string"] = 2 /\ TypeCode["number"] = 4 /\ TypeCode["integer"] = 8
      /\ TypeCode["boolean"] = 16 /\ TypeCode["dict"] = 32 /\ TypeCode["array"] = 64 /\ TypeCode["keyval"] = 128
  BY DEF TypeCode
<1>3. ASSUME NEW u \in DOMAIN TypeCode, TypeCode[u] = TypeCode[t] PROVE u = t
  BY <1>1, <1>2, <1>3
<1>4. t \in DOMAIN TypeCode
  BY <1>1
<1>5. PICK u : u = TypeOf(TypeCode[t])
  OBVIOUS
<1>6. u \in DOMAIN TypeCode /\ TypeCode[u] = TypeCode[t]
  BY <1>4, <1>5 DEF TypeOf
<1> QED BY <1>3, <1>5, <1>6

\* A container with the first i of its children.
Partial(n, i) ==
    CASE n.type = "keyval" -> KeyVal(n.str, IF i = 0 THEN NullNode ELSE n.entries[1])
      [] n.type = "dict" -> New("dict", 0, <<>>, [k \in 1..i |-> n.keys[k]], [k \in 1..i |-> n.entries[k]])
      [] n.type = "array" -> New("array", 0, <<>>, <<>>, [k \in 1..i |-> n.entries[k]])

Containers == {"keyval", "dict", "array"}

\* A container starts without children,
LEMMA PartialNone ==
    ASSUME NEW n
    PROVE  /\ n.type = "keyval" => Partial(n, 0) = KeyVal(n.str, NullNode)
           /\ n.type \in {"dict", "array"} => Partial(n, 0) = New(n.type, 0, <<>>, <<>>, <<>>)
<1>1. CASE n.type = "keyval"
  BY <1>1 DEF Partial
<1>2. PICK z : z = 0
  OBVIOUS
<1>3. \A s : [k \in 1..z |-> s[k]] = <<>>
  BY <1>2
<1>4. CASE n.type = "dict"
  <2>1. Partial(n, z) = New("dict", 0, <<>>, [k \in 1..z |-> n.keys[k]], [k \in 1..z |-> n.entries[k]])
    BY <1>4 DEF Partial
  <2> QED BY <1>2, <1>3, <1>4, <2>1
<1>5. CASE n.type = "array"
  <2>1. Partial(n, z) = New("array", 0, <<>>, <<>>, [k \in 1..z |-> n.entries[k]])
    BY <1>5 DEF Partial
  <2> QED BY <1>2, <1>3, <1>5, <2>1
<1> QED BY <1>1, <1>4, <1>5

\* and is the node when all are in.
LEMMA PartialAll ==
    ASSUME NEW n, Visited(n), n.type \in Containers
    PROVE  Partial(n, Len(Entries(n))) = n
<1>1. PICK k \in Nat : k = Len(Entries(n))
  BY SaveIs
<1>2. CASE n.type = "keyval"
  <2>1. PICK d, i : IsMember(n, d, i)
    BY <1>2, VisitedTypes
  <2>2. PICK e : e = d.entries[i]
    OBVIOUS
  <2>3. PICK key : key = d.keys[i]
    OBVIOUS
  <2>4. n = KeyVal(key, e)
    BY <2>1, <2>2, <2>3 DEF IsMember
  <2>5. n.str = key /\ n.entries[1] = e /\ Len(Entries(n)) = 1
    BY <2>1, <2>2, <2>3, MembersAre
  <2>6. Partial(n, k) = KeyVal(n.str, n.entries[1])
    BY <1>1, <1>2, <2>5 DEF Partial
  <2> QED BY <1>1, <2>4, <2>5, <2>6
<1>3. CASE n.type \in {"dict", "array"}
  <2>1. n \in Docs
    BY <1>3, VisitedTypes
  <2>2. k = Len(n.entries) /\ n.entries = [j \in 1..k |-> n.entries[j]]
    <3>1. n.entries \in Seq(Docs) /\ k = Len(n.entries)
      BY <1>1, <2>1, EntriesAre, DocsAre
    <3> QED BY <3>1
  <2>3. CASE n.type = "array"
    <3>1. n = New("array", 0, <<>>, <<>>, n.entries)
      BY <2>1, <2>3, DocsMade DEF NewArrayNode
    <3>2. Partial(n, k) = New("array", 0, <<>>, <<>>, [j \in 1..k |-> n.entries[j]])
      BY <2>3 DEF Partial
    <3> QED BY <1>1, <2>2, <3>1, <3>2
  <2>4. CASE n.type = "dict"
    <3>1. n = New("dict", 0, <<>>, n.keys, n.entries)
      BY <2>1, <2>4, DocsMade DEF NewDictNode
    <3>2. Partial(n, k) = New("dict", 0, <<>>, [j \in 1..k |-> n.keys[j]], [j \in 1..k |-> n.entries[j]])
      BY <2>4 DEF Partial
    <3>3. n.keys = [j \in 1..k |-> n.keys[j]]
      <4>1. IsSequence(n.keys) /\ Len(n.keys) = k
        BY <2>1, <2>2, <2>4, DocsAre
      <4> QED BY <4>1 DEF IsSequence
    <3> QED BY <1>1, <2>2, <3>1, <3>2, <3>3
  <2> QED BY <1>3, <2>3, <2>4
<1> QED BY <1>2, <1>3 DEF Containers

\* Rules with one more value.
LEMMA RuleNext ==
    ASSUME NEW i \in Nat, NEW s, NEW x, x = s[i + 1]
    PROVE  Append([k \in 1..i |-> s[k]], x) = [k \in 1..(i + 1) |-> s[k]]
<1>1. PICK f : f = [k \in 1..i |-> s[k]]
  OBVIOUS
<1>2. PICK U : U = {s[k] : k \in 1..i} \cup {x}
  OBVIOUS
<1>3. f = [k \in 1..i |-> f[k]] /\ (\A k \in 1..i : f[k] \in U) /\ \A k \in 1..i : f[k] = s[k]
  BY <1>1, <1>2
<1>4. f \in Seq(U) /\ Len(f) = i
  BY <1>3, SequenceByRule
<1>5. x \in U
  BY <1>2
<1>6. PICK g : g = Append(f, x)
  OBVIOUS
<1>7. g \in Seq(U) /\ Len(g) = i + 1 /\ (\A k \in 1..i : g[k] = f[k]) /\ g[i + 1] = x
  <2>1. /\ Append(f, x) \in Seq(U) /\ Len(Append(f, x)) = Len(f) + 1
        /\ (\A k \in 1..Len(f) : Append(f, x)[k] = f[k]) /\ Append(f, x)[Len(f) + 1] = x
    BY <1>4, <1>5, AppendProperties
  <2> QED BY <1>4, <1>6, <2>1
<1>8. PICK h : h = [k \in 1..(i + 1) |-> s[k]]
  OBVIOUS
<1>9. h = [k \in 1..(i + 1) |-> h[k]] /\ \A k \in 1..(i + 1) : h[k] = s[k]
  BY <1>8
<1>10. PICK m \in Nat : m = i + 1
  OBVIOUS
<1>11. g = [k \in 1..m |-> g[k]] /\ h = [k \in 1..m |-> h[k]]
  BY <1>7, <1>9, <1>10
<1>12. ASSUME NEW k \in 1..m PROVE g[k] = h[k]
  <2>1. CASE k = m
    BY <1>7, <1>9, <1>10, <2>1
  <2>2. CASE k # m
    <3>1. k \in 1..i /\ k \in 1..(i + 1)
      BY <1>10, <2>2
    <3> QED BY <1>3, <1>7, <1>9, <3>1
  <2> QED BY <2>1, <2>2
<1>13. g = h
  BY <1>11, <1>12, SameRule
<1> QED BY <1>1, <1>6, <1>8, <1>13

\* The loader adds the next child to a container.
LEMMA PartialNext ==
    ASSUME NEW n, Visited(n), n.type \in Containers, NEW i \in Nat, i < Len(Entries(n))
    PROVE  Added(Partial(n, i), Entries(n)[i + 1]) = Partial(n, i + 1)
<1>1. PICK c : c = Entries(n)[i + 1]
  OBVIOUS
<1>2. PICK p : p = Partial(n, i)
  OBVIOUS
<1>3. i + 1 \in 1..Len(Entries(n)) /\ i + 1 # 0
  BY SaveIs
<1>4. CASE n.type = "keyval"
  <2>1. PICK d, j : IsMember(n, d, j)
    BY <1>4, VisitedTypes
  <2>2. Entries(n) = n.entries /\ Len(n.entries) = 1
    BY <2>1, MembersAre
  <2>3. i = 0 /\ c = n.entries[1]
    BY <1>1, <2>2
  <2>4. p = New("keyval", 0, n.str, <<>>, <<NullNode>>)
    BY <1>2, <1>4, <2>3 DEF Partial, KeyVal
  <2>5. p.type = "keyval" /\ [p EXCEPT !.entries = <<c>>] = New("keyval", 0, n.str, <<>>, <<c>>)
    BY <2>4 DEF New
  <2>6. Added(p, c) = [p EXCEPT !.entries = <<c>>]
    BY <2>5 DEF Added
  <2>7. Partial(n, i + 1) = KeyVal(n.str, c)
    BY <1>3, <1>4, <2>3 DEF Partial
  <2> QED BY <1>1, <1>2, <2>5, <2>6, <2>7 DEF KeyVal
<1>5. CASE n.type \in {"dict", "array"}
  <2>1. n \in Docs
    BY <1>5, VisitedTypes
  <2>2. Len(Entries(n)) = Len(n.entries) /\ i + 1 \in 1..Len(n.entries) /\ Len(n.entries) \in Nat
    BY <1>3, <2>1, EntriesAre, DocsAre
  <2>3. PICK es : es = [k \in 1..i |-> n.entries[k]]
    OBVIOUS
  <2>4. PICK more : more = [k \in 1..(i + 1) |-> n.entries[k]]
    OBVIOUS
  <2>5. \A x : x = n.entries[i + 1] => Append(es, x) = more
    BY <2>3, <2>4, RuleNext
  <2>6. CASE n.type = "array"
    <3>1. c = n.entries[i + 1]
      BY <1>1, <2>1, <2>2, <2>6, EntriesAre
    <3>2. p = New("array", 0, <<>>, <<>>, es)
      BY <1>2, <2>3, <2>6 DEF Partial
    <3>3. p.type = "array" /\ [p EXCEPT !.entries = Append(@, c)] = New("array", 0, <<>>, <<>>, more)
      <4>1. Append(es, c) = more
        BY <2>5, <3>1
      <4>2. p.type = "array" /\ p.entries = es
        BY <3>2 DEF New
      <4>3. [p EXCEPT !.entries = Append(@, c)] = [p EXCEPT !.entries = more]
        BY <4>1, <4>2
      <4>4. [p EXCEPT !.entries = more] = New("array", 0, <<>>, <<>>, more)
        BY <3>2 DEF New
      <4> QED BY <4>2, <4>3, <4>4
    <3>4. Added(p, c) = [p EXCEPT !.entries = Append(@, c)]
      BY <3>3 DEF Added, Node_ArrayAppend
    <3>5. Partial(n, i + 1) = New("array", 0, <<>>, <<>>, more)
      BY <2>4, <2>6 DEF Partial
    <3> QED BY <1>1, <1>2, <3>3, <3>4, <3>5
  <2>7. CASE n.type = "dict"
    <3>1. IsMember(c, n, i + 1)
      BY <1>1, <2>1, <2>2, <2>7, EntriesAre
    <3>2. c.str = n.keys[i + 1] /\ c.entries[1] = n.entries[i + 1]
      BY <3>1, MembersAre
    <3>3. PICK ks : ks = [k \in 1..i |-> n.keys[k]]
      OBVIOUS
    <3>4. PICK mk : mk = [k \in 1..(i + 1) |-> n.keys[k]]
      OBVIOUS
    <3>5. Append(ks, c.str) = mk /\ Append(es, c.entries[1]) = more
      <4>1. Append(ks, c.str) = mk
        BY <3>2, <3>3, <3>4, RuleNext
      <4>2. Append(es, c.entries[1]) = more
        BY <2>5, <3>2
      <4> QED BY <4>1, <4>2
    <3>6. p = New("dict", 0, <<>>, ks, es)
      BY <1>2, <2>3, <2>7, <3>3 DEF Partial
    <3>7. p.type = "dict" /\ p.keys = ks
          /\ [p EXCEPT !.keys = Append(@, c.str), !.entries = Append(@, c.entries[1])] = New("dict", 0, <<>>, mk, more)
      <4>1. p.type = "dict" /\ p.keys = ks /\ p.entries = es
        BY <3>6 DEF New
      <4>2. PICK h : h = Append(ks, c.str) /\ h = mk
        BY <3>5
      <4>3. PICK g : g = Append(es, c.entries[1]) /\ g = more
        BY <3>5
      <4>4. [p EXCEPT !.keys = Append(@, c.str), !.entries = Append(@, c.entries[1])] = [p EXCEPT !.keys = h, !.entries = g]
        BY <4>1, <4>2, <4>3
      <4>5. [p EXCEPT !.keys = h, !.entries = g] = New("dict", 0, <<>>, h, g)
        <5>1. PICK x : x = "dict"
          OBVIOUS
        <5>2. PICK e : e = <<>>
          OBVIOUS
        <5>3. p = New(x, 0, e, ks, es)
          BY <3>6, <5>1, <5>2
        <5>4. PICK f : f = [p EXCEPT !.keys = h]
          OBVIOUS
        <5>5. f = New(x, 0, e, h, es)
          BY <5>3, <5>4 DEF New
        <5>6. [f EXCEPT !.entries = g] = New(x, 0, e, h, g)
          BY <5>5 DEF New
        <5>7. [p EXCEPT !.keys = h, !.entries = g] = [f EXCEPT !.entries = g]
          BY <5>4
        <5> QED BY <5>1, <5>2, <5>6, <5>7
      <4> QED BY <4>1, <4>2, <4>3, <4>4, <4>5
    <3>8. ~HasKey(p, c.str)
      <4>1. DOMAIN n.keys = 1..Len(n.entries)
        <5>1. IsSequence(n.keys) /\ Len(n.keys) = Len(n.entries)
          BY <2>1, <2>7, DocsAre
        <5> QED BY <5>1 DEF IsSequence
      <4>2. \A k \in 1..i : k \in 1..Len(n.entries) /\ k # i + 1
        BY <2>2
      <4>3. \A k \in 1..i : n.keys[k] # n.keys[i + 1]
        BY <2>1, <2>2, <2>7, <4>1, <4>2, DocsMade
      <4>4. DOMAIN p.keys = 1..i /\ \A k \in 1..i : p.keys[k] = n.keys[k]
        BY <3>3, <3>7
      <4> QED BY <3>2, <4>3, <4>4 DEF HasKey, Positions
    <3>9. Added(p, c) = Node_DictSetKeyVal(p, c)
      BY <3>7 DEF Added
    <3>10. Node_DictSetKeyVal(p, c) = [p EXCEPT !.keys = Append(@, c.str), !.entries = Append(@, c.entries[1])]
      BY <3>8 DEF Node_DictSetKeyVal, Node_DictSet
    <3>11. Partial(n, i + 1) = New("dict", 0, <<>>, mk, more)
      BY <2>4, <2>7, <3>4 DEF Partial
    <3> QED BY <1>1, <1>2, <3>7, <3>9, <3>10, <3>11
  <2> QED BY <1>5, <2>6, <2>7
<1> QED BY <1>4, <1>5 DEF Containers

\* What the loader reads next.
LEMMA HeadIs ==
    ASSUME NEW x, NEW r, IsSequence(r)
    PROVE  LET s == <<x>> \o r IN s # <<>> /\ Head(s) = x /\ Tail(s) = r
<1>1. PICK U : U = {x} \cup Range(r)
  OBVIOUS
<1>2. r \in Seq(U)
  BY <1>1, SequenceWithin
<1>3. PICK e : e = <<x>>
  OBVIOUS
<1>4. e \in Seq(U) /\ Len(e) = 1 /\ e[1] = x
  BY <1>1, <1>3
<1>5. PICK s : s = e \o r
  OBVIOUS
<1>6. PICK k \in Nat : k = Len(r)
  BY <1>2
<1>7. /\ s \in Seq(U) /\ Len(s) = 1 + k
      /\ \A i \in 1..(1 + k) : s[i] = IF i <= 1 THEN e[i] ELSE r[i - 1]
  <2>1. /\ s \in Seq(U) /\ Len(s) = Len(e) + Len(r)
        /\ \A i \in 1..(Len(e) + Len(r)) : s[i] = IF i <= Len(e) THEN e[i] ELSE r[i - Len(e)]
    BY <1>2, <1>4, <1>5, ConcatProperties
  <2> QED BY <1>4, <1>6, <2>1
<1>8. s[1] = x /\ \A i \in 1..k : s[i + 1] = r[i]
  <2>1. 1 \in 1..(1 + k) /\ 1 <= 1 /\ \A i \in 1..k : i + 1 \in 1..(1 + k) /\ ~(i + 1 <= 1) /\ (i + 1) - 1 = i
    OBVIOUS
  <2> QED BY <1>4, <1>7, <2>1
<1>9. s # <<>> /\ Head(s) = s[1]
  BY <1>7
<1>10. PICK t : t = Tail(s)
  OBVIOUS
<1>11. t \in Seq(U) /\ Len(t) = k /\ \A i \in 1..k : t[i] = s[i + 1]
  <2>1. t \in Seq(U) /\ Len(t) = Len(s) - 1 /\ \A i \in 1..Len(t) : t[i] = s[i + 1]
    BY <1>7, <1>9, <1>10, HeadTailProperties
  <2>2. Len(t) = k
    BY <1>7, <2>1
  <2> QED BY <2>1, <2>2
<1>12. t = r
  BY <1>2, <1>6, <1>8, <1>11, SeqEqual
<1> QED BY <1>3, <1>5, <1>8, <1>9, <1>10, <1>12

LoaderFields == {"state", "type", "nodes", "indices", "node", "rdb"}
IsLoader(l) == DOMAIN l = LoaderFields

\* A node is next in the stream, before w; and what reading its type makes of
\* the loader.
Ahead(l, c, w) == ld.rdb = Stream(c) \o w /\ l.rdb = ld.rdb

TypeKnown(q, l, c, w) ==
    /\ IsLoader(q) /\ q.state = "BEGIN_VALUE" /\ q.type = c.type
    /\ q.rdb = (Payload(c) \o Rest(c, 0)) \o w
    /\ q.nodes = l.nodes /\ q.indices = l.indices

\* The loader reads it.
LEMMA TypeRead ==
    ASSUME NEW l, IsLoader(l), NEW c, Visited(c), NEW w, IsSequence(w), Ahead(l, c, w)
    PROVE  TypeKnown(ReadType(l), l, c, w)
<1>0. ld.rdb = Stream(c) \o w /\ l.rdb = ld.rdb
  BY DEF Ahead
<1>20. PICK q : q = ReadType(l)
  OBVIOUS
<1>1. PICK x : x = TypeItem(c)
  OBVIOUS
<1>2. PICK b : b = Payload(c) \o Rest(c, 0)
  OBVIOUS
<1>3. PICK z : z = <<x>>
  OBVIOUS
<1>4. Stream(c) = z \o b /\ IsSequence(z) /\ IsSequence(b) /\ IsSequence(w)
  <2>1. IsSequence(b)
    BY <1>2, StreamIs, Concats
  <2>2. IsSequence(z)
    BY <1>3, SmallSequences
  <2> QED BY <1>1, <1>2, <1>3, <2>1, <2>2, StreamIs
<1>5. (z \o b) \o w = z \o (b \o w)
  BY ONLY <1>4, Associates, SMTT(40)
<1>6. PICK r : r = b \o w
  OBVIOUS
<1>7. IsSequence(r)
  BY <1>4, <1>6, Concats
<1>8. PICK s : s = ld.rdb
  OBVIOUS
<1>9. s = <<x>> \o r
  BY <1>0, <1>3, <1>4, <1>5, <1>6, <1>8
<1>10. s # <<>> /\ Head(s) = x /\ Tail(s) = r
  BY <1>7, <1>9, HeadIs
<1>11. x.kind = "unsigned" /\ x.num = TypeCode[c.type]
  BY <1>1 DEF TypeItem, Item
<1>12. TypeOf(x.num) = c.type
  <2>1. c.type \in {"null", "string", "number", "integer", "boolean", "dict", "array", "keyval"}
    BY VisitedTypes DEF ScalarTypes
  <2> QED BY <1>11, <2>1, TypesRead
<1>13. Reads("unsigned")
  BY <1>8, <1>10, <1>11 DEF Reads
<1>14. q = [l EXCEPT !.type = TypeOf(x.num), !.rdb = Tail(@), !.state = "BEGIN_VALUE"]
  BY <1>20, <1>8, <1>10, <1>13 DEF ReadType
<1>15. Tail(l.rdb) = r
  BY <1>0, <1>8, <1>10
<1>16. PICK y : y = TypeOf(x.num)
  OBVIOUS
<1>17. /\ IsLoader(q) /\ q.state = "BEGIN_VALUE" /\ q.type = y /\ q.rdb = Tail(l.rdb)
       /\ q.nodes = l.nodes /\ q.indices = l.indices
  BY <1>14, <1>16 DEF IsLoader, LoaderFields
<1>18. TypeKnown(q, l, c, w)
  BY <1>2, <1>6, <1>12, <1>15, <1>16, <1>17 DEF TypeKnown
<1> QED BY <1>18, <1>20

\* What is written of a scalar is read as the scalar.
ReadAs(s, c, w) ==
    s # <<>> /\ Head(s).kind = ItemKind[c.type] /\ ScalarNode(c.type, Head(s)) = c /\ Tail(s) = w

\* Every scalar that a node of the document can be.
LEMMA ScalarRead ==
    ASSUME NEW c, Visited(c), c.type \in DOMAIN ItemKind, NEW w, IsSequence(w)
    PROVE  ReadAs((Payload(c) \o Rest(c, 0)) \o w, c, w)
<1>0. PICK s : s = (Payload(c) \o Rest(c, 0)) \o w
  OBVIOUS
<1>1. DOMAIN ItemKind = {"boolean", "integer", "number", "string"}
  BY DEF ItemKind
<1>2. c \in Docs /\ c.type \in ScalarTypes /\ c.type # "dict"
  BY <1>1, VisitedTypes DEF ScalarTypes
<1>3. Rest(c, 0) = <<>>
  <2>1. Len(Entries(c)) = Len(c.entries) /\ c.entries = <<>>
    BY <1>2, EntriesAre, DocsAre
  <2>2. Len(Entries(c)) = 0
    BY <2>1
  <2> QED BY <2>2, RestNone
<1>4. PICK b : b = Payload(c)
  OBVIOUS
<1>5. IsSequence(b)
  BY <1>4, StreamIs
<1>6. s = b \o w
  BY <1>0, <1>3, <1>4, <1>5, Concats
<1>7. ASSUME NEW x, b = <<x>> PROVE s # <<>> /\ Head(s) = x /\ Tail(s) = w
  BY <1>6, <1>7, HeadIs
<1>8. CASE c.type = "boolean"
  <2>1. PICK x : x = Item("string", 0, IF c.num = 1 THEN <<"1">> ELSE <<"0">>)
    OBVIOUS
  <2>2. b = <<x>>
    BY <1>4, <1>8, <2>1 DEF Payload
  <2>3. x.kind = "string" /\ x.str = IF c.num = 1 THEN <<"1">> ELSE <<"0">>
    BY <2>1 DEF Item
  <2>4. (Head(x.str) = "1") <=> c.num = 1
    BY <2>3
  <2>5. c = NewBoolNode(TRUE) \/ c = NewBoolNode(FALSE)
    BY <1>2, <1>8, DocsMade
  <2>6. c = NewBoolNode(c.num = 1)
    BY <2>5 DEF NewBoolNode, New
  <2>7. ScalarNode(c.type, x) = NewBoolNode(Head(x.str) = "1")
    BY <1>8 DEF ScalarNode
  <2>8. ScalarNode(c.type, x) = c
    <3>1. CASE c.num = 1
      BY <2>4, <2>6, <2>7, <3>1 DEF NewBoolNode
    <3>2. CASE c.num # 1
      BY <2>4, <2>6, <2>7, <3>2 DEF NewBoolNode
    <3> QED BY <3>1, <3>2
  <2>9. ItemKind[c.type] = "string"
    BY <1>8 DEF ItemKind
  <2> QED BY <1>0, <1>7, <2>2, <2>3, <2>8, <2>9 DEF ReadAs
<1>9. CASE c.type = "integer"
  <2>1. PICK x : x = Item("signed", c.num, <<>>)
    OBVIOUS
  <2>2. b = <<x>>
    BY <1>4, <1>9, <2>1 DEF Payload
  <2>3. x.kind = "signed" /\ x.num = c.num
    BY <2>1 DEF Item
  <2>4. c = NewIntNode(c.num)
    BY <1>2, <1>9, DocsMade
  <2>5. ScalarNode(c.type, x) = NewIntNode(x.num) /\ ItemKind[c.type] = "signed"
    BY <1>9 DEF ScalarNode, ItemKind
  <2> QED BY <1>0, <1>7, <2>2, <2>3, <2>4, <2>5 DEF ReadAs
<1>10. CASE c.type = "number"
  <2>1. PICK x : x = Item("double", c.num, <<>>)
    OBVIOUS
  <2>2. b = <<x>>
    BY <1>4, <1>10, <2>1 DEF Payload
  <2>3. x.kind = "double" /\ x.num = c.num
    BY <2>1 DEF Item
  <2>4. c = NewDoubleNode(c.num)
    BY <1>2, <1>10, DocsMade
  <2>5. ScalarNode(c.type, x) = NewDoubleNode(x.num) /\ ItemKind[c.type] = "double"
    BY <1>10 DEF ScalarNode, ItemKind
  <2> QED BY <1>0, <1>7, <2>2, <2>3, <2>4, <2>5 DEF ReadAs
<1>11. CASE c.type = "string"
  <2>1. PICK x : x = Item("string", 0, c.str)
    OBVIOUS
  <2>2. b = <<x>>
    BY <1>4, <1>11, <2>1 DEF Payload
  <2>3. x.kind = "string" /\ x.str = c.str
    BY <2>1 DEF Item
  <2>4. c = NewStringNode(c.str)
    BY <1>2, <1>11, DocsMade
  <2>5. ScalarNode(c.type, x) = NewStringNode(x.str) /\ ItemKind[c.type] = "string"
    BY <1>11 DEF ScalarNode, ItemKind
  <2> QED BY <1>0, <1>7, <2>2, <2>3, <2>4, <2>5 DEF ReadAs
<1> QED BY <1>1, <1>8, <1>9, <1>10, <1>11

-----------------------------------------------------------------------------
(* What the loader has still to do.                                        *)

Stack(s, t) == s = [k \in 1..t |-> s[k]]

\* A container of which i children have been read and the next one, child, is
\* being read: what it is on the stacks, and what comes after the child.
Filling(n, i, w, m, x, child, after) ==
    /\ n.type \in Containers /\ i \in Nat /\ i < Len(Entries(n))
    /\ m = Partial(n, i) /\ x = Len(Entries(n)) - (i + 1)
    /\ child = Entries(n)[i + 1] /\ after = Rest(n, i + 1) \o w

\* The way down from the document to the t-th node, and after each of them
\* what comes after it in the stream.
Pending(t, root, n, i, a, nodes, indices) ==
    /\ n[1] = root /\ a[1] = <<>>
    /\ \A k \in 1..t : Visited(n[k]) /\ IsSequence(a[k])
    /\ \A k \in 1..(t - 1) : Filling(n[k], i[k], a[k], nodes[k], indices[k], n[k + 1], a[k + 1])

\* The t-th node is read, from its type on or to its end.
Loaded(l, t, c, w) ==
    /\ Stack(l.nodes, t - 1) /\ Stack(l.indices, t - 1)
    /\ \/ l.state = "INIT" /\ l.rdb = Stream(c) \o w
       \/ l.state = "BEGIN_VALUE" /\ l.type = c.type /\ l.rdb = (Payload(c) \o Rest(c, 0)) \o w
       \/ l.state = "END_VALUE" /\ l.node = c /\ l.rdb = w

\* It is on the stacks, and i of its children have been read.
Filled(l, t, c, w, i) ==
    /\ Stack(l.nodes, t) /\ Stack(l.indices, t)
    /\ l.state = "CONTAINER" /\ c.type \in Containers /\ i \in 0..Len(Entries(c))
    /\ l.nodes[t] = Partial(c, i) /\ l.indices[t] = Len(Entries(c)) - i
    /\ l.rdb = Rest(c, i) \o w

Unfinished(l, root) == \E t \in Nat : \E n, i, a :
    /\ t > 0 /\ Pending(t, root, n, i, a, l.nodes, l.indices)
    /\ Loaded(l, t, n[t], a[t]) \/ \E j : Filled(l, t, n[t], a[t], j)

\* A load of a document.
Loading(l, root) ==
    /\ IsLoader(l) /\ root \in Docs
    /\ l.state \in {"INIT", "BEGIN_VALUE", "END_VALUE", "CONTAINER", "END", "REFUSED"}
    /\ l.state = "END" => l.node = root /\ l.rdb = <<>>
    /\ l.state \notin {"END", "REFUSED"} => Unfinished(l, root)

\* Stacks that are the same below the t-th node.
LEMMA PendingSame ==
    ASSUME NEW t \in Nat, t > 0, NEW root, NEW n, NEW i, NEW a, NEW s, NEW x, Pending(t, root, n, i, a, s, x),
           NEW q, NEW y, \A k \in 1..(t - 1) : q[k] = s[k] /\ y[k] = x[k]
    PROVE  Pending(t, root, n, i, a, q, y)
BY DEF Pending

\* From a node that is being read to a child.
LEMMA PendingMore ==
    ASSUME NEW t \in Nat, t > 0, NEW root, NEW n, NEW i, NEW a, NEW s, NEW x, Pending(t, root, n, i, a, s, x),
           NEW c, NEW w, NEW j, Visited(c), IsSequence(w), Filling(n[t], j, a[t], s[t], x[t], c, w)
    PROVE  \E m, h, b : Pending(t + 1, root, m, h, b, s, x) /\ m[t + 1] = c /\ b[t + 1] = w
<1>1. PICK u \in Nat : u = t + 1
  OBVIOUS
<1>2. PICK m : m = [k \in 1..u |-> IF k = u THEN c ELSE n[k]]
  OBVIOUS
<1>3. PICK h : h = [k \in 1..u |-> IF k = t THEN j ELSE i[k]]
  OBVIOUS
<1>4. PICK b : b = [k \in 1..u |-> IF k = u THEN w ELSE a[k]]
  OBVIOUS
<1>5. /\ m[u] = c /\ b[u] = w /\ h[t] = j
      /\ \A k \in 1..t : m[k] = n[k] /\ b[k] = a[k]
      /\ \A k \in 1..(t - 1) : h[k] = i[k]
  BY <1>1, <1>2, <1>3, <1>4
<1>6. 1 \in 1..t /\ t \in 1..t /\ t \in 1..u /\ \A k \in 1..(t - 1) : k \in 1..t /\ k + 1 \in 1..t
  BY <1>1
<1>7. m[1] = root /\ b[1] = <<>>
  BY <1>5, <1>6 DEF Pending
<1>8. ASSUME NEW k \in 1..u PROVE Visited(m[k]) /\ IsSequence(b[k])
  <2>1. CASE k = u
    BY <1>5, <2>1
  <2>2. CASE k # u
    <3>1. k \in 1..t
      BY <1>1, <2>2
    <3> QED BY <1>5, <3>1 DEF Pending
  <2> QED BY <2>1, <2>2
<1>9. ASSUME NEW k \in 1..(u - 1)
      PROVE  Filling(m[k], h[k], b[k], s[k], x[k], m[k + 1], b[k + 1])
  <2>1. CASE k = t
    BY <1>1, <1>5, <1>6, <2>1
  <2>2. CASE k # t
    <3>1. k \in 1..(t - 1)
      BY <1>1, <2>2
    <3>2. Filling(n[k], i[k], a[k], s[k], x[k], n[k + 1], a[k + 1])
      BY <3>1 DEF Pending
    <3> QED BY <1>5, <1>6, <3>1, <3>2
  <2> QED BY <2>1, <2>2
<1>10. Pending(u, root, m, h, b, s, x)
  BY <1>7, <1>8, <1>9 DEF Pending
<1> QED BY <1>1, <1>5, <1>10

\* And back.
LEMMA PendingLess ==
    ASSUME NEW t \in Nat, t > 0, NEW root, NEW n, NEW i, NEW a, NEW s, NEW x,
           Pending(t + 1, root, n, i, a, s, x)
    PROVE  /\ Pending(t, root, n, i, a, s, x)
           /\ Filling(n[t], i[t], a[t], s[t], x[t], n[t + 1], a[t + 1])
<1>1. t \in 1..((t + 1) - 1) /\ (\A k \in 1..t : k \in 1..(t + 1)) /\ \A k \in 1..(t - 1) : k \in 1..((t + 1) - 1)
  OBVIOUS
<1> QED BY <1>1 DEF Pending

\* What is known of the t-th node.
LEMMA PendingTop ==
    ASSUME NEW t \in Nat, t > 0, NEW root, NEW n, NEW i, NEW a, NEW s, NEW x, Pending(t, root, n, i, a, s, x)
    PROVE  Visited(n[t]) /\ IsSequence(a[t]) /\ (t = 1 => n[t] = root /\ a[t] = <<>>)
BY DEF Pending

\* What the operations on a stack do to it.
LEMMA StackIs ==
    ASSUME NEW t \in Nat, NEW s, Stack(s, t)
    PROVE  /\ Len(s) = t /\ (s = <<>> <=> t = 0)
           /\ t > 0 => /\ Last(s) = s[t] /\ Stack(Front(s), t - 1)
                       /\ \A k \in 1..(t - 1) : Front(s)[k] = s[k]
           /\ \A x : /\ Stack(Append(s, x), t + 1) /\ Append(s, x)[t + 1] = x
                     /\ \A k \in 1..t : Append(s, x)[k] = s[k]
<1>1. PICK U : U = {s[k] : k \in 1..t}
  OBVIOUS
<1>2. s = [k \in 1..t |-> s[k]]
  BY DEF Stack
<1>3. s \in Seq(U) /\ Len(s) = t
  BY <1>1, <1>2, SequenceByRule
<1>4. s = <<>> <=> t = 0
  BY <1>3
<1>5. ASSUME t > 0
      PROVE  /\ Last(s) = s[t] /\ Stack(Front(s), t - 1)
             /\ \A k \in 1..(t - 1) : Front(s)[k] = s[k]
  <2>1. Last(s) = s[t] /\ Front(s) = [k \in 1..(t - 1) |-> s[k]]
    BY <1>2, <1>5, StackOps
  <2>2. PICK f : f = Front(s)
    OBVIOUS
  <2>3. f = [k \in 1..(t - 1) |-> f[k]] /\ \A k \in 1..(t - 1) : f[k] = s[k]
    BY <2>1, <2>2
  <2> QED BY <2>1, <2>2, <2>3 DEF Stack
<1>6. ASSUME NEW x
      PROVE  /\ Stack(Append(s, x), t + 1) /\ Append(s, x)[t + 1] = x
             /\ \A k \in 1..t : Append(s, x)[k] = s[k]
  <2>1. PICK V : V = U \cup {x}
    OBVIOUS
  <2>2. s \in Seq(V) /\ x \in V
    BY <1>3, <2>1
  <2>3. PICK f : f = Append(s, x)
    OBVIOUS
  <2>4. f \in Seq(V) /\ Len(f) = t + 1 /\ (\A k \in 1..t : f[k] = s[k]) /\ f[t + 1] = x
    <3>1. /\ Append(s, x) \in Seq(V) /\ Len(Append(s, x)) = Len(s) + 1
          /\ (\A k \in 1..Len(s) : Append(s, x)[k] = s[k]) /\ Append(s, x)[Len(s) + 1] = x
      BY <2>2, AppendProperties
    <3> QED BY <1>3, <2>3, <3>1
  <2>5. f = [k \in 1..(t + 1) |-> f[k]]
    BY <2>4
  <2> QED BY <2>3, <2>4, <2>5 DEF Stack
<1> QED BY <1>3, <1>4, <1>5, <1>6

\* What is on top is replaced.
OnTopOf(q, s, t, x) == Stack(q, t) /\ q[t] = x /\ \A k \in 1..(t - 1) : q[k] = s[k]

\* What is below the top stays.
LEMMA TopReplaced ==
    ASSUME NEW t \in Nat, t > 0, NEW s, Stack(s, t), NEW x
    PROVE  OnTopOf([s EXCEPT ![t] = x], s, t, x)
<1>1. PICK f : f = [s EXCEPT ![t] = x]
  OBVIOUS
<1>2. s = [k \in 1..t |-> s[k]]
  BY DEF Stack
<1>3. DOMAIN s = 1..t /\ t \in 1..t /\ \A k \in 1..(t - 1) : k \in 1..t /\ k # t
  BY <1>2
<1>4. f = [k \in 1..t |-> IF k = t THEN x ELSE s[k]]
  BY <1>1, <1>3
<1>5. f[t] = x /\ \A k \in 1..(t - 1) : f[k] = s[k]
  BY <1>3, <1>4
<1>6. f = [k \in 1..t |-> f[k]]
  BY <1>4
<1>7. OnTopOf(f, s, t, x)
  BY <1>5, <1>6 DEF OnTopOf, Stack
<1> QED BY <1>1, <1>7

\* A state of the loader that is one of a load.
LEMMA LoadedStays ==
    ASSUME NEW q, IsLoader(q), NEW root \in Docs, NEW t \in Nat, t > 0, NEW n, NEW i, NEW a,
           Pending(t, root, n, i, a, q.nodes, q.indices), Loaded(q, t, n[t], a[t])
    PROVE  Loading(q, root)
<1>1. Unfinished(q, root)
  BY DEF Unfinished
<1>2. q.state \in {"INIT", "BEGIN_VALUE", "END_VALUE"}
  BY DEF Loaded
<1> QED BY <1>1, <1>2 DEF Loading

\* The same with the node on the stacks.
LEMMA FilledStays ==
    ASSUME NEW q, IsLoader(q), NEW root \in Docs, NEW t \in Nat, t > 0, NEW n, NEW i, NEW a,
           Pending(t, root, n, i, a, q.nodes, q.indices), NEW j, Filled(q, t, n[t], a[t], j)
    PROVE  Loading(q, root)
<1>1. Unfinished(q, root)
  BY DEF Unfinished
<1>2. q.state = "CONTAINER"
  BY DEF Filled
<1> QED BY <1>1, <1>2 DEF Loading

\* The node that is being read, in the states of the switch.
LEMMA LoadedTop ==
    ASSUME NEW l, NEW root, Loading(l, root), l.state \in {"INIT", "BEGIN_VALUE", "END_VALUE"}
    PROVE  \E t \in Nat : \E n, i, a :
             /\ t > 0 /\ Pending(t, root, n, i, a, l.nodes, l.indices) /\ Loaded(l, t, n[t], a[t])
             /\ Visited(n[t]) /\ IsSequence(a[t])
<1>1a. PICK t \in Nat : \E n, i, a :
        /\ t > 0 /\ Pending(t, root, n, i, a, l.nodes, l.indices)
        /\ Loaded(l, t, n[t], a[t]) \/ \E j : Filled(l, t, n[t], a[t], j)
  BY DEF Loading, Unfinished
<1>1. PICK n, i, a :
        /\ t > 0 /\ Pending(t, root, n, i, a, l.nodes, l.indices)
        /\ Loaded(l, t, n[t], a[t]) \/ \E j : Filled(l, t, n[t], a[t], j)
  BY <1>1a
<1>2. Loaded(l, t, n[t], a[t])
  <2>1. ASSUME NEW j, Filled(l, t, n[t], a[t], j) PROVE FALSE
    BY <2>1 DEF Filled
  <2> QED BY <1>1, <2>1
<1> QED BY <1>1, <1>2, PendingTop

\* The first byte of the stream.
LEMMA InitLoads ==
    ASSUME NEW root, Loading(ld, root), LoadInit
    PROVE  Loading(ld', root)
<1>1. ld.state = "INIT" /\ ld' = ReadType(ld) /\ IsLoader(ld) /\ root \in Docs
  BY DEF LoadInit, Loading
<1>2a. PICK t \in Nat : \E n, i, a :
        /\ t > 0 /\ Pending(t, root, n, i, a, ld.nodes, ld.indices) /\ Loaded(ld, t, n[t], a[t])
        /\ Visited(n[t]) /\ IsSequence(a[t])
  BY <1>1, LoadedTop
<1>2. PICK n, i, a :
        /\ t > 0 /\ Pending(t, root, n, i, a, ld.nodes, ld.indices) /\ Loaded(ld, t, n[t], a[t])
        /\ Visited(n[t]) /\ IsSequence(a[t])
  BY <1>2a
<1>3. PICK c : c = n[t]
  OBVIOUS
<1>4. PICK w : w = a[t]
  OBVIOUS
<1>5. ld.rdb = Stream(c) \o w /\ Stack(ld.nodes, t - 1) /\ Stack(ld.indices, t - 1)
  BY <1>1, <1>2, <1>3, <1>4 DEF Loaded
<1>6. PICK q : q = ld'
  OBVIOUS
<1>7. /\ IsLoader(q) /\ q.state = "BEGIN_VALUE" /\ q.type = c.type
      /\ q.rdb = (Payload(c) \o Rest(c, 0)) \o w
      /\ q.nodes = ld.nodes /\ q.indices = ld.indices
  <2>1. Ahead(ld, c, w)
    BY <1>5 DEF Ahead
  <2>2. TypeKnown(ReadType(ld), ld, c, w)
    BY <1>1, <1>2, <1>3, <1>4, <2>1, TypeRead
  <2> QED BY <1>1, <1>6, <2>2 DEF TypeKnown
<1>8. Loaded(q, t, c, w)
  BY <1>5, <1>7 DEF Loaded
<1>9. Pending(t, root, n, i, a, q.nodes, q.indices)
  BY <1>2, <1>7
<1> QED BY <1>1, <1>2, <1>3, <1>4, <1>6, <1>7, <1>8, <1>9, LoadedStays

\* A scalar.
LEMMA ScalarLoads ==
    ASSUME NEW root, Loading(ld, root), LoadNull \/ LoadScalar
    PROVE  Loading(ld', root)
<1>1. ld.state = "BEGIN_VALUE" /\ IsLoader(ld) /\ root \in Docs
  BY DEF LoadNull, LoadScalar, Loading
<1>2a. PICK t \in Nat : \E n, i, a :
        /\ t > 0 /\ Pending(t, root, n, i, a, ld.nodes, ld.indices) /\ Loaded(ld, t, n[t], a[t])
        /\ Visited(n[t]) /\ IsSequence(a[t])
  BY <1>1, LoadedTop
<1>2. PICK n, i, a :
        /\ t > 0 /\ Pending(t, root, n, i, a, ld.nodes, ld.indices) /\ Loaded(ld, t, n[t], a[t])
        /\ Visited(n[t]) /\ IsSequence(a[t])
  BY <1>2a
<1>3. PICK c : c = n[t]
  OBVIOUS
<1>4. PICK w : w = a[t]
  OBVIOUS
<1>5. PICK s : s = ld.rdb
  OBVIOUS
<1>6. /\ ld.type = c.type /\ s = (Payload(c) \o Rest(c, 0)) \o w
      /\ Stack(ld.nodes, t - 1) /\ Stack(ld.indices, t - 1)
  BY <1>1, <1>2, <1>3, <1>4, <1>5 DEF Loaded
<1>7. PICK q : q = ld'
  OBVIOUS
<1>8. ASSUME IsLoader(q), q.state = "END_VALUE", q.node = c, q.rdb = w,
             q.nodes = ld.nodes, q.indices = ld.indices
      PROVE  Loading(ld', root)
  <2>1. Loaded(q, t, c, w)
    BY <1>6, <1>8 DEF Loaded
  <2>2. Pending(t, root, n, i, a, q.nodes, q.indices)
    BY <1>2, <1>8
  <2> QED BY <1>1, <1>2, <1>3, <1>4, <1>7, <1>8, <2>1, <2>2, LoadedStays
<1>9. CASE LoadNull
  <2>1. c.type = "null" /\ q = [ld EXCEPT !.node = NullNode, !.state = "END_VALUE"]
    BY <1>6, <1>7, <1>9 DEF LoadNull
  <2>2. c \in Docs
    BY <1>2, <1>3, <2>1, VisitedTypes
  <2>3. c = NullNode
    BY <2>1, <2>2, DocsMade
  <2>4. s = w
    <3>1. Len(Entries(c)) = Len(c.entries) /\ c.entries = <<>>
      BY <2>1, <2>2, EntriesAre, DocsAre DEF ScalarTypes
    <3>2. Len(Entries(c)) = 0
      BY <3>1
    <3>3. Rest(c, 0) = <<>>
      BY <1>2, <1>3, <3>2, RestNone
    <3>4. PICK e : e = <<>>
      OBVIOUS
    <3>5. Payload(c) = e /\ Rest(c, 0) = e
      BY <2>1, <3>3, <3>4 DEF Payload
    <3>6. e \o e = e /\ e \o w = w
      BY <1>2, <1>4, <3>4, Concats, SmallSequences
    <3> QED BY <1>6, <3>5, <3>6
  <2>5. PICK z : z = NullNode
    OBVIOUS
  <2>6. /\ IsLoader(q) /\ q.state = "END_VALUE" /\ q.node = z /\ q.rdb = s
        /\ q.nodes = ld.nodes /\ q.indices = ld.indices
    BY <1>1, <1>5, <2>1, <2>5 DEF IsLoader, LoaderFields
  <2> QED BY <1>8, <2>3, <2>4, <2>5, <2>6
<1>10. CASE LoadScalar
  <2>1. c.type \in DOMAIN ItemKind
    BY <1>6, <1>10 DEF LoadScalar
  <2>2. s # <<>> /\ Head(s).kind = ItemKind[c.type] /\ ScalarNode(c.type, Head(s)) = c /\ Tail(s) = w
    <3>1. ReadAs((Payload(c) \o Rest(c, 0)) \o w, c, w)
      BY <1>2, <1>3, <1>4, <2>1, ScalarRead
    <3>2. ReadAs(s, c, w)
      BY <1>6, <3>1
    <3> QED BY <3>2 DEF ReadAs
  <2>3. Reads(ItemKind[ld.type])
    BY <1>5, <1>6, <2>2 DEF Reads
  <2>4. q = [ld EXCEPT !.node = ScalarNode(ld.type, Head(ld.rdb)), !.rdb = Tail(@), !.state = "END_VALUE"]
    BY <1>7, <1>10, <2>3 DEF LoadScalar
  <2>5. q = [ld EXCEPT !.node = c, !.rdb = w, !.state = "END_VALUE"]
    BY <1>5, <1>6, <2>2, <2>4
  <2>6. /\ IsLoader(q) /\ q.state = "END_VALUE" /\ q.node = c /\ q.rdb = w
        /\ q.nodes = ld.nodes /\ q.indices = ld.indices
    BY <1>1, <2>5 DEF IsLoader, LoaderFields
  <2> QED BY <1>8, <2>6
<1> QED BY <1>9, <1>10

\* A container goes on the stacks.
LEMMA OpenedIs ==
    ASSUME NEW root, Loading(ld, root), ld.state = "BEGIN_VALUE",
           NEW t \in Nat, t > 0, NEW n, NEW i, NEW a, Pending(t, root, n, i, a, ld.nodes, ld.indices),
           Loaded(ld, t, n[t], a[t]), n[t].type \in Containers,
           NEW q, q = Opened(ld, Partial(n[t], 0), Len(Entries(n[t])))
    PROVE  Loading(q, root)
<1>1. PICK c : c = n[t]
  OBVIOUS
<1>2. PICK w : w = a[t]
  OBVIOUS
<1>3. Visited(c) /\ IsSequence(w) /\ c.type \in Containers
  BY <1>1, <1>2, PendingTop
<1>4. PICK p : p = Partial(c, 0)
  OBVIOUS
<1>5. PICK len \in Nat : len = Len(Entries(c))
  BY <1>3, SaveIs
<1>6. PICK s : s = ld.rdb
  OBVIOUS
<1>7. PICK r : r = Rest(c, 0)
  OBVIOUS
<1>8. PICK b : b = Payload(c)
  OBVIOUS
<1>9. s = (b \o r) \o w /\ Stack(ld.nodes, t - 1) /\ Stack(ld.indices, t - 1)
  BY <1>1, <1>2, <1>6, <1>7, <1>8 DEF Loaded
<1>10. PICK x : b = <<x>>
  <2>1. CASE c.type = "keyval"
    BY <1>8, <2>1 DEF Payload
  <2>2. CASE c.type \in {"dict", "array"}
    BY <1>8, <2>2 DEF Payload
  <2> QED BY <1>3, <2>1, <2>2 DEF Containers
<1>11. IsSequence(b) /\ IsSequence(r) /\ IsSequence(w)
  BY <1>3, <1>7, <1>8, StreamIs
<1>12. (b \o r) \o w = b \o (r \o w)
  BY ONLY <1>11, Associates, SMTT(40)
<1>13. PICK z : z = r \o w
  OBVIOUS
<1>14. Tail(s) = z
  <2>1. IsSequence(z)
    BY <1>11, <1>13, Concats
  <2>2. s = <<x>> \o z
    BY <1>9, <1>10, <1>12, <1>13
  <2> QED BY <2>1, <2>2, HeadIs
<1>15. PICK m : m = Append(ld.nodes, p)
  OBVIOUS
<1>16. PICK y : y = Append(ld.indices, len)
  OBVIOUS
<1>17. q = [ld EXCEPT !.nodes = m, !.indices = y, !.rdb = z, !.state = "CONTAINER"]
  BY <1>1, <1>4, <1>5, <1>6, <1>14, <1>15, <1>16 DEF Opened
<1>18. IsLoader(q) /\ q.nodes = m /\ q.indices = y /\ q.rdb = z /\ q.state = "CONTAINER" /\ root \in Docs
  BY <1>17 DEF Loading, IsLoader, LoaderFields
<1>19. PICK u \in Nat : u = t - 1 /\ u + 1 = t
  OBVIOUS
<1>20. /\ Stack(m, t) /\ Stack(y, t) /\ m[t] = p /\ y[t] = len
       /\ \A k \in 1..(t - 1) : m[k] = ld.nodes[k] /\ y[k] = ld.indices[k]
  <2>1. Stack(m, u + 1) /\ m[u + 1] = p /\ \A k \in 1..u : m[k] = ld.nodes[k]
    BY <1>9, <1>15, <1>19, StackIs
  <2>2. Stack(y, u + 1) /\ y[u + 1] = len /\ \A k \in 1..u : y[k] = ld.indices[k]
    BY <1>9, <1>16, <1>19, StackIs
  <2> QED BY <1>19, <2>1, <2>2
<1>21. Pending(t, root, n, i, a, m, y)
  BY <1>20, PendingSame
<1>22. PICK j \in 0..len : j = 0 /\ len - j = len
  BY <1>5
<1>23. Filled(q, t, c, w, j)
  BY <1>3, <1>4, <1>5, <1>7, <1>13, <1>18, <1>20, <1>22 DEF Filled
<1> QED BY <1>1, <1>2, <1>18, <1>21, <1>23, FilledStays

\* A container begins.
LEMMA ContainerLoads ==
    ASSUME NEW root, Loading(ld, root), LoadKeyVal \/ LoadDictOrArray
    PROVE  Loading(ld', root)
<1>1. ld.state = "BEGIN_VALUE"
  BY DEF LoadKeyVal, LoadDictOrArray
<1>2a. PICK t \in Nat : \E n, i, a :
        /\ t > 0 /\ Pending(t, root, n, i, a, ld.nodes, ld.indices) /\ Loaded(ld, t, n[t], a[t])
        /\ Visited(n[t]) /\ IsSequence(a[t])
  BY <1>1, LoadedTop
<1>2. PICK n, i, a :
        /\ t > 0 /\ Pending(t, root, n, i, a, ld.nodes, ld.indices) /\ Loaded(ld, t, n[t], a[t])
        /\ Visited(n[t]) /\ IsSequence(a[t])
  BY <1>2a
<1>3. PICK c : c = n[t]
  OBVIOUS
<1>4. PICK w : w = a[t]
  OBVIOUS
<1>5. PICK s : s = ld.rdb
  OBVIOUS
<1>6. ld.type = c.type /\ s = (Payload(c) \o Rest(c, 0)) \o w
  BY <1>1, <1>2, <1>3, <1>4, <1>5 DEF Loaded
<1>7. ASSUME NEW x, Payload(c) = <<x>> PROVE s # <<>> /\ Head(s) = x
  <2>1. PICK b : b = Payload(c)
    OBVIOUS
  <2>2. PICK r : r = Rest(c, 0)
    OBVIOUS
  <2>3. IsSequence(b) /\ IsSequence(r) /\ IsSequence(w)
    BY <1>2, <1>3, <1>4, <2>1, <2>2, StreamIs
  <2>4. (b \o r) \o w = b \o (r \o w)
    BY ONLY <2>3, Associates, SMTT(40)
  <2>5. IsSequence(r \o w)
    BY <2>3, Concats
  <2>6. s = <<x>> \o (r \o w)
    BY <1>6, <1>7, <2>1, <2>2, <2>4
  <2> QED BY <2>5, <2>6, HeadIs
<1>8. CASE LoadKeyVal
  <2>1. c.type = "keyval" /\ c.type \in Containers
    BY <1>6, <1>8 DEF LoadKeyVal, Containers
  <2>2. PICK x : x = Item("string", 0, c.str)
    OBVIOUS
  <2>3. Payload(c) = <<x>>
    BY <2>1, <2>2 DEF Payload
  <2>4. x.kind = "string" /\ x.str = c.str
    BY <2>2 DEF Item
  <2>5. Reads("string")
    BY <1>5, <1>7, <2>3, <2>4 DEF Reads
  <2>6. ld' = Opened(ld, KeyVal(Head(ld.rdb).str, NullNode), 1)
    BY <1>8, <2>5 DEF LoadKeyVal
  <2>7. Head(ld.rdb).str = c.str
    BY <1>5, <1>7, <2>3, <2>4
  <2>8. Partial(c, 0) = KeyVal(c.str, NullNode)
    BY <2>1, PartialNone
  <2>9. Len(Entries(c)) = 1
    <3>1. \E d, k : IsMember(c, d, k)
      BY <1>2, <1>3, <2>1, VisitedTypes
    <3>2. Entries(c) = c.entries /\ Len(c.entries) = 1
      BY <3>1, MembersAre
    <3> QED BY <3>2
  <2>10. ld' = Opened(ld, Partial(c, 0), Len(Entries(c)))
    BY <2>6, <2>7, <2>8, <2>9
  <2> QED BY <1>1, <1>2, <1>3, <2>1, <2>10, OpenedIs
<1>9. CASE LoadDictOrArray
  <2>1. c.type \in {"dict", "array"} /\ c.type \in Containers
    BY <1>6, <1>9 DEF LoadDictOrArray, Containers
  <2>2. PICK x : x = Item("unsigned", Len(c.entries), <<>>)
    OBVIOUS
  <2>3. Payload(c) = <<x>>
    BY <2>1, <2>2 DEF Payload
  <2>4. x.kind = "unsigned" /\ x.num = Len(c.entries)
    BY <2>2 DEF Item
  <2>5. Reads("unsigned")
    BY <1>5, <1>7, <2>3, <2>4 DEF Reads
  <2>6. ld' = Opened(ld, New(ld.type, 0, <<>>, <<>>, <<>>), Head(ld.rdb).num)
    BY <1>9, <2>5 DEF LoadDictOrArray
  <2>7. Head(ld.rdb).num = Len(c.entries)
    BY <1>5, <1>7, <2>3, <2>4
  <2>8. Partial(c, 0) = New(c.type, 0, <<>>, <<>>, <<>>)
    BY <2>1, PartialNone
  <2>9. Len(Entries(c)) = Len(c.entries)
    <3>1. c \in Docs
      BY <1>2, <1>3, <2>1, VisitedTypes
    <3> QED BY <3>1, EntriesAre
  <2>10. ld' = Opened(ld, Partial(c, 0), Len(Entries(c)))
    BY <1>6, <2>6, <2>7, <2>8, <2>9
  <2> QED BY <1>1, <1>2, <1>3, <2>1, <2>10, OpenedIs
<1> QED BY <1>8, <1>9

\* A node has been read and goes into the container on top of the stack, or is
\* the document.
LEMMA EndLoads ==
    ASSUME NEW root, Loading(ld, root), LoadEndValue
    PROVE  Loading(ld', root)
<1>1. ld.state = "END_VALUE" /\ IsLoader(ld) /\ root \in Docs
  BY DEF LoadEndValue, Loading
<1>2a. PICK t \in Nat : \E n, i, a :
        /\ t > 0 /\ Pending(t, root, n, i, a, ld.nodes, ld.indices) /\ Loaded(ld, t, n[t], a[t])
        /\ Visited(n[t]) /\ IsSequence(a[t])
  BY <1>1, LoadedTop
<1>2. PICK n, i, a :
        /\ t > 0 /\ Pending(t, root, n, i, a, ld.nodes, ld.indices) /\ Loaded(ld, t, n[t], a[t])
        /\ Visited(n[t]) /\ IsSequence(a[t])
  BY <1>2a
<1>3. PICK c : c = n[t]
  OBVIOUS
<1>4. PICK w : w = a[t]
  OBVIOUS
<1>5. ld.node = c /\ ld.rdb = w /\ Stack(ld.nodes, t - 1) /\ Stack(ld.indices, t - 1)
  BY <1>1, <1>2, <1>3, <1>4 DEF Loaded
<1>6. PICK u \in Nat : u = t - 1 /\ t = u + 1
  BY <1>2
<1>7. PICK s : s = ld.nodes
  OBVIOUS
<1>8. PICK q : q = ld'
  OBVIOUS
<1>9. Stack(s, u) /\ Stack(ld.indices, u)
  BY <1>5, <1>6, <1>7
<1>10. s = <<>> <=> u = 0
  BY <1>9, StackIs
<1>11. CASE u = 0
  <2>1. q = [ld EXCEPT !.state = "END"]
    BY <1>7, <1>8, <1>10, <1>11 DEF LoadEndValue
  <2>2. IsLoader(q) /\ q.state = "END" /\ q.node = c /\ q.rdb = w
    BY <1>1, <1>5, <2>1 DEF IsLoader, LoaderFields
  <2>3. t = 1
    BY <1>6, <1>11
  <2>4. c = root /\ w = <<>>
    BY <1>2, <1>3, <1>4, <2>3, PendingTop
  <2> QED BY <1>1, <1>8, <2>2, <2>4 DEF Loading
<1>12. CASE u # 0
  <2>1. u > 0
    BY <1>12
  <2>2. PICK p : p = n[u]
    OBVIOUS
  <2>3. PICK j \in Nat : j = i[u] /\ Filling(p, i[u], a[u], s[u], ld.indices[u], c, w)
    <3>1. Filling(n[u], i[u], a[u], ld.nodes[u], ld.indices[u], n[u + 1], a[u + 1])
      <4>1. Pending(u + 1, root, n, i, a, ld.nodes, ld.indices)
        BY <1>2, <1>6
      <4> QED BY <2>1, <4>1, PendingLess
    <3>2. Filling(p, i[u], a[u], s[u], ld.indices[u], c, w)
      BY <1>3, <1>4, <1>6, <1>7, <2>2, <3>1
    <3>3. i[u] \in Nat
      BY <3>2 DEF Filling
    <3> QED BY <3>2, <3>3
  <2>4. /\ p.type \in Containers /\ j < Len(Entries(p)) /\ s[u] = Partial(p, j)
        /\ ld.indices[u] = Len(Entries(p)) - (j + 1) /\ c = Entries(p)[j + 1]
        /\ w = Rest(p, j + 1) \o a[u]
    BY <2>3 DEF Filling
  <2>5. Pending(u, root, n, i, a, s, ld.indices)
    <3>1. Pending(u + 1, root, n, i, a, s, ld.indices)
      BY <1>2, <1>6, <1>7
    <3> QED BY <2>1, <3>1, PendingLess
  <2>6. Visited(p) /\ IsSequence(a[u])
    BY <2>1, <2>2, <2>5, PendingTop
  <2>7. PICK m : m = Partial(p, j + 1)
    OBVIOUS
  <2>8. Added(s[u], c) = m
    BY <2>4, <2>6, <2>7, PartialNext
  <2>9. Len(s) = u
    BY <1>9, StackIs
  <2>10. PICK r : r = [s EXCEPT ![u] = m]
    OBVIOUS
  <2>11. q = [ld EXCEPT !.nodes = r, !.state = "CONTAINER"]
    <3>1. q = [ld EXCEPT !.nodes[Len(ld.nodes)] = Added(@, ld.node), !.state = "CONTAINER"]
      BY <1>7, <1>8, <1>10, <1>12 DEF LoadEndValue
    <3>2. q = [ld EXCEPT !.nodes = [s EXCEPT ![u] = Added(s[u], c)], !.state = "CONTAINER"]
      BY <1>5, <1>7, <2>9, <3>1
    <3> QED BY <2>8, <2>10, <3>2
  <2>12. IsLoader(q) /\ q.nodes = r /\ q.indices = ld.indices /\ q.rdb = w /\ q.state = "CONTAINER"
    BY <1>1, <1>5, <2>11 DEF IsLoader, LoaderFields
  <2>13. Stack(r, u) /\ r[u] = m /\ \A k \in 1..(u - 1) : r[k] = s[k]
    <3>1. OnTopOf([s EXCEPT ![u] = m], s, u, m)
      BY <1>9, <2>1, TopReplaced
    <3> QED BY <2>10, <3>1 DEF OnTopOf
  <2>14. PICK h \in 0..Len(Entries(p)) : h = j + 1
    <3>1. Len(Entries(p)) \in Nat
      BY <2>6, SaveIs
    <3> QED BY <2>4, <3>1
  <2>15. Filled(q, u, p, a[u], h)
    BY <1>9, <2>4, <2>7, <2>12, <2>13, <2>14 DEF Filled
  <2>16. Pending(u, root, n, i, a, q.nodes, q.indices)
    BY <2>1, <2>5, <2>12, <2>13, PendingSame
  <2> QED BY <1>1, <1>8, <2>1, <2>2, <2>12, <2>15, <2>16, FilledStays
<1> QED BY <1>11, <1>12

\* The next child of the container on top of the stack, or its end.
LEMMA ChildLoads ==
    ASSUME NEW root, Loading(ld, root), LoadContainer
    PROVE  Loading(ld', root)
<1>1. ld.state = "CONTAINER" /\ IsLoader(ld) /\ root \in Docs
  BY DEF LoadContainer, Loading
<1>2a. PICK t \in Nat : \E n, i, a :
        /\ t > 0 /\ Pending(t, root, n, i, a, ld.nodes, ld.indices)
        /\ Loaded(ld, t, n[t], a[t]) \/ \E j : Filled(ld, t, n[t], a[t], j)
  BY <1>1 DEF Loading, Unfinished
<1>2b. PICK n, i, a :
        /\ t > 0 /\ Pending(t, root, n, i, a, ld.nodes, ld.indices)
        /\ Loaded(ld, t, n[t], a[t]) \/ \E j : Filled(ld, t, n[t], a[t], j)
  BY <1>2a
<1>2c. ~Loaded(ld, t, n[t], a[t])
  BY <1>1 DEF Loaded
<1>2. PICK j :
        /\ t > 0 /\ Pending(t, root, n, i, a, ld.nodes, ld.indices) /\ Filled(ld, t, n[t], a[t], j)
  BY <1>2b, <1>2c
<1>3. PICK c : c = n[t]
  OBVIOUS
<1>4. PICK w : w = a[t]
  OBVIOUS
<1>5. Visited(c) /\ IsSequence(w)
  BY <1>2, <1>3, <1>4, PendingTop
<1>6. PICK s : s = ld.nodes
  OBVIOUS
<1>7. PICK x : x = ld.indices
  OBVIOUS
<1>8. /\ Stack(s, t) /\ Stack(x, t) /\ c.type \in Containers /\ j \in 0..Len(Entries(c))
      /\ s[t] = Partial(c, j) /\ x[t] = Len(Entries(c)) - j /\ ld.rdb = Rest(c, j) \o w
  BY <1>2, <1>3, <1>4, <1>6, <1>7 DEF Filled
<1>9. PICK len \in Nat : len = Len(Entries(c))
  BY <1>5, SaveIs
<1>10. j \in Nat /\ j <= len /\ x[t] = len - j
  BY <1>8, <1>9
<1>11. Len(s) = t /\ Len(x) = t /\ Last(s) = s[t] /\ Last(x) = x[t]
  BY <1>2, <1>8, StackIs
<1>12. PICK q : q = ld'
  OBVIOUS
<1>13. CASE j < len
  <2>1. PICK e : e = Entries(c)[j + 1]
    OBVIOUS
  <2>2. PICK r : r = Rest(c, j + 1)
    OBVIOUS
  <2>3. PICK b : b = Stream(e)
    OBVIOUS
  <2>4. Rest(c, j) = b \o r /\ IsSequence(b) /\ IsSequence(r) /\ Visited(e)
    BY <1>5, <1>9, <1>10, <1>13, <2>1, <2>2, <2>3, RestNext
  <2>5. IsSequence(b) /\ IsSequence(r) /\ IsSequence(w)
    BY <1>5, <2>4
  <2>6. (b \o r) \o w = b \o (r \o w)
    BY ONLY <2>5, Associates, SMTT(40)
  <2>7. PICK z : z = r \o w
    OBVIOUS
  <2>8. IsSequence(z)
    BY <2>5, <2>7, Concats
  <2>9. ld.rdb = Stream(e) \o z
    BY <1>8, <2>3, <2>4, <2>6, <2>7
  <2>10. PICK left : left = x[t] - 1
    OBVIOUS
  <2>11. left = len - (j + 1) /\ x[t] > 0
    BY <1>10, <1>13, <2>10
  <2>12. PICK y : y = [x EXCEPT ![t] = left]
    OBVIOUS
  <2>13. PICK l : l = [ld EXCEPT !.indices = y]
    OBVIOUS
  <2>14. q = ReadType(l)
    <3>1. q = ReadType([ld EXCEPT !.indices[Len(ld.indices)] = @ - 1])
      BY <1>7, <1>11, <1>12, <2>11 DEF LoadContainer
    <3>2. [ld EXCEPT !.indices[Len(ld.indices)] = @ - 1] = l
      BY <1>1, <1>7, <1>11, <2>10, <2>12, <2>13 DEF IsLoader, LoaderFields
    <3> QED BY <3>1, <3>2
  <2>15. IsLoader(l) /\ l.nodes = s /\ l.indices = y /\ l.rdb = ld.rdb
    BY <1>1, <1>6, <2>13 DEF IsLoader, LoaderFields
  <2>16. /\ IsLoader(q) /\ q.state = "BEGIN_VALUE" /\ q.type = e.type
         /\ q.rdb = (Payload(e) \o Rest(e, 0)) \o z
         /\ q.nodes = s /\ q.indices = y
    <3>1. Ahead(l, e, z)
      BY <2>9, <2>15 DEF Ahead
    <3>2. TypeKnown(ReadType(l), l, e, z)
      BY <2>4, <2>8, <2>15, <3>1, TypeRead
    <3> QED BY <2>14, <2>15, <3>2 DEF TypeKnown
  <2>17. Stack(y, t) /\ y[t] = left /\ \A k \in 1..(t - 1) : y[k] = x[k]
    <3>1. OnTopOf([x EXCEPT ![t] = left], x, t, left)
      BY <1>2, <1>8, TopReplaced
    <3> QED BY <2>12, <3>1 DEF OnTopOf
  <2>18. Pending(t, root, n, i, a, s, y)
    BY <1>2, <1>6, <1>7, <2>17, PendingSame
  <2>19. Filling(c, j, w, s[t], y[t], e, z)
    BY <1>8, <1>9, <1>10, <1>13, <2>1, <2>2, <2>7, <2>11, <2>17 DEF Filling
  <2>20. PICK m, h, d : Pending(t + 1, root, m, h, d, s, y) /\ m[t + 1] = e /\ d[t + 1] = z
    <3>1. Filling(n[t], j, a[t], s[t], y[t], e, z)
      BY <1>3, <1>4, <2>19
    <3>2. \E m, h, d : Pending(t + 1, root, m, h, d, s, y) /\ m[t + 1] = e /\ d[t + 1] = z
      <4>1. t \in Nat /\ t > 0 /\ Visited(e) /\ IsSequence(z)
        BY <1>2, <2>4, <2>8
      <4> QED BY ONLY <2>18, <3>1, <4>1, PendingMore
    <3> QED BY <3>2
  <2>21. PICK u \in Nat : u = t + 1 /\ u - 1 = t /\ u > 0
    BY <1>2
  <2>22. Loaded(q, u, m[u], d[u])
    BY <1>8, <2>16, <2>17, <2>20, <2>21 DEF Loaded
  <2>23. Pending(u, root, m, h, d, q.nodes, q.indices)
    BY <2>16, <2>20, <2>21
  <2> QED BY <1>1, <1>12, <2>16, <2>21, <2>22, <2>23, LoadedStays
<1>14. CASE ~(j < len)
  <2>1. j = Len(Entries(c)) /\ ~(x[t] > 0)
    BY <1>9, <1>10, <1>14
  <2>2. s[t] = c
    BY <1>5, <1>8, <2>1, PartialAll
  <2>3. ld.rdb = w
    <3>1. Rest(c, j) = <<>>
      BY <1>5, <2>1, RestNone
    <3> QED BY <1>5, <1>8, <3>1, Concats
  <2>4. PICK f : f = Front(s)
    OBVIOUS
  <2>5. PICK g : g = Front(x)
    OBVIOUS
  <2>6. q = [ld EXCEPT !.indices = g, !.nodes = f, !.node = c, !.state = "END_VALUE"]
    <3>1. q = [ld EXCEPT !.indices = Front(@), !.nodes = Front(@), !.node = Last(ld.nodes),
                         !.state = "END_VALUE"]
      BY <1>7, <1>11, <1>12, <2>1 DEF LoadContainer
    <3>2. Last(ld.nodes) = c
      BY <1>6, <1>11, <2>2
    <3> QED BY <1>6, <1>7, <2>4, <2>5, <3>1, <3>2
  <2>7. IsLoader(q) /\ q.nodes = f /\ q.indices = g /\ q.node = c /\ q.rdb = w /\ q.state = "END_VALUE"
    BY <1>1, <2>3, <2>6 DEF IsLoader, LoaderFields
  <2>8. Stack(f, t - 1) /\ Stack(g, t - 1) /\ \A k \in 1..(t - 1) : f[k] = s[k] /\ g[k] = x[k]
    BY <1>2, <1>8, <2>4, <2>5, StackIs
  <2>9. Loaded(q, t, c, w)
    BY <2>7, <2>8 DEF Loaded
  <2>10. Pending(t, root, n, i, a, q.nodes, q.indices)
    BY <1>2, <1>6, <1>7, <2>7, <2>8, PendingSame
  <2> QED BY <1>1, <1>2, <1>3, <1>4, <1>12, <2>7, <2>9, <2>10, LoadedStays
<1> QED BY <1>13, <1>14

\* A load begins with what was saved of the document.
LEMMA LoadBegins ==
    ASSUME NEW root \in Docs, NEW encver, JSONTypeRdbLoad(SavedAs(root), encver)
    PROVE  Loading(ld', root)
<1>1. PICK s : s = SavedAs(root)
  OBVIOUS
<1>2. Visited(root) /\ root.type # "keyval"
  BY DocsAre DEF Visited, ScalarTypes
<1>3. s = Stream(root) /\ IsSequence(s)
  <2>1. Save.kind = "rdb"
    BY <1>2, SaveIs
  <2>2. Stream(root) = s
    BY <1>1, <1>2, <2>1 DEF Stream, Meaning, Written
  <2> QED BY <1>2, <2>2, StreamIs
<1>4. PICK q : q = ld'
  OBVIOUS
<1>5. PICK x : x = (IF encver < 0 \/ encver > JSONTYPE_ENCODING_VERSION THEN "REFUSED" ELSE "INIT")
  OBVIOUS
<1>6. q = [IdleLoader EXCEPT !.state = x, !.rdb = s]
  BY <1>1, <1>4, <1>5 DEF JSONTypeRdbLoad
<1>7. PICK e : e = <<>>
  OBVIOUS
<1>8. IsLoader(q) /\ q.state = x /\ q.rdb = s /\ q.nodes = e /\ q.indices = e
  BY <1>6, <1>7 DEF IdleLoader, IsLoader, LoaderFields
<1>9. CASE x = "REFUSED"
  BY <1>4, <1>8, <1>9 DEF Loading
<1>10. CASE x = "INIT"
  <2>1. PICK t \in Nat : t = 1 /\ t > 0 /\ t - 1 = 0
    OBVIOUS
  <2>2. PICK n : n = [k \in 1..t |-> root]
    OBVIOUS
  <2>3. PICK a : a = [k \in 1..t |-> e]
    OBVIOUS
  <2>4. /\ n[1] = root /\ a[1] = e /\ n[t] = root /\ a[t] = e
        /\ \A k \in 1..t : n[k] = root /\ a[k] = e
    BY <2>1, <2>2, <2>3
  <2>5. IsSequence(e)
    BY <1>7, SmallSequences
  <2>6. 1..(t - 1) = {}
    BY <2>1
  <2>7. Pending(t, root, n, n, a, q.nodes, q.indices)
    BY <1>2, <1>7, <2>4, <2>5, <2>6 DEF Pending
  <2>8. Stack(e, t - 1)
    BY <1>7, <2>1 DEF Stack
  <2>9. s \o e = s
    BY <1>3, <1>7, Concats
  <2>10. Loaded(q, t, root, e)
    BY <1>3, <1>8, <1>10, <2>8, <2>9 DEF Loaded
  <2> QED BY <1>4, <1>8, <2>1, <2>4, <2>7, <2>10, LoadedStays
<1> QED BY <1>5, <1>9, <1>10

\* While a document is loaded, what was written is what was saved of it.
Reloading == phase = "load" => Loading(ld, doc)

\* Every step of the server.
LEMMA ReloadingKept ==
    ASSUME Writing, Reloading, [Serve \/ Commands]_docVars
    PROVE  Reloading'
<1>1. ASSUME phase' # "load" PROVE Reloading'
  BY <1>1 DEF Reloading
<1>2. ASSUME UNCHANGED <<ld, doc, phase>> PROVE Reloading'
  <2>1. ld' = ld /\ doc' = doc /\ phase' = phase
    BY <1>2
  <2>2. Loading(ld, doc) => Loading(ld', doc')
    BY <2>1
  <2> QED BY <2>1, <2>2 DEF Reloading
<1>3. CASE UNCHANGED docVars
  BY <1>2, <1>3 DEF docVars
<1>4. CASE Traverse
  BY <1>2, <1>4 DEF Traverse
<1>5. CASE LoadSaved
  <2>1. PICK encver : JSONTypeRdbLoad(ser.out, encver)
    BY <1>5 DEF LoadSaved
  <2>2. phase = "save" /\ ser.state = "END" /\ doc' = doc
    BY <1>5 DEF LoadSaved
  <2>3. Traversing(ser, doc) /\ ser.visitor = Save
    BY <2>2 DEF Writing
  <2>4. doc \in Docs /\ ser.out = Written(Save, doc, 0)
    BY <2>2, <2>3 DEF Traversing
  <2>5. Save.kind = "rdb"
    BY DEF Save, Visitor
  <2>6. ser.out = SavedAs(doc)
    BY <2>4, <2>5 DEF Written
  <2>7. JSONTypeRdbLoad(SavedAs(doc), encver)
    BY <2>1, <2>6 DEF JSONTypeRdbLoad
  <2>8. Loading(ld', doc)
    BY <2>4, <2>7, LoadBegins
  <2>9. Loading(ld', doc')
    BY <2>2, <2>8
  <2> QED BY <2>9 DEF Reloading
<1>6. CASE Load
  <2>1. phase = "load" /\ ObjectTypeRdbLoad /\ doc' = doc
    BY <1>6 DEF Load
  <2>2. Loading(ld, doc)
    BY <2>1 DEF Reloading
  <2>3. Loading(ld', doc)
    BY <2>1, <2>2, InitLoads, ScalarLoads, ContainerLoads, EndLoads, ChildLoads DEF ObjectTypeRdbLoad
  <2>4. Loading(ld', doc')
    BY <2>1, <2>3
  <2> QED BY <2>4 DEF Reloading
<1>7. CASE ReadWritten \/ ClientBegin \/ NextCommand
  <2>1. phase' \in {"read", "client", "start"}
    BY <1>7 DEF ReadWritten, ClientBegin, NextCommand
  <2> QED BY <1>1, <2>1
<1>8. CASE JSONTypeRdbSave \/ ObjectTypeToRespReply \/ SerializeNodeToJSON
  <2>1. PICK next, v : next \in {"save", "resp", "write"} /\ Write(next, v)
    BY <1>8 DEF JSONTypeRdbSave, ObjectTypeToRespReply, SerializeNodeToJSON
  <2>2. phase' = next
    BY <2>1 DEF Write
  <2> QED BY <1>1, <2>1, <2>2
<1>9. CASE ReadToken
  BY <1>2, <1>9 DEF ReadToken
<1>10. CASE ClientToken
  BY <1>2, <1>10 DEF ClientToken
<1>11. CASE TextEnd
  BY <1>2, <1>11 DEF TextEnd
<1> QED BY <1>3, <1>4, <1>5, <1>6, <1>7, <1>8, <1>9, <1>10, <1>11 DEF Serve, Commands

\* Whatever the documents, loading what was saved of one never finds an item
\* of another kind than it expects, and gives back the document with nothing
\* left of the stream.
THEOREM RdbAlwaysRoundTrips == DocSpec => []RdbRoundTrip
<1>1. Start => Writing /\ Reloading
  <2> SUFFICES ASSUME Start PROVE Writing /\ Reloading
    OBVIOUS
  <2>1. phase = "start"
    BY DEF Start
  <2> QED BY <2>1 DEF Writing, Reloading
<1>2. Writing /\ Reloading /\ [Serve \/ Commands]_docVars => Writing' /\ Reloading'
  BY WritingKept, ReloadingKept
<1>3. Reloading => RdbRoundTrip
  <2> SUFFICES ASSUME Reloading, phase = "load"
               PROVE  ld.state # "MISREAD" /\ (ld.state = "END" => ld.node = doc /\ ld.rdb = <<>>)
    BY DEF RdbRoundTrip
  <2>1. Loading(ld, doc)
    BY DEF Reloading
  <2> QED BY <2>1 DEF Loading
<1> QED BY <1>1, <1>2, <1>3, PTL DEF DocSpec

-----------------------------------------------------------------------------
(* What a text is read back as.                                            *)

\* A container that has been read up to the first i of its children.
ReadSoFar(n, i) ==
    IF n.type = "dict" THEN NewDictNode([k \in 1..i |-> n.keys[k]], [k \in 1..i |-> ReadBackOf(n.entries[k])])
    ELSE NewArrayNode([k \in 1..i |-> ReadBackOf(n.entries[k])])

\* None of them,
LEMMA ReadNone ==
    ASSUME NEW n, n.type \in {"array", "dict"}
    PROVE  /\ n.type = "dict" => ReadSoFar(n, 0) = NewDictNode(<<>>, <<>>)
           /\ n.type = "array" => ReadSoFar(n, 0) = NewArrayNode(<<>>)
<1>1. PICK z : z = 0
  OBVIOUS
<1>2. \A s : [k \in 1..z |-> s[k]] = <<>>
  BY <1>1
<1>3. [k \in 1..z |-> n.keys[k]] = <<>>
  BY <1>2
<1>4. [k \in 1..z |-> ReadBackOf(n.entries[k])] = <<>>
  BY <1>1
<1>5. CASE n.type = "dict"
  <2>1. ReadSoFar(n, z) = NewDictNode([k \in 1..z |-> n.keys[k]], [k \in 1..z |-> ReadBackOf(n.entries[k])])
    BY <1>5 DEF ReadSoFar
  <2> QED BY <1>1, <1>3, <1>4, <1>5, <2>1
<1>6. CASE n.type = "array"
  <2>1. ReadSoFar(n, z) = NewArrayNode([k \in 1..z |-> ReadBackOf(n.entries[k])])
    BY <1>6 DEF ReadSoFar
  <2> QED BY <1>1, <1>4, <1>6, <2>1
<1> QED BY <1>5, <1>6

\* all of them,
LEMMA ReadAll ==
    ASSUME NEW n \in Docs, n.type \in {"array", "dict"}, NEW k, k = Len(n.entries)
    PROVE  ReadSoFar(n, k) = ReadBackOf(n)
<1>1. n.entries \in Seq(Docs) /\ k \in Nat /\ DOMAIN n.entries = 1..k
  BY DocsAre
<1>2. PICK f : f = [i \in 1..k |-> ReadBackOf(n.entries[i])]
  OBVIOUS
<1>3. ReadBackOf(n) = [n EXCEPT !.entries = f]
  <2>1. ReadBackOf(n) = ReadBackFrom(n, [i \in DOMAIN n.entries |-> ReadBackOf(n.entries[i])])
    BY ReadBackAssumption
  <2>2. ReadBackOf(n) = ReadBackFrom(n, f)
    BY <1>1, <1>2, <2>1
  <2>3. n.type # "number"
    OBVIOUS
  <2> QED BY ONLY <2>2, <2>3 DEF ReadBackFrom
<1>4. CASE n.type = "array"
  <2>1. n = NewArrayNode(n.entries)
    BY <1>4, DocsMade
  <2>2. [n EXCEPT !.entries = f] = NewArrayNode(f)
    BY ONLY <2>1 DEF NewArrayNode, New
  <2>3. ReadSoFar(n, k) = NewArrayNode(f)
    BY <1>2, <1>4 DEF ReadSoFar
  <2> QED BY <1>3, <2>2, <2>3
<1>5. CASE n.type = "dict"
  <2>1. n = NewDictNode(n.keys, n.entries)
    BY <1>5, DocsMade
  <2>2. [n EXCEPT !.entries = f] = NewDictNode(n.keys, f)
    BY ONLY <2>1 DEF NewDictNode, New
  <2>3. n.keys = [i \in 1..k |-> n.keys[i]]
    <3>1. IsSequence(n.keys) /\ Len(n.keys) = k
      BY <1>5, DocsAre
    <3> QED BY <3>1 DEF IsSequence
  <2>4. ReadSoFar(n, k) = NewDictNode([i \in 1..k |-> n.keys[i]], f)
    BY <1>2, <1>5 DEF ReadSoFar
  <2> QED BY <1>3, <2>2, <2>3, <2>4
<1> QED BY <1>4, <1>5

\* A dictionary without the key gets one more entry.
LEMMA KeyAdded ==
    ASSUME NEW ks, NEW es, NEW key, NEW m, NEW d, d = NewDictNode(ks, es), \A i \in DOMAIN ks : ks[i] # key
    PROVE  Node_DictSetKeyVal(d, KeyVal(key, m)) = NewDictNode(Append(ks, key), Append(es, m))
<1>1. KeyVal(key, m).str = key /\ KeyVal(key, m).entries[1] = m
  BY DEF KeyVal, New
<1>2. d.keys = ks /\ d.entries = es
  BY DEF NewDictNode, New
<1>3. ~HasKey(d, key)
  BY <1>2 DEF HasKey, Positions
<1>4. Node_DictSetKeyVal(d, KeyVal(key, m)) = [d EXCEPT !.keys = Append(@, key), !.entries = Append(@, m)]
  BY <1>1, <1>3 DEF Node_DictSetKeyVal, Node_DictSet
<1>5. PICK h : h = Append(ks, key)
  OBVIOUS
<1>6. PICK g : g = Append(es, m)
  OBVIOUS
<1>7. PICK f : f = [d EXCEPT !.keys = h]
  OBVIOUS
<1>8. f = NewDictNode(h, es)
  BY <1>7 DEF NewDictNode, New
<1>9. [f EXCEPT !.entries = g] = NewDictNode(h, g)
  BY <1>8 DEF NewDictNode, New
<1>10. [d EXCEPT !.keys = Append(@, key), !.entries = Append(@, m)] = [f EXCEPT !.entries = g]
  BY <1>2, <1>5, <1>6, <1>7
<1> QED BY <1>4, <1>5, <1>6, <1>9, <1>10

\* and one more.
LEMMA ReadNext ==
    ASSUME NEW n \in Docs, n.type \in {"array", "dict"}, NEW i \in Nat, i < Len(n.entries), NEW m,
           m = ReadBackOf(n.entries[i + 1])
    PROVE  /\ n.type = "array" => Node_ArrayAppend(ReadSoFar(n, i), m) = ReadSoFar(n, i + 1)
           /\ n.type = "dict" => Node_DictSetKeyVal(ReadSoFar(n, i), KeyVal(n.keys[i + 1], m)) = ReadSoFar(n, i + 1)
<1>1. n.entries \in Seq(Docs) /\ Len(n.entries) \in Nat
  BY DocsAre
<1>2. PICK s : s = [k \in 1..(i + 1) |-> ReadBackOf(n.entries[k])]
  OBVIOUS
<1>3. PICK f : f = [k \in 1..i |-> ReadBackOf(n.entries[k])]
  OBVIOUS
<1>4. Append(f, m) = s
  <2>1. i + 1 \in 1..(i + 1) /\ \A k \in 1..i : k \in 1..(i + 1)
    OBVIOUS
  <2>2. m = s[i + 1]
    BY <1>2, <2>1
  <2>3. f = [k \in 1..i |-> s[k]]
    BY <1>2, <1>3, <2>1
  <2>4. s = [k \in 1..(i + 1) |-> s[k]]
    BY <1>2
  <2>5. Append([k \in 1..i |-> s[k]], m) = [k \in 1..(i + 1) |-> s[k]]
    BY <2>2, RuleNext
  <2> QED BY ONLY <2>3, <2>4, <2>5
<1>5. CASE n.type = "array"
  <2>1. ReadSoFar(n, i) = NewArrayNode(f) /\ ReadSoFar(n, i + 1) = NewArrayNode(s)
    BY <1>2, <1>3, <1>5 DEF ReadSoFar
  <2>2. \A x : x = NewArrayNode(f) => x.entries = f /\ [x EXCEPT !.entries = s] = NewArrayNode(s)
    BY DEF NewArrayNode, New
  <2>3. PICK x : x = NewArrayNode(f)
    OBVIOUS
  <2>4. Node_ArrayAppend(x, m) = [x EXCEPT !.entries = s]
    BY <1>4, <2>2, <2>3 DEF Node_ArrayAppend
  <2> QED BY <1>5, <2>1, <2>2, <2>3, <2>4
<1>6. CASE n.type = "dict"
  <2>1. PICK ks : ks = [k \in 1..i |-> n.keys[k]]
    OBVIOUS
  <2>2. PICK mk : mk = [k \in 1..(i + 1) |-> n.keys[k]]
    OBVIOUS
  <2>3. PICK key : key = n.keys[i + 1]
    OBVIOUS
  <2>4. Append(ks, key) = mk
    BY <2>1, <2>2, <2>3, RuleNext
  <2>5. ReadSoFar(n, i) = NewDictNode(ks, f) /\ ReadSoFar(n, i + 1) = NewDictNode(mk, s)
    BY <1>2, <1>3, <1>6, <2>1, <2>2 DEF ReadSoFar
  <2>6. \A k \in DOMAIN ks : ks[k] # key
    <3>1. DOMAIN n.keys = 1..Len(n.entries)
      <4>1. IsSequence(n.keys) /\ Len(n.keys) = Len(n.entries)
        BY <1>6, DocsAre
      <4> QED BY <4>1 DEF IsSequence
    <3>2. \A k \in 1..i : k \in 1..Len(n.entries) /\ k # i + 1
      BY <1>1
    <3>3. i + 1 \in 1..Len(n.entries)
      BY <1>1
    <3>4. \A k \in 1..i : n.keys[k] # n.keys[i + 1]
      BY <1>6, <3>1, <3>2, <3>3, DocsMade
    <3> QED BY <2>1, <2>3, <3>4
  <2>7. Node_DictSetKeyVal(ReadSoFar(n, i), KeyVal(key, m)) = NewDictNode(Append(ks, key), Append(f, m))
    BY <2>5, <2>6, KeyAdded
  <2> QED BY <1>4, <1>6, <2>3, <2>4, <2>5, <2>7
<1> QED BY <1>5, <1>6

-----------------------------------------------------------------------------
(* What is written of a container, as the parser reads it.                 *)

\* The strings of the options are whitespace.
Spaced ==
    \A v \in Formats : v.indent \in Seq(Whitespace) /\ v.newline \in Seq(Whitespace) /\ v.space \in Seq(Whitespace)

\* Whitespace is a text.
LEMMA WhiteText ==
    ASSUME NEW w \in Seq(Whitespace)
    PROVE  IsText(w) /\ IsSequence(w) /\ Range(w) \subseteq Whitespace
<1>1. IsSequence(w)
  BY SequenceOf
<1>2. PICK S : S = Whitespace
  OBVIOUS
<1>3. Range(w) \subseteq S
  <2>1. w \in Seq(S)
    BY <1>2
  <2> QED BY ONLY <2>1 DEF Range
<1> QED BY ONLY <1>1, <1>2, <1>3 DEF IsText, IsSequence

\* So is the indentation.
LEMMA IndentWhite ==
    ASSUME Spaced, NEW v \in Formats, NEW k \in Nat
    PROVE  Indent(v, k) \in Seq(Whitespace)
<1>1. PICK U : U = Whitespace
  OBVIOUS
<1>2. v.indent \in Seq(U)
  BY <1>1 DEF Spaced
<1>3. PICK s : s = [i \in 1..k |-> v.indent]
  OBVIOUS
<1>4. s \in Seq(Seq(U))
  BY ONLY <1>2, <1>3, k \in Nat
<1>5. FlattenSeq(s) \in Seq(U)
  BY <1>4, FlattenTyped
<1> QED BY <1>1, <1>3, <1>5 DEF Indent

\* Whitespace after whitespace.
LEMMA WhiteOn ==
    ASSUME NEW a \in Seq(Whitespace), NEW b \in Seq(Whitespace)
    PROVE  a \o b \in Seq(Whitespace)
<1>1. PICK U : U = Whitespace
  OBVIOUS
<1>2. a \in Seq(U) /\ b \in Seq(U)
  BY <1>1
<1>3. a \o b \in Seq(U)
  BY ONLY <1>2
<1> QED BY <1>1, <1>3

OpenedBy(n) == IF n.type = "dict" THEN "{" ELSE "["
ClosedBy(n) == IF n.type = "dict" THEN "}" ELSE "]"

\* What is written around the values of a container: brackets, commas and
\* whitespace.
Framed(v, n, d, x, y, z) ==
    /\ x \in Seq(Whitespace) /\ y \in Seq(Whitespace) /\ z \in Seq(Whitespace)
    /\ fBegin(v, n, d) = <<OpenedBy(n)>> \o x
    /\ Delim(v, n, d, 1) = <<>> /\ \A i \in Nat : i > 1 => Delim(v, n, d, i) = <<",">> \o y
    /\ fEnd(v, n, d + Deeper(v, n)) = z \o <<ClosedBy(n)>>

\* The brackets and commas of a container have nothing but whitespace around them.
LEMMA Frames ==
    ASSUME Spaced, NEW v \in Formats, NEW n \in Docs, n.type \in {"array", "dict"}, NEW d \in Nat
    PROVE  Deeper(v, n) = 1 /\ \E x, y, z : Framed(v, n, d, x, y, z)
<1>1. v \in Visitors /\ v.kind = "json" /\ IsContainer(n)
  <2>1. v.kind = "json"
    BY FormatsAssumption DEF ToJSON, Visitor
  <2> QED BY <2>1 DEF Visitors, IsContainer
<1>2. Deeper(v, n) = 1 /\ d + 1 \in Nat /\ (d + 1) - 1 = d
  BY <1>1 DEF Deeper
<1>3. PICK e \in Seq(Whitespace) : e = <<>>
  BY EmptySeq
<1>4. PICK line \in Seq(Whitespace) : line = v.newline
  BY DEF Spaced
<1>5. PICK deep \in Seq(Whitespace) : deep = Indent(v, d + 1)
  BY <1>2, IndentWhite
<1>6. PICK flat \in Seq(Whitespace) : flat = Indent(v, d)
  BY IndentWhite
<1>7. PICK b \in Seq(Whitespace) : b = Break(v, n)
  BY <1>3, <1>4 DEF Break
<1>8. PICK r \in Seq(Whitespace) : r = IF n.entries = <<>> THEN <<>> ELSE Indent(v, d + 1)
  BY <1>3, <1>5
<1>9. PICK o : o = OpenedBy(n)
  OBVIOUS
<1>10. PICK c : c = ClosedBy(n)
  OBVIOUS
<1>11. Brackets[n.type][1] = o /\ Brackets[n.type][2] = c
  BY <1>9, <1>10, BracketsOf, Zenon DEF OpenedBy, ClosedBy
<1>12. PICK comma : comma = ","
  OBVIOUS
<1>13. \A k : IsSequence(<<k>>)
  BY SmallSequences
<1>14. PICK x : x = b \o r
  OBVIOUS
<1>15. PICK y : y = line \o deep
  OBVIOUS
<1>16. PICK z : z = b \o flat
  OBVIOUS
<1>17. x \in Seq(Whitespace) /\ y \in Seq(Whitespace) /\ z \in Seq(Whitespace)
  BY ONLY <1>3, <1>14, <1>15, <1>16, WhiteOn
<1>18. IsSequence(b) /\ IsSequence(r) /\ IsSequence(line) /\ IsSequence(deep) /\ IsSequence(flat)
  BY WhiteText
<1>19. fBegin(v, n, d) = <<o>> \o x
  <2>1. fBegin(v, n, d) = JsonBegin(v, n, d)
    BY <1>1 DEF fBegin
  <2>2. JsonBegin(v, n, d) = (<<o>> \o b) \o r
    BY <1>1, <1>7, <1>8, <1>11 DEF JsonBegin, IsContainer
  <2>3. (<<o>> \o b) \o r = <<o>> \o (b \o r)
    BY ONLY <1>13, <1>18, Associates, SMTT(40)
  <2> QED BY ONLY <1>14, <2>1, <2>2, <2>3
<1>20. ASSUME NEW i \in Nat, i > 1 PROVE Delim(v, n, d, i) = <<comma>> \o y
  <2>1. i # 1
    BY <1>20
  <2>2. Delim(v, n, d, i) = fDelim(v, n, d + 1)
    BY ONLY <1>2, <2>1 DEF Delim
  <2>3. fDelim(v, n, d + 1) = (<<comma>> \o line) \o deep
    BY <1>1, <1>4, <1>5, <1>12 DEF fDelim
  <2>4. (<<comma>> \o line) \o deep = <<comma>> \o (line \o deep)
    <3>1. PICK a : a = <<comma>>
      OBVIOUS
    <3>2. IsSequence(a) /\ IsSequence(line) /\ IsSequence(deep)
      BY ONLY <1>13, <1>18, <3>1
    <3>3. (a \o line) \o deep = a \o (line \o deep)
      BY ONLY <3>2, Associates, SMTT(40)
    <3> QED BY ONLY <3>1, <3>3
  <2> QED BY ONLY <1>15, <2>2, <2>3, <2>4
<1>21. fEnd(v, n, d + 1) = z \o <<c>>
  BY <1>1, <1>2, <1>6, <1>7, <1>11, <1>16 DEF fEnd, JsonEnd
<1>22. Delim(v, n, d, 1) = <<>>
  BY DEF Delim
<1>23. Framed(v, n, d, x, y, z)
  BY <1>2, <1>9, <1>10, <1>12, <1>17, <1>19, <1>20, <1>21, <1>22 DEF Framed
<1> QED BY <1>2, <1>23

-----------------------------------------------------------------------------
(* Reading a container, one item after another.                            *)

SlotType(n) == IF n.type = "dict" THEN "object" ELSE "list"

\* The lexer counts a key and its value.
Counting(n, i) == IF n.type = "dict" THEN 2 * i ELSE i

\* The first i items of a container have been read,
ItemsRead(q, p, n, i) ==
    /\ i = 0 => /\ q.tok_last = ""
                /\ ItemDue(q, p.stack, SlotType(n), Counting(n, 0), p.nodes, ReadSoFar(n, 0), p.scalar)
    /\ i > 0 => SameAfter(q, Between(p.stack, SlotType(n), Counting(n, i), p.nodes, ReadSoFar(n, i), p.scalar))

\* and the next one begins.
ItemNext(r, p, n, i) ==
    ItemDue(r, p.stack, SlotType(n), Counting(n, i), p.nodes, ReadSoFar(n, i), p.scalar)

\* The stack of the lexer and the array of nodes have room for a value, which
\* takes two nodes for every object that it is nested in.
Fits(p, n) ==
    /\ n.type \in {"array", "dict"} => /\ Len(p.stack) + DepthOf(n) < Levels
                                      /\ Len(p.nodes) + 2 * DepthOf(n) < Levels
    /\ n.type = "string" => Topmost(p.stack).type # "none"

\* The types and counts of the slots.
LEMMA SlotsAre ==
    ASSUME NEW n, n.type \in {"array", "dict"}, NEW i \in Nat
    PROVE  /\ SlotType(n) \in {"object", "list"} /\ Counting(n, i) \in Nat /\ Counting(n, 0) = 0
           /\ n.type = "dict" => SlotType(n) = "object" /\ Counting(n, i) % 2 = 0 /\ Counting(n, i + 1) = Counting(n, i) + 2
           /\ n.type = "array" => SlotType(n) = "list" /\ Counting(n, i + 1) = Counting(n, i) + 1
<1>1. "dict" # "array"
  OBVIOUS
<1>2. 2 * i \in Nat /\ (2 * i) % 2 = 0 /\ 2 * (i + 1) = 2 * i + 2 /\ 2 * 0 = 0
  OBVIOUS
<1>3. CASE n.type = "dict"
  BY <1>1, <1>2, <1>3 DEF SlotType, Counting
<1>4. CASE n.type = "array"
  BY <1>1, <1>4 DEF SlotType, Counting
<1> QED BY <1>3, <1>4

\* The delimiter before an item.
LEMMA DelimRead ==
    ASSUME NEW p, Ready(p), NEW n \in Docs, n.type \in {"array", "dict"}, NEW i \in Nat, NEW q, ItemsRead(q, p, n, i),
           NEW v, NEW d, NEW x, NEW y, NEW z, Framed(v, n, d, x, y, z)
    PROVE  \E r : Lexes(q, Delim(v, n, d, i + 1), r) /\ ItemNext(r, p, n, i)
<1>1. CASE i = 0
  <2>1. Delim(v, n, d, i + 1) = <<>>
    <3>1. Delim(v, n, d, 1) = <<>>
      BY Zenon DEF Framed
    <3>2. i + 1 = 1
      BY <1>1
    <3> QED BY ONLY <3>1, <3>2
  <2>2. Lexes(q, <<>>, q)
    BY ReadsNone
  <2>3. ItemNext(q, p, n, i)
    BY <1>1 DEF ItemsRead, ItemNext
  <2> QED BY ONLY <2>1, <2>2, <2>3
<1>2. CASE i # 0
  <2>1. i > 0 /\ i + 1 > 1 /\ i + 1 \in Nat
    BY <1>2
  <2>2. PICK comma : comma = ","
    OBVIOUS
  <2>3. Delim(v, n, d, i + 1) = <<comma>> \o y /\ y \in Seq(Whitespace)
    BY ONLY <2>1, <2>2, Framed(v, n, d, x, y, z), Zenon DEF Framed
  <2>4. IsText(y) /\ Range(y) \subseteq Whitespace
    BY ONLY <2>3, WhiteText
  <2>5. PICK b : b = Between(p.stack, SlotType(n), Counting(n, i), p.nodes, ReadSoFar(n, i), p.scalar)
    OBVIOUS
  <2>6. SameAfter(q, b)
    BY ONLY <2>1, <2>5, ItemsRead(q, p, n, i) DEF ItemsRead
  <2>7. Room(p.stack) /\ SlotType(n) \in {"object", "list"} /\ Counting(n, i) \in Nat
    BY SlotsAre DEF Ready
  <2>8. IsText(<<",">> \o y) /\ \E r : Lexes(b, <<",">> \o y, r) /\ ItemNext(r, p, n, i)
    BY ONLY <2>4, <2>5, <2>7, AfterComma, Zenon DEF ItemNext
  <2>9. PICK t : t = <<comma>> \o y
    OBVIOUS
  <2>10. PICK r : Lexes(b, t, r) /\ ItemNext(r, p, n, i)
    BY ONLY <2>2, <2>8, <2>9
  <2>11. IsText(t)
    BY ONLY <2>2, <2>8, <2>9
  <2>12. t # <<>> /\ t[1] = comma
    BY ONLY <2>4, <2>9 DEF IsText
  <2>13. Lex(b, t[1]) = Lex(q, t[1])
    <3>1. comma \in Follows
      BY ONLY <2>2, Zenon DEF Follows
    <3> QED BY ONLY <2>6, <2>12, <3>1 DEF SameAfter
  <2>14. Lexes(q, t, r)
    BY ONLY <2>10, <2>11, <2>12, <2>13, ReadsAlike
  <2> QED BY ONLY <2>3, <2>9, <2>10, <2>14
<1> QED BY <1>1, <1>2

\* What a child is read as, wherever it is read.
ChildFills(v, e, d) == \A q : Ready(q) /\ Fits(q, e) => Fills(q, Written(v, e, d), ReadBackOf(e))

\* A child of a container fits.
LEMMA ChildFits ==
    ASSUME NEW p, Room(p.stack), IsText(p.nodes), NEW n \in Docs, n.type \in {"array", "dict"}, Fits(p, n),
           NEW e \in Docs, DepthOf(e) < DepthOf(n)
    PROVE  /\ Len(p.stack) + 1 < Levels /\ Len(p.nodes) + 1 < Levels /\ Len(p.nodes) + 2 < Levels
           /\ \A q : /\ Len(q.stack) = Len(p.stack) + 1 /\ Topmost(q.stack).type \in {"object", "list"}
                    /\ Len(q.nodes) \in {Len(p.nodes) + 1, Len(p.nodes) + 2}
                    => Fits(q, e)
<1>1. DepthOf(e) \in Nat /\ DepthOf(n) \in Nat
  BY DocsAre
<1>2. /\ Len(p.stack) \in Nat /\ Levels \in Nat /\ Len(p.stack) + DepthOf(n) < Levels
      /\ Len(p.nodes) \in Nat /\ Len(p.nodes) + 2 * DepthOf(n) < Levels
  BY DEF Room, Fits, IsText
<1>3. Len(p.stack) + 1 < Levels /\ Len(p.nodes) + 1 < Levels /\ Len(p.nodes) + 2 < Levels
  BY <1>1, <1>2
<1>4. ASSUME NEW q, Len(q.stack) = Len(p.stack) + 1, Topmost(q.stack).type \in {"object", "list"},
             Len(q.nodes) \in {Len(p.nodes) + 1, Len(p.nodes) + 2}
      PROVE  Fits(q, e)
  <2>1. Len(q.stack) + DepthOf(e) < Levels /\ Len(q.nodes) + 2 * DepthOf(e) < Levels
    <3>1. PICK a, b, c, d : a = Len(p.stack) /\ b = Len(p.nodes) /\ c = DepthOf(e) /\ d = DepthOf(n)
      OBVIOUS
    <3>2. /\ a \in Nat /\ b \in Nat /\ c \in Nat /\ d \in Nat /\ c < d /\ Levels \in Nat
          /\ a + d < Levels /\ b + 2 * d < Levels
      BY <1>1, <1>2, <3>1
    <3>3. a + 1 + c < Levels /\ b + 1 + 2 * c < Levels /\ b + 2 + 2 * c < Levels
      BY ONLY <3>2
    <3> QED BY ONLY <1>4, <3>1, <3>3
  <2>2. Topmost(q.stack).type # "none"
    BY <1>4
  <2> QED BY <2>1, <2>2 DEF Fits
<1> QED BY <1>3, <1>4

\* An item of an array,
LEMMA ArrayItemRead ==
    ASSUME NEW p, Ready(p), NEW n \in Docs, n.type = "array", Fits(p, n), NEW i \in Nat, i < Len(n.entries), NEW r, ItemNext(r, p, n, i),
           NEW v \in Visitors, NEW D, ChildFills(v, n.entries[i + 1], D), IsSequence(Meaning(v, Entries(n)[i + 1], D))
    PROVE  \E q : Lexes(r, Meaning(v, Entries(n)[i + 1], D), q) /\ ItemsRead(q, p, n, i + 1)
<1>1. PICK e : e = n.entries[i + 1]
  OBVIOUS
<1>2. i + 1 \in 1..Len(n.entries) /\ i + 1 > 0 /\ i + 1 # 0 /\ i + 1 \in Nat
  BY DocsAre
<1>3. e \in Docs /\ DepthOf(e) < DepthOf(n)
  BY <1>1, <1>2, DocsAre
<1>4. n.type \in {"array", "dict"} /\ n.type # "dict"
  OBVIOUS
<1>5. SlotType(n) = "list" /\ Counting(n, i) \in Nat /\ Counting(n, i + 1) = Counting(n, i) + 1
  BY <1>4, SlotsAre
<1>6. Room(p.stack) /\ IsText(p.nodes)
  BY DEF Ready, Takes, IsText
<1>7. PICK a : a = ReadSoFar(n, i)
  OBVIOUS
<1>8. a.type = "array"
  BY <1>4, <1>7 DEF ReadSoFar, NewArrayNode, New
<1>9. Len(p.stack) + 1 < Levels /\ Len(p.nodes) + 1 < Levels
  BY <1>3, <1>4, <1>6, ChildFits
<1>10. PICK k \in Nat : k = Counting(n, i)
  BY <1>5
<1>11. ItemDue(r, p.stack, "list", k, p.nodes, a, p.scalar)
  BY ONLY <1>5, <1>7, <1>10, ItemNext(r, p, n, i) DEF ItemNext
<1>12. /\ Ready(r) /\ Topmost(r.stack).type = "list"
       /\ Len(r.stack) = Len(p.stack) + 1 /\ Len(r.nodes) = Len(p.nodes) + 1
       /\ \A m : Valued(r, m) = Between(p.stack, "list", k + 1, p.nodes, Node_ArrayAppend(a, m), p.scalar)
  <2>1. ListTakes(r, p.stack, k, p.nodes, a, p.scalar)
    BY ONLY <1>6, <1>8, <1>9, <1>10, <1>11, ListItem
  <2> QED BY ONLY <2>1 DEF ListTakes
<1>13. Fits(r, e)
  BY <1>3, <1>4, <1>6, <1>12, ChildFits
<1>14. PICK m : m = ReadBackOf(e)
  OBVIOUS
<1>15. PICK w : w = Written(v, e, D)
  OBVIOUS
<1>16. Fills(r, w, m)
  BY <1>1, <1>12, <1>13, <1>14, <1>15 DEF ChildFills
<1>17. Node_ArrayAppend(a, m) = ReadSoFar(n, i + 1)
  BY <1>1, <1>4, <1>7, <1>14, ReadNext
<1>18. PICK b : b = Between(p.stack, SlotType(n), Counting(n, i + 1), p.nodes, ReadSoFar(n, i + 1), p.scalar)
  OBVIOUS
<1>19. Valued(r, m) = b
  BY ONLY <1>5, <1>10, <1>12, <1>17, <1>18
<1>20. PICK q : Lexes(r, w, q) /\ SameAfter(q, b)
  BY ONLY <1>16, <1>19 DEF Fills
<1>21. ItemsRead(q, p, n, i + 1)
  BY ONLY <1>2, <1>18, <1>20 DEF ItemsRead
<1>22. Meaning(v, Entries(n)[i + 1], D) = w
  BY <1>1, <1>2, <1>4, <1>15, ChildIs
<1> QED BY ONLY <1>20, <1>21, <1>22

\* and a member of an object.
LEMMA MemberRead ==
    ASSUME NEW p, Ready(p), NEW n \in Docs, n.type = "dict", Fits(p, n), NEW i \in Nat, i < Len(n.entries), NEW r, ItemNext(r, p, n, i),
           NEW v \in Formats, v.space \in Seq(Whitespace),
           NEW D, ChildFills(v, n.entries[i + 1], D), IsSequence(Meaning(v, Entries(n)[i + 1], D))
    PROVE  \E q : Lexes(r, Meaning(v, Entries(n)[i + 1], D), q) /\ ItemsRead(q, p, n, i + 1)
<1>1. PICK e : e = n.entries[i + 1]
  OBVIOUS
<1>2. i + 1 \in 1..Len(n.entries) /\ i + 1 > 0 /\ i + 1 # 0 /\ i + 1 \in Nat
  BY DocsAre
<1>3. e \in Docs /\ DepthOf(e) < DepthOf(n)
  BY <1>1, <1>2, DocsAre
<1>4. n.type \in {"array", "dict"} /\ v \in Visitors
  BY DEF Visitors
<1>5. SlotType(n) = "object" /\ Counting(n, i) \in Nat /\ Counting(n, i) % 2 = 0 /\ Counting(n, i + 1) = Counting(n, i) + 2
  BY <1>4, SlotsAre
<1>6. Room(p.stack) /\ IsText(p.nodes)
  BY DEF Ready, Takes, IsText
<1>7. PICK a : a = ReadSoFar(n, i)
  OBVIOUS
<1>8. PICK key : key = n.keys[i + 1]
  OBVIOUS
<1>9. IsPlain(key) /\ IsSequence(key)
  <2>1. IsSequence(key)
    BY <1>2, <1>8, DocsAre
  <2>2. i + 1 \in DOMAIN n.keys
    <3>1. IsSequence(n.keys) /\ Len(n.keys) = Len(n.entries)
      BY DocsAre
    <3> QED BY <1>2, <3>1 DEF IsSequence
  <2>3. Plain(key)
    BY <1>8, <2>2, ReadBackAssumption
  <2> QED BY <2>1, <2>3, Zenon DEF IsPlain, Plain, IsText, IsSequence, Breaks
<1>10. Len(p.stack) + 1 < Levels /\ Len(p.nodes) + 2 < Levels
  BY <1>3, <1>4, <1>6, ChildFits
<1>11. PICK k \in Nat : k = Counting(n, i)
  BY <1>5
<1>12. ItemDue(r, p.stack, "object", k, p.nodes, a, p.scalar)
  BY ONLY <1>5, <1>7, <1>11, ItemNext(r, p, n, i) DEF ItemNext
<1>13. IsText(v.space) /\ IsSequence(v.space) /\ Range(v.space) \subseteq Whitespace
  BY WhiteText
<1>14. PICK y : y = Quoted(key) \o (<<":">> \o v.space)
  BY Zenon
<1>15. k % 2 = 0
  BY ONLY <1>5, <1>11
<1>16. IsText(y) /\ \E q : Lexes(r, y, q) /\ KeyTakes(q, p.stack, k, p.nodes, a, key, p.scalar)
  BY ONLY <1>6, <1>9, <1>10, <1>11, <1>12, <1>13, <1>14, <1>15, KeyItem
<1>17. PICK q : /\ Lexes(r, y, q) /\ Ready(q)
                /\ Topmost(q.stack).type = "object"
                /\ Len(q.stack) = Len(p.stack) + 1 /\ Len(q.nodes) = Len(p.nodes) + 2
                /\ \A m : Valued(q, m)
                            = Between(p.stack, "object", k + 2, p.nodes, Node_DictSetKeyVal(a, KeyVal(key, m)), p.scalar)
  BY ONLY <1>16 DEF KeyTakes
<1>18. Fits(q, e)
  BY <1>3, <1>4, <1>6, <1>17, ChildFits
<1>19. PICK m : m = ReadBackOf(e)
  OBVIOUS
<1>20. PICK w : w = Written(v, e, D)
  OBVIOUS
<1>21. Fills(q, w, m)
  BY <1>1, <1>17, <1>18, <1>19, <1>20 DEF ChildFills
<1>22. Node_DictSetKeyVal(a, KeyVal(key, m)) = ReadSoFar(n, i + 1)
  BY <1>1, <1>4, <1>7, <1>8, <1>19, ReadNext
<1>23. PICK b : b = Between(p.stack, SlotType(n), Counting(n, i + 1), p.nodes, ReadSoFar(n, i + 1), p.scalar)
  OBVIOUS
<1>24. Valued(q, m) = b
  BY ONLY <1>5, <1>11, <1>17, <1>22, <1>23
<1>25. PICK u : Lexes(r, y \o w, u) /\ SameAfter(u, b)
  BY ONLY <1>16, <1>17, <1>21, <1>24, FillsAfter
<1>26. ItemsRead(u, p, n, i + 1)
  BY ONLY <1>2, <1>23, <1>25 DEF ItemsRead
<1>27. Meaning(v, Entries(n)[i + 1], D) = y \o w
  <2>1. Meaning(v, Entries(n)[i + 1], D) = Key(v, key) \o w
    BY <1>1, <1>2, <1>4, <1>8, <1>20, ChildIs
  <2>2. PICK c : c = <<":">>
    BY Zenon
  <2>3. v.kind = "json"
    BY FormatsAssumption DEF ToJSON, Visitor
  <2>4. Key(v, key) = (Quoted(key) \o c) \o v.space
    BY <2>2, <2>3 DEF Key
  <2>5. IsSequence(c) /\ IsSequence(Quoted(key))
    BY <1>9, <2>2, SmallSequences, QuotedIs
  <2>6. (Quoted(key) \o c) \o v.space = Quoted(key) \o (c \o v.space)
    <3>1. PICK h : h = Quoted(key)
      OBVIOUS
    <3>2. PICK g : g = v.space
      OBVIOUS
    <3>3. IsSequence(h) /\ IsSequence(c) /\ IsSequence(g)
      BY ONLY <1>13, <2>5, <3>1, <3>2
    <3>4. (h \o c) \o g = h \o (c \o g)
      BY ONLY <3>3, Associates, SMTT(40)
    <3> QED BY ONLY <3>1, <3>2, <3>4
  <2> QED BY ONLY <1>14, <2>1, <2>2, <2>4, <2>6
<1> QED BY ONLY <1>25, <1>26, <1>27

\* The bracket that begins a container.
LEMMA BeginningRead ==
    ASSUME NEW p, Ready(p), NEW n \in Docs, n.type \in {"array", "dict"},
           NEW v, NEW d, NEW x, NEW y, NEW z, Framed(v, n, d, x, y, z)
    PROVE  \E q : Lexes(p, fBegin(v, n, d), q) /\ ItemsRead(q, p, n, 0)
<1>1. x \in Seq(Whitespace) /\ fBegin(v, n, d) = <<OpenedBy(n)>> \o x
  BY Zenon DEF Framed
<1>2. IsText(x) /\ Range(x) \subseteq Whitespace
  BY ONLY <1>1, WhiteText
<1>3. PICK o : o = "["
  OBVIOUS
<1>4. PICK c : c = "{"
  OBVIOUS
<1>5. /\ \E q : /\ Lexes(p, <<o>> \o x, q) /\ IsText(<<o>> \o x) /\ q.tok_last = ""
                /\ ItemDue(q, p.stack, "list", 0, p.nodes, NewArrayNode(<<>>), p.scalar)
      /\ \E q : /\ Lexes(p, <<c>> \o x, q) /\ IsText(<<c>> \o x) /\ q.tok_last = ""
                /\ ItemDue(q, p.stack, "object", 0, p.nodes, NewDictNode(<<>>, <<>>), p.scalar)
  BY ONLY <1>2, <1>3, <1>4, Ready(p), Opens, Zenon
<1>6. PICK z0 \in Nat : z0 = 0
  OBVIOUS
<1>7. ~(z0 > 0)
  BY <1>6
<1>8. CASE n.type = "dict"
  <2>1. OpenedBy(n) = c
    BY <1>4, <1>8 DEF OpenedBy
  <2>2. PICK q : Lexes(p, <<c>> \o x, q) /\ q.tok_last = ""
                 /\ ItemDue(q, p.stack, "object", 0, p.nodes, NewDictNode(<<>>, <<>>), p.scalar)
    BY ONLY <1>5
  <2>3. SlotType(n) = "object" /\ Counting(n, 0) = 0 /\ ReadSoFar(n, 0) = NewDictNode(<<>>, <<>>)
    BY <1>6, <1>8, SlotsAre, ReadNone
  <2>4. ItemsRead(q, p, n, z0)
    BY ONLY <1>6, <1>7, <2>2, <2>3 DEF ItemsRead
  <2> QED BY ONLY <1>1, <1>6, <2>1, <2>2, <2>4
<1>9. CASE n.type = "array"
  <2>1. OpenedBy(n) = o
    BY <1>3, <1>9 DEF OpenedBy
  <2>2. PICK q : Lexes(p, <<o>> \o x, q) /\ q.tok_last = ""
                 /\ ItemDue(q, p.stack, "list", 0, p.nodes, NewArrayNode(<<>>), p.scalar)
    BY ONLY <1>5
  <2>3. SlotType(n) = "list" /\ Counting(n, 0) = 0 /\ ReadSoFar(n, 0) = NewArrayNode(<<>>)
    BY <1>6, <1>9, SlotsAre, ReadNone
  <2>4. ItemsRead(q, p, n, z0)
    BY ONLY <1>6, <1>7, <2>2, <2>3 DEF ItemsRead
  <2> QED BY ONLY <1>1, <1>6, <2>1, <2>2, <2>4
<1> QED BY <1>8, <1>9

\* A container closes after its items.
LEMMA ClosedRead ==
    ASSUME NEW p, Ready(p), NEW n \in Docs, n.type \in {"array", "dict"}, NEW i \in Nat, NEW a, a = ReadSoFar(n, i),
           NEW q, Live(q), q.stack = Items(p.stack, SlotType(n), Counting(n, i)), q.nodes = Append(p.nodes, a),
           q.chars = <<>>, q.escapes = Unescaped, q.scalar = p.scalar, q.tok_last # ",",
           NEW z \in Seq(Whitespace)
    PROVE  Lexes(q, z \o <<ClosedBy(n)>>, Valued(p, a)) /\ IsText(z \o <<ClosedBy(n)>>)
<1>1. IsText(z) /\ Range(z) \subseteq Whitespace
  BY WhiteText
<1>2. Room(p.stack) /\ Takes(p.nodes)
  BY Zenon DEF Ready
<1>3. PICK o : o = "]"
  OBVIOUS
<1>4. PICK c : c = "}"
  OBVIOUS
<1>5. PICK k \in Nat : k = Counting(n, i)
  <2>1. Counting(n, i) \in Nat
    BY ONLY i \in Nat DEF Counting
  <2> QED BY ONLY <2>1
<1>6. PICK r : r = Valued(p, a)
  OBVIOUS
<1>7. r = Ctx(Bumped(p.stack), ",", "", FALSE, With(p.nodes, a), <<>>, Unescaped, p.scalar)
  BY ONLY <1>6, Zenon DEF Valued
<1>8. /\ Live(q) /\ q.nodes = Append(p.nodes, a) /\ q.chars = <<>> /\ q.escapes = Unescaped /\ q.scalar = p.scalar
      /\ q.tok_last # ","
  BY Zenon
<1>9. /\ q.stack = Items(p.stack, "list", k) => Lexes(q, z \o <<o>>, r) /\ IsText(z \o <<o>>)
      /\ q.stack = Items(p.stack, "object", k) /\ k % 2 = 0 => Lexes(q, z \o <<c>>, r) /\ IsText(z \o <<c>>)
  BY ONLY <1>1, <1>2, <1>3, <1>4, <1>5, <1>7, <1>8, Closes, Zenon
<1>10. CASE n.type = "dict"
  <2>1. ClosedBy(n) = c
    BY <1>4, <1>10 DEF ClosedBy
  <2>2. SlotType(n) = "object" /\ k % 2 = 0
    BY ONLY <1>5, <1>10, i \in Nat, SlotsAre
  <2>3. q.stack = Items(p.stack, "object", k)
    BY <1>5, <2>2
  <2> QED BY ONLY <1>6, <1>9, <2>1, <2>2, <2>3
<1>11. CASE n.type = "array"
  <2>1. ClosedBy(n) = o
    BY <1>3, <1>11 DEF ClosedBy
  <2>2. SlotType(n) = "list"
    BY ONLY <1>11, i \in Nat, SlotsAre
  <2>3. q.stack = Items(p.stack, "list", k)
    BY <1>5, <2>2
  <2> QED BY ONLY <1>6, <1>9, <2>1, <2>3
<1> QED BY <1>10, <1>11

\* A container that has been read is closed.
LEMMA EndingRead ==
    ASSUME NEW p, Ready(p), NEW n \in Docs, n.type \in {"array", "dict"}, NEW i \in Nat, NEW q, ItemsRead(q, p, n, i),
           NEW z \in Seq(Whitespace)
    PROVE  Lexes(q, z \o <<ClosedBy(n)>>, Valued(p, ReadSoFar(n, i))) /\ IsText(z \o <<ClosedBy(n)>>)
<1>1. PICK a : a = ReadSoFar(n, i)
  OBVIOUS
<1>2. CASE i = 0
  <2>1. q.tok_last = "" /\ ItemDue(q, p.stack, SlotType(n), Counting(n, i), p.nodes, a, p.scalar)
    BY <1>1, <1>2 DEF ItemsRead
  <2>2. q.tok_last # ","
    <3>1. "" # ","
      BY ONLY <1>2
    <3> QED BY ONLY <2>1, <3>1
  <2>3. /\ Live(q) /\ q.stack = Items(p.stack, SlotType(n), Counting(n, i)) /\ q.nodes = Append(p.nodes, a)
        /\ q.chars = <<>> /\ q.escapes = Unescaped /\ q.scalar = p.scalar
    BY ONLY <2>1, Zenon DEF ItemDue
  <2> QED BY <1>1, <2>2, <2>3, ClosedRead
<1>3. CASE i # 0
  <2>1. PICK b : b = Between(p.stack, SlotType(n), Counting(n, i), p.nodes, a, p.scalar)
    OBVIOUS
  <2>2. i > 0
    BY <1>3
  <2>3. SameAfter(q, b)
    BY ONLY <1>1, <2>1, <2>2, ItemsRead(q, p, n, i) DEF ItemsRead
  <2>4. Has(b, Items(p.stack, SlotType(n), Counting(n, i)), ",", "", FALSE, Append(p.nodes, a), <<>>, Unescaped, p.scalar)
    BY ONLY <2>1, HasAll, Zenon DEF Between
  <2>5. /\ Live(b) /\ b.stack = Items(p.stack, SlotType(n), Counting(n, i)) /\ b.nodes = Append(p.nodes, a)
        /\ b.chars = <<>> /\ b.escapes = Unescaped /\ b.scalar = p.scalar /\ b.tok_last = ""
    BY ONLY <2>4, Zenon DEF Has
  <2>6. b.tok_last # ","
    <3>1. "" # ","
      BY ONLY <1>3
    <3> QED BY ONLY <2>5, <3>1
  <2>7. PICK c : c = ClosedBy(n)
    OBVIOUS
  <2>8. PICK t : t = z \o <<c>>
    OBVIOUS
  <2>9. Lexes(b, t, Valued(p, a)) /\ IsText(t)
    BY <1>1, <2>5, <2>6, <2>7, <2>8, ClosedRead
  <2>10. t # <<>> /\ t[1] \in Follows
    <3>1. c \in Follows
      BY <2>7, Zenon DEF ClosedBy, Follows
    <3>2. PICK U : U = Whitespace
      OBVIOUS
    <3>3. z \in Seq(U)
      BY <3>2
    <3>4. t # <<>> /\ (t[1] = c \/ t[1] \in U)
      BY ONLY <2>8, <3>3
    <3>5. U \subseteq Follows
      BY ONLY <3>2, Zenon DEF Follows
    <3> QED BY ONLY <3>1, <3>4, <3>5
  <2>11. Lex(b, t[1]) = Lex(q, t[1])
    BY ONLY <2>3, <2>10 DEF SameAfter
  <2>12. Lexes(q, t, Valued(p, a))
    BY ONLY <2>9, <2>10, <2>11, ReadsAlike
  <2> QED BY ONLY <1>1, <2>7, <2>8, <2>9, <2>12
<1> QED BY <1>2, <1>3


-----------------------------------------------------------------------------
(* Reading whole documents.                                                *)

\* A container has been read up to the first i of its children.
ReadTo(p, v, n, d, i) == \E q : Lexes(p, Opening(v, n, d, i), q) /\ ItemsRead(q, p, n, i)

\* What the children of a container are read as.
ChildrenFill(v, n, d) == \A e \in Docs : DepthOf(e) < DepthOf(n) /\ Within(e, d) => ChildFills(v, e, d)

\* The depth has room for a child.
LEMMA ChildWithin ==
    ASSUME NEW n \in Docs, NEW d, Within(n, d), NEW i \in 1..Len(n.entries)
    PROVE  n.entries[i] \in Docs /\ DepthOf(n.entries[i]) < DepthOf(n) /\ Within(n.entries[i], d + 1)
<1>1. PICK e : e = n.entries[i]
  OBVIOUS
<1>2. e \in Docs /\ DepthOf(e) < DepthOf(n)
  BY <1>1, DocsAre
<1>3. n.type # "keyval" /\ e.type # "keyval"
  BY <1>2, DocsAre DEF ScalarTypes
<1>4. DepthOf(e) \in Nat /\ DepthOf(n) \in Nat /\ Deepest \in Nat
  BY <1>2, DocsAre
<1>5. d \in Nat /\ d + DepthOf(n) <= Deepest
  BY <1>3 DEF Within, Height
<1>6. d + 1 \in Nat /\ d + 1 + DepthOf(e) <= Deepest
  BY <1>2, <1>4, <1>5
<1>7. Within(e, d + 1)
  BY <1>3, <1>6 DEF Within, Height
<1> QED BY <1>1, <1>2, <1>7

\* One child more.
LEMMA NextRead ==
    ASSUME Spaced, NEW v \in Formats, NEW p, Ready(p), NEW n \in Docs, n.type \in {"array", "dict"}, Fits(p, n),
           NEW d, Within(n, d), ChildrenFill(v, n, d + 1), NEW x, NEW y, NEW z, Framed(v, n, d, x, y, z),
           NEW i \in Nat, i < Len(n.entries), ReadTo(p, v, n, d, i)
    PROVE  ReadTo(p, v, n, d, i + 1)
<1>1. v \in Visitors /\ Visited(n) /\ d \in Nat
  BY DEF Visitors, Visited, Within
<1>2. ChildrenWritten(v, n, d)
  BY <1>1, Whole
<1>3. Len(Entries(n)) = Len(n.entries) /\ Len(n.entries) \in Nat /\ Deeper(v, n) = 1
  BY <1>1, EntriesAre, DocsAre, Frames
<1>4. i + 1 \in 1..Len(n.entries) /\ i + 1 \in Nat /\ i + 1 <= Len(Entries(n)) /\ i <= Len(Entries(n))
  BY <1>3
<1>5. PICK D : D = d + 1
  OBVIOUS
<1>6. PICK o : o = Opening(v, n, d, i)
  OBVIOUS
<1>7. PICK l : l = Delim(v, n, d, i + 1)
  OBVIOUS
<1>8. PICK w : w = Meaning(v, Entries(n)[i + 1], D)
  OBVIOUS
<1>9. IsSequence(o) /\ IsSequence(l) /\ IsSequence(w)
  <2>1. IsSequence(o)
    BY <1>1, <1>2, <1>4, <1>6, PartsAre
  <2>2. IsSequence(l)
    BY <1>1, <1>7, PiecesAre
  <2>3. IsSequence(w)
    BY <1>2, <1>3, <1>4, <1>5, <1>8 DEF ChildrenWritten
  <2> QED BY <2>1, <2>2, <2>3
<1>10. IsText(o) /\ IsText(l) /\ IsText(w)
  BY ONLY <1>9 DEF IsText, IsSequence
<1>11. Opening(v, n, d, i + 1) = (o \o l) \o w
  <2>1. Opening(v, n, d, i + 1)
          = (Opening(v, n, d, i) \o Delim(v, n, d, i + 1)) \o Meaning(v, Entries(n)[i + 1], d + Deeper(v, n))
    BY ONLY <1>1, <1>2, <1>4, i \in Nat, OpeningNext
  <2>2. d + Deeper(v, n) = D
    BY ONLY <1>3, <1>5
  <2> QED BY ONLY <1>6, <1>7, <1>8, <2>1, <2>2
<1>12. PICK q : Lexes(p, o, q) /\ ItemsRead(q, p, n, i)
  BY <1>6 DEF ReadTo
<1>13. PICK r : Lexes(q, l, r) /\ ItemNext(r, p, n, i)
  BY <1>7, <1>12, DelimRead
<1>14. ChildFills(v, n.entries[i + 1], D)
  BY <1>4, <1>5, ChildWithin DEF ChildrenFill
<1>15. \E u : Lexes(r, w, u) /\ ItemsRead(u, p, n, i + 1)
  <2>1. CASE n.type = "array"
    BY <1>1, <1>8, <1>9, <1>13, <1>14, <2>1, ArrayItemRead
  <2>2. CASE n.type = "dict"
    <3>1. v.space \in Seq(Whitespace)
      BY DEF Spaced
    <3> QED BY <1>8, <1>9, <1>13, <1>14, <2>2, <3>1, MemberRead
  <2> QED BY <2>1, <2>2
<1>16. PICK u : Lexes(r, w, u) /\ ItemsRead(u, p, n, i + 1)
  BY <1>15
<1>17. Lexes(p, o \o l, r) /\ IsText(o \o l)
  BY ONLY <1>10, <1>12, <1>13, ReadsOn
<1>18. PICK g : g = o \o l
  OBVIOUS
<1>19. Lexes(p, g \o w, u)
  BY ONLY <1>10, <1>16, <1>17, <1>18, ReadsOn
<1> QED BY <1>11, <1>16, <1>18, <1>19 DEF ReadTo

\* What is written of a container is read as it.
LEMMA ContainerFills ==
    ASSUME Spaced, NEW v \in Formats, NEW p, Ready(p), NEW n \in Docs, n.type \in {"array", "dict"}, Fits(p, n),
           NEW d, Within(n, d), ChildrenFill(v, n, d + 1)
    PROVE  Lexes(p, Written(v, n, d), Valued(p, ReadBackOf(n))) /\ IsText(Written(v, n, d))
<1>1. v \in Visitors /\ Visited(n) /\ d \in Nat /\ n.type # "keyval"
  BY DocsAre DEF Visitors, Visited, Within, ScalarTypes
<1>2. PICK x, y, z : Framed(v, n, d, x, y, z)
  BY <1>1, Frames
<1>3. PICK k \in Nat : k = Len(n.entries) /\ k = Len(Entries(n))
  BY EntriesAre, DocsAre
<1>4. ReadTo(p, v, n, d, 0)
  <2>1. Opening(v, n, d, 0) = fBegin(v, n, d)
    BY <1>1, OpeningNone
  <2>2. \E q : Lexes(p, fBegin(v, n, d), q) /\ ItemsRead(q, p, n, 0)
    BY <1>2, BeginningRead
  <2> QED BY <2>1, <2>2 DEF ReadTo
<1> DEFINE S == {i \in Nat : i <= k => ReadTo(p, v, n, d, i)}
<1>5. 0 \in S
  BY <1>4
<1>6. ASSUME NEW i \in Nat, i \in S PROVE i + 1 \in S
  <2>1. SUFFICES ASSUME i + 1 <= k PROVE ReadTo(p, v, n, d, i + 1)
    OBVIOUS
  <2>2. i < Len(n.entries) /\ ReadTo(p, v, n, d, i)
    BY <1>3, <1>6, <2>1
  <2> QED BY <1>2, <2>2, NextRead
<1>7. k \in S
  <2> HIDE DEF S
  <2> QED BY <1>5, <1>6, Joining!NatSet
<1>8. PICK o : o = Opening(v, n, d, k)
  OBVIOUS
<1>9. PICK q : Lexes(p, o, q) /\ ItemsRead(q, p, n, k)
  BY <1>7, <1>8 DEF ReadTo
<1>10. IsText(o)
  <2>1. ChildrenWritten(v, n, d) /\ k <= Len(Entries(n))
    BY <1>1, <1>3, Whole
  <2>2. IsSequence(o)
    BY <1>1, <1>8, <2>1, PartsAre
  <2> QED BY ONLY <2>2 DEF IsText, IsSequence
<1>11. z \in Seq(Whitespace) /\ fEnd(v, n, d + Deeper(v, n)) = z \o <<ClosedBy(n)>>
  BY <1>2, Zenon DEF Framed
<1>12. PICK e : e = z \o <<ClosedBy(n)>>
  OBVIOUS
<1>13. Lexes(q, e, Valued(p, ReadSoFar(n, k))) /\ IsText(e)
  BY <1>9, <1>11, <1>12, EndingRead
<1>14. ReadSoFar(n, k) = ReadBackOf(n)
  BY <1>3, ReadAll
<1>15. Written(v, n, d) = o \o e
  <2>1. Meaning(v, n, d) = o \o e
    BY <1>1, <1>3, <1>8, <1>11, <1>12, Whole
  <2> QED BY <1>1, <2>1 DEF Meaning
<1>16. Lexes(p, o \o e, Valued(p, ReadBackOf(n))) /\ IsText(o \o e)
  BY ONLY <1>9, <1>10, <1>13, <1>14, ReadsOn
<1> QED BY ONLY <1>15, <1>16


\* What a scalar other than a string is written as is one token.
LEMMA ScalarToken ==
    ASSUME NEW n, n.type \in {"null", "boolean", "integer", "number"}
    PROVE  Scalar(n) = <<Scalar(n)[1]>>
<1>1. PICK t : t = IF n.num = 1 THEN "true" ELSE "false"
  OBVIOUS
<1>2. PICK u : u = NumberText(n)
  OBVIOUS
<1>3. PICK w : w = "null"
  OBVIOUS
<1>4. CASE n.type = "null"
  <2>1. Scalar(n) = <<w>>
    BY <1>3, <1>4 DEF Scalar
  <2> QED BY <2>1
<1>5. CASE n.type = "boolean"
  <2>1. Scalar(n) = <<t>>
    BY <1>1, <1>5 DEF Scalar
  <2> QED BY <2>1
<1>6. CASE n.type \in {"integer", "number"}
  <2>1. Scalar(n) = <<u>>
    BY <1>2, <1>6 DEF Scalar
  <2> QED BY <2>1
<1> QED BY <1>4, <1>5, <1>6

\* A string is read back as it was.
LEMMA StringsSame ==
    ASSUME NEW n \in Docs, n.type = "string"
    PROVE  ReadBackOf(n) = NewStringNode(n.str)
<1>1. n = NewStringNode(n.str)
  BY DocsMade
<1>2. PICK e : e = <<>>
  OBVIOUS
<1>3. n.entries = e
  BY <1>2, DocsAre DEF ScalarTypes
<1>4. PICK f : f = [i \in DOMAIN n.entries |-> ReadBackOf(n.entries[i])]
  OBVIOUS
<1>5. f = e
  BY <1>2, <1>3, <1>4
<1>6. ReadBackOf(n) = ReadBackFrom(n, f)
  BY <1>4, ReadBackAssumption
<1>7. n.type # "number"
  OBVIOUS
<1>8. ReadBackOf(n) = [n EXCEPT !.entries = f]
  BY ONLY <1>6, <1>7 DEF ReadBackFrom
<1>9. [n EXCEPT !.entries = f] = n
  BY <1>1, <1>3, <1>5 DEF NewStringNode, New
<1> QED BY <1>1, <1>8, <1>9

\* What is written of a scalar is read as it.
LEMMA ScalarFills ==
    ASSUME NEW v \in Formats, NEW p, Ready(p), NEW n \in Docs, n.type \in ScalarTypes, Fits(p, n), NEW d, Within(n, d)
    PROVE  Fills(p, Written(v, n, d), ReadBackOf(n))
<1>1. v \in Visitors /\ v.kind = "json" /\ n.type \notin {"array", "dict"}
  <2>1. v.kind = "json"
    BY FormatsAssumption DEF ToJSON, Visitor
  <2> QED BY <2>1 DEF Visitors, ScalarTypes
<1>2. Written(v, n, d) = Scalar(n)
  <2>1. PICK r : r = [i \in DOMAIN n.entries |-> WrittenAs(n.entries[i], v, d + 1)]
    OBVIOUS
  <2>2. Written(v, n, d) = TextFrom(n, v, d, r)
    BY <1>1, <2>1, WrittenIs
  <2> QED BY ONLY <1>1, <2>2 DEF TextFrom
<1>3. CASE n.type = "string"
  <2>1. Scalar(n) = Quoted(n.str)
    BY <1>3 DEF Scalar
  <2>2. IsSequence(n.str) /\ Plain(n.str)
    BY <1>3, DocsAre, ReadBackAssumption
  <2>3. IsPlain(n.str)
    BY <2>2, Zenon DEF IsPlain, Plain, IsText, IsSequence, Breaks
  <2>4. Topmost(p.stack).type # "none"
    BY <1>3 DEF Fits
  <2>5. Fills(p, Quoted(n.str), NewStringNode(n.str))
    BY <2>3, <2>4, StringFills
  <2> QED BY <1>2, <1>3, <2>1, <2>5, StringsSame
<1>4. CASE n.type \in {"null", "boolean", "integer", "number"}
  <2>1. ReadsScalar(n)
    BY <1>4, ReadBackAssumption
  <2>2. PICK c : c = Scalar(n)[1]
    OBVIOUS
  <2>3. c \in DOMAIN Literals \ OutOfRange /\ Literals[c] = ReadBackOf(n)
    BY <2>1, <2>2 DEF ReadsScalar
  <2>4. Scalar(n) = <<c>>
    BY <1>4, <2>2, ScalarToken
  <2> QED BY <1>2, <2>3, <2>4, SpecialRead
<1> QED BY <1>3, <1>4 DEF ScalarTypes

\* What is written of any document is read as it, by induction on the depth of
\* the document.
LEMMA AllFill ==
    ASSUME Spaced, NEW v \in Formats
    PROVE  \A n \in Docs : \A d : Within(n, d) => ChildFills(v, n, d)
<1> DEFINE S == {k \in Nat : \A n \in Docs : \A d : Within(n, d) /\ DepthOf(n) < k => ChildFills(v, n, d)}
<1>1. 0 \in S
  BY DocsAre
<1>2. ASSUME NEW k \in Nat, k \in S PROVE k + 1 \in S
  <2>1. ASSUME NEW n \in Docs, NEW d, Within(n, d), DepthOf(n) < k + 1
        PROVE  ChildFills(v, n, d)
    <3>1. DepthOf(n) \in Nat /\ \A e \in Docs : DepthOf(e) \in Nat
      BY DocsAre
    <3>2. \A e \in Docs : DepthOf(e) < DepthOf(n) => DepthOf(e) < k
      BY <2>1, <3>1
    <3>3. ChildrenFill(v, n, d + 1)
      BY <1>2, <3>2 DEF ChildrenFill
    <3>4. ASSUME NEW p, Ready(p), Fits(p, n)
          PROVE  Fills(p, Written(v, n, d), ReadBackOf(n))
      <4>1. CASE n.type \in {"array", "dict"}
        <5>1. Lexes(p, Written(v, n, d), Valued(p, ReadBackOf(n))) /\ IsText(Written(v, n, d))
          BY <2>1, <3>3, <3>4, <4>1, ContainerFills
        <5> QED BY <5>1, ValuedFills
      <4>2. CASE n.type \in ScalarTypes
        BY <2>1, <3>4, <4>2, ScalarFills
      <4> QED BY <4>1, <4>2, DocsAre
    <3> QED BY <3>4 DEF ChildFills
  <2> QED BY <2>1
<1>3. \A k \in Nat : k \in S
  <2> HIDE DEF S
  <2> QED BY <1>1, <1>2, Joining!NatSet
<1>4. ASSUME NEW n \in Docs, NEW d, Within(n, d) PROVE ChildFills(v, n, d)
  <2>1. DepthOf(n) \in Nat
    BY DocsAre
  <2>2. PICK k \in Nat : k = DepthOf(n) + 1
    BY <2>1
  <2>3. k \in S /\ DepthOf(n) < k
    BY <1>3, <2>1, <2>2
  <2> QED BY <1>4, <2>3
<1> QED BY <1>4


-----------------------------------------------------------------------------
(* Reading a text from its beginning to its end.                           *)

\* The context before the first token that is not whitespace is read.
Blank(sc) == Ctx(<<Slot("none")>>, "", "", TRUE, <<>>, <<>>, Unescaped, sc)

\* The array of nodes has room for objects nested as deep as the documents are
\* and a value in them, and the lexer for a list around a scalar.
Roomy == Levels \in Nat /\ 2 * Deepest + 1 <= Levels /\ 3 <= Levels

\* The context accepts a document that fits.
LEMMA BlankReady ==
    ASSUME Roomy, NEW sc
    PROVE  Ready(Blank(sc)) /\ Len(Blank(sc).stack) = 1 /\ Blank(sc).nodes = <<>> /\ Blank(sc).scalar = sc
<1>1. PICK s : s = <<Slot("none")>>
  OBVIOUS
<1>2. PICK e : e = <<>>
  OBVIOUS
<1>3. PICK b : b = Blank(sc)
  OBVIOUS
<1>4. Has(b, s, "", "", TRUE, e, e, Unescaped, sc)
  BY <1>1, <1>2, <1>3, HasAll DEF Blank
<1>5. /\ Live(b) /\ b.stack = s /\ b.can_insert = TRUE /\ b.nodes = e /\ b.chars = e /\ b.escapes = Unescaped /\ b.scalar = sc
  BY ONLY <1>4 DEF Has
<1>6. s \in Seq(Slots) /\ s # <<>> /\ Len(s) = 1 /\ Topmost(s).type = "none"
  <2>1. PICK l : l = Slot("none")
    OBVIOUS
  <2>2. l \in Slots /\ l.type = "none"
    BY <2>1 DEF Slot, Slots
  <2>3. s \in Seq(Slots) /\ s # <<>> /\ Len(s) = 1 /\ s[1] = l
    BY ONLY <1>1, <2>1, <2>2
  <2> QED BY ONLY <2>2, <2>3 DEF Topmost
<1>7. ValueDue(s) /\ Room(s) /\ Topmost(s).type # "object"
  <2>1. Levels \in Nat /\ 1 < Levels
    BY DEF Roomy
  <2> QED BY ONLY <1>6, <2>1 DEF ValueDue, Outer, Room
<1>8. Takes(e) /\ Free(e)
  <2>1. Len(e) = 0 /\ 0 < Levels
    BY <1>2 DEF Roomy
  <2> QED BY <1>2, <2>1, EmptySeq DEF Takes, Free
<1>9. Ready(b)
  BY ONLY <1>2, <1>5, <1>7, <1>8 DEF Ready
<1> QED BY <1>2, <1>3, <1>5, <1>6, <1>9

\* The first token decides whether the text is embedded in a list.
LEMMA EmbeddedIs ==
    ASSUME NEW c
    PROVE  /\ c \in {"{", "["} => Embedded(Reset(Unescaped), c) = Blank(FALSE)
           /\ c \notin {"{", "["} => Embedded(Reset(Unescaped), c) = Lex(Blank(TRUE), "[")
<1>1. PICK s : s = <<Slot("none")>>
  OBVIOUS
<1>2. PICK e : e = <<>>
  OBVIOUS
<1>3. PICK u : u = Unescaped
  OBVIOUS
<1>4. PICK p : p = Reset(Unescaped)
  OBVIOUS
<1>5. p = [stack |-> s, expecting |-> "", tok_last |-> "", can_insert |-> TRUE,
           err |-> "none", nodes |-> e, chars |-> e, escapes |-> u, scalar |-> FALSE,
           outcome |-> "leading", node |-> NullNode]
  BY ONLY <1>1, <1>2, <1>3, <1>4 DEF Reset
<1>6. [p EXCEPT !.outcome = "parsing"] = Blank(FALSE) /\ [p EXCEPT !.outcome = "parsing", !.scalar = TRUE] = Blank(TRUE)
  <2>1. PICK em : em = ""
    OBVIOUS
  <2>2. PICK yes, no : yes = TRUE /\ no = FALSE
    OBVIOUS
  <2>3. p = [stack |-> s, expecting |-> em, tok_last |-> em, can_insert |-> yes,
             err |-> "none", nodes |-> e, chars |-> e, escapes |-> u, scalar |-> no,
             outcome |-> "leading", node |-> NullNode]
    BY ONLY <1>5, <2>1, <2>2, Zenon
  <2>4. /\ [p EXCEPT !.outcome = "parsing"] = Ctx(s, em, em, yes, e, e, u, no)
        /\ [p EXCEPT !.outcome = "parsing", !.scalar = yes] = Ctx(s, em, em, yes, e, e, u, yes)
    <3>1. [p EXCEPT !.outcome = "parsing"] = Ctx(s, em, em, yes, e, e, u, no)
      BY ONLY <2>3 DEF Ctx
    <3>2. PICK q : q = Ctx(s, em, em, yes, e, e, u, no)
      OBVIOUS
    <3>3. [q EXCEPT !.scalar = yes] = Ctx(s, em, em, yes, e, e, u, yes)
      BY ONLY <3>2 DEF Ctx
    <3>4. [p EXCEPT !.outcome = "parsing", !.scalar = yes] = [q EXCEPT !.scalar = yes]
      BY ONLY <3>1, <3>2
    <3> QED BY ONLY <3>1, <3>3, <3>4
  <2> QED BY ONLY <1>1, <1>2, <1>3, <2>1, <2>2, <2>4, Zenon DEF Blank
<1>8. PICK B : B = {"{", "["}
  OBVIOUS
<1>9. PICK o : o = "["
  OBVIOUS
<1>10. Embedded(p, c) = IF c \in B THEN [p EXCEPT !.outcome = "parsing"]
                        ELSE Lex([p EXCEPT !.outcome = "parsing", !.scalar = TRUE], o)
  BY <1>8, <1>9 DEF Embedded
<1>11. c \in B => Embedded(p, c) = Blank(FALSE)
  BY ONLY <1>6, <1>10
<1>12. c \notin B => Embedded(p, c) = Lex(Blank(TRUE), o)
  BY ONLY <1>6, <1>10
<1> QED BY ONLY <1>4, <1>8, <1>9, <1>11, <1>12, Zenon

\* The text of one value is accepted, and gives the value or the first of the list.
LEMMA CreatedIs ==
    ASSUME NEW m, NEW sc \in BOOLEAN, NEW q, q = Valued(Blank(sc), m)
    PROVE  /\ Created(q).outcome = "ok" /\ q.scalar = sc
           /\ Created(q).node = IF sc THEN FirstItem(m) ELSE m
<1>1. PICK s : s = <<Slot("none")>>
  OBVIOUS
<1>2. PICK e : e = <<>>
  OBVIOUS
<1>3. PICK b : b = Blank(sc)
  OBVIOUS
<1>4. Has(b, s, "", "", TRUE, e, e, Unescaped, sc)
  BY <1>1, <1>2, <1>3, HasAll DEF Blank
<1>5. b.stack = s /\ b.nodes = e /\ b.scalar = sc
  BY ONLY <1>4 DEF Has
<1>6. PICK t : t = Bumped(s)
  OBVIOUS
<1>7. PICK ms : ms = <<m>>
  OBVIOUS
<1>8. With(e, m) = ms
  BY <1>2, <1>7 DEF With
<1>9. q = Ctx(t, ",", "", FALSE, ms, <<>>, Unescaped, sc)
  BY ONLY <1>3, <1>5, <1>6, <1>8, q = Valued(Blank(sc), m), Zenon DEF Valued
<1>10. q.stack = t /\ q.nodes = ms /\ q.scalar = sc /\ q.err = "none" /\ IsContext(q)
  <2>1. Has(q, t, ",", "", FALSE, ms, <<>>, Unescaped, sc)
    BY ONLY <1>9, HasAll
  <2>2. q.stack = t /\ q.nodes = ms /\ q.scalar = sc
    BY ONLY <2>1 DEF Has
  <2>3. q.err = "none" /\ IsContext(q)
    BY ONLY <1>9 DEF Ctx, IsContext, Fields
  <2> QED BY ONLY <2>2, <2>3
<1>11. Len(t) = 1 /\ t[1].nelem = 1 /\ Last(t) = t[1]
  <2>1. PICK l : l = Slot("none")
    OBVIOUS
  <2>2. l = [type |-> "none", nelem |-> 0]
    BY <2>1 DEF Slot
  <2>3. s = <<l>>
    BY <1>1, <2>1
  <2>4. s \in Seq({l}) /\ Len(s) = 1 /\ s[1] = l
    BY <2>3
  <2>5. t = [s EXCEPT ![1].nelem = @ + 1]
    BY <1>6, <2>4 DEF Bumped
  <2>6. t[1].nelem = 1 /\ Len(t) = 1
    BY <2>2, <2>4, <2>5
  <2> QED BY <2>6 DEF Last
<1>12. ~Refused(q)
  <2>1. level(q) = 0 /\ State(q).nelem = 1
    BY <1>10, <1>11 DEF level, State
  <2> QED BY ONLY <1>10, <2>1 DEF Refused
<1>13. q.err # "UNDEFINED"
  BY ONLY <1>10
<1>14. PICK k : k = IF q.scalar THEN FirstItem(q.nodes[1]) ELSE Last(q.nodes)
  OBVIOUS
<1>15. PICK f : f = Front(q.nodes)
  OBVIOUS
<1>16. Created(q) = [q EXCEPT !.outcome = "ok", !.nodes = f, !.node = k]
  BY <1>12, <1>13, <1>14, <1>15 DEF Created
<1>17. Created(q).outcome = "ok" /\ Created(q).node = k
  BY <1>10, <1>16 DEF IsContext, Fields
<1>18. k = IF sc THEN FirstItem(m) ELSE m
  <2>1. ms[1] = m /\ Last(ms) = m
    BY <1>7 DEF Last
  <2> QED BY <1>10, <1>14, <2>1
<1> QED BY <1>10, <1>17, <1>18


\* The context at the end of a text gives what the document is to be read back as.
Accepted(q, n) ==
    LET c == Created(IF q.scalar THEN Lex(q, "]") ELSE q)
    IN  c.outcome = "ok" /\ c.node = ReadBackOf(n)

\* What the first token of a document's text may be.
BeginsWith(w, n, c) ==
    /\ w # <<>> /\ Head(w) = c /\ w[1] = c /\ c \notin Whitespace
    /\ n.type \in {"array", "dict"} <=> c \in {"{", "["}

\* A sequence begins as its first part does.
LEMMA FirstOf ==
    ASSUME NEW a, IsSequence(a), a # <<>>, NEW b, IsSequence(b), NEW w, w = a \o b
    PROVE  IsSequence(w) /\ w # <<>> /\ w[1] = a[1] /\ Head(w) = a[1]
<1>1. PICK U : U = Range(a) \cup Range(b)
  OBVIOUS
<1>2. a \in Seq(U) /\ b \in Seq(U)
  BY <1>1, SequenceWithin
<1>3. Len(a) > 0
  BY <1>2, EmptySeq
<1>4. w \in Seq(U) /\ Len(w) = Len(a) + Len(b) /\ w[1] = a[1]
  BY <1>2, <1>3
<1>5. w # <<>>
  BY <1>2, <1>3, <1>4, EmptySeq
<1>6. Head(w) = w[1]
  BY <1>4, <1>5
<1> QED BY <1>4, <1>5, <1>6, SequenceOf

\* A container begins with its bracket,
LEMMA ContainerBegins ==
    ASSUME Spaced, NEW v \in Formats, NEW n \in Docs, n.type \in {"array", "dict"}, NEW d, Within(n, d)
    PROVE  BeginsWith(Written(v, n, d), n, OpenedBy(n))
<1>1. v \in Visitors /\ Visited(n) /\ d \in Nat /\ n.type # "keyval"
  BY DocsAre DEF Visitors, Visited, Within, ScalarTypes
<1>2. PICK x, y, z : Framed(v, n, d, x, y, z)
  BY <1>1, Frames
<1>3. PICK o : o = OpenedBy(n)
  OBVIOUS
<1>4. PICK b : b = fBegin(v, n, d)
  OBVIOUS
<1>5. x \in Seq(Whitespace) /\ b = <<o>> \o x
  BY <1>2, <1>3, <1>4, Zenon DEF Framed
<1>6. IsSequence(b) /\ b # <<>> /\ b[1] = o
  <2>1. PICK a : a = <<o>>
    OBVIOUS
  <2>2. IsSequence(a) /\ a # <<>> /\ a[1] = o
    BY <2>1, SmallSequences
  <2>3. IsSequence(x)
    BY <1>5, SequenceOf
  <2> QED BY ONLY <1>5, <2>1, <2>2, <2>3, FirstOf
<1>7. PICK k \in Nat : k = Len(Entries(n))
  BY EntriesAre, DocsAre
<1>8. PICK f : f = FlattenSeq(Parts(v, n, d, k))
  OBVIOUS
<1>9. ChildrenWritten(v, n, d) /\ Meaning(v, n, d) = Opening(v, n, d, k) \o fEnd(v, n, d + Deeper(v, n))
  BY <1>1, <1>7, Whole
<1>10. IsSequence(f)
  BY <1>1, <1>7, <1>8, <1>9, PartsAre
<1>11. PICK g : g = Opening(v, n, d, k)
  OBVIOUS
<1>12. IsSequence(g) /\ g # <<>> /\ g[1] = o
  <2>1. g = b \o f
    BY <1>4, <1>8, <1>11 DEF Opening
  <2> QED BY ONLY <1>6, <1>10, <2>1, FirstOf
<1>13. PICK e : e = fEnd(v, n, d + Deeper(v, n))
  OBVIOUS
<1>14. IsSequence(e)
  BY <1>1, <1>13, PiecesAre
<1>15. PICK w : w = Written(v, n, d)
  OBVIOUS
<1>16. w = g \o e
  BY <1>1, <1>9, <1>11, <1>13, <1>15 DEF Meaning
<1>17. w # <<>> /\ w[1] = o /\ Head(w) = o
  BY ONLY <1>12, <1>14, <1>16, FirstOf
<1>18. o \in {"{", "["} /\ o \notin Whitespace
  BY <1>3, BracketsAre, Zenon DEF OpenedBy
<1> QED BY <1>3, <1>15, <1>17, <1>18 DEF BeginsWith

\* and a scalar with something else.
LEMMA ScalarBegins ==
    ASSUME NEW v \in Formats, NEW n \in Docs, n.type \in ScalarTypes, NEW d, Within(n, d)
    PROVE  \E c : BeginsWith(Written(v, n, d), n, c)
<1>1. v \in Visitors /\ v.kind = "json" /\ n.type \notin {"array", "dict"}
  <2>1. v.kind = "json"
    BY FormatsAssumption DEF ToJSON, Visitor
  <2> QED BY <2>1 DEF Visitors, ScalarTypes
<1>2. Written(v, n, d) = Scalar(n)
  <2>1. PICK r : r = [i \in DOMAIN n.entries |-> WrittenAs(n.entries[i], v, d + 1)]
    OBVIOUS
  <2>2. Written(v, n, d) = TextFrom(n, v, d, r)
    BY <1>1, <2>1, WrittenIs
  <2> QED BY ONLY <1>1, <2>2 DEF TextFrom
<1>3. PICK w : w = Written(v, n, d)
  OBVIOUS
<1>4. PICK B : B = {"{", "["}
  OBVIOUS
<1>5. CASE n.type = "string"
  <2>1. PICK quote : quote = "\""
    OBVIOUS
  <2>2. PICK y : y = [i \in DOMAIN n.str |-> Escape(n.str[i])]
    OBVIOUS
  <2>3. w = (<<quote>> \o y) \o <<quote>>
    <3>1. w = Quoted(n.str)
      BY <1>2, <1>3, <1>5 DEF Scalar
    <3> QED BY <2>1, <2>2, <3>1, Zenon DEF Quoted
  <2>4. PICK a : a = <<quote>>
    OBVIOUS
  <2>5. IsSequence(a) /\ a # <<>> /\ a[1] = quote
    BY ONLY <2>4, SmallSequences
  <2>6. IsSequence(y)
    <3>1. PICK str : str = n.str
      OBVIOUS
    <3>2. str \in Seq(Range(str))
      BY <1>5, <3>1, DocsAre DEF IsSequence
    <3>3. PICK U : U = {Escape(str[i]) : i \in DOMAIN str}
      OBVIOUS
    <3>4. y = [i \in DOMAIN str |-> Escape(str[i])]
      BY <2>2, <3>1
    <3>5. y \in Seq(U)
      BY ONLY <3>2, <3>3, <3>4
    <3> QED BY <3>5, SequenceOf
  <2>7. PICK g : g = a \o y
    OBVIOUS
  <2>8. IsSequence(g) /\ g # <<>> /\ g[1] = quote
    BY ONLY <2>5, <2>6, <2>7, FirstOf
  <2>9. w = g \o a
    BY ONLY <2>3, <2>4, <2>7
  <2>10. w # <<>> /\ w[1] = quote /\ Head(w) = quote
    BY ONLY <2>5, <2>8, <2>9, FirstOf
  <2>11. quote \notin B /\ quote \notin Whitespace
    BY <1>4, <2>1, Zenon DEF Whitespace
  <2> QED BY ONLY <1>1, <1>3, <1>4, <2>10, <2>11 DEF BeginsWith
<1>6. CASE n.type \in {"null", "boolean", "integer", "number"}
  <2>1. ReadsScalar(n)
    BY <1>6, ReadBackAssumption
  <2>2. PICK c : c = Scalar(n)[1]
    OBVIOUS
  <2>3. c \in DOMAIN Literals
    BY <2>1, <2>2 DEF ReadsScalar
  <2>4. w = <<c>>
    BY <1>2, <1>3, <1>6, <2>2, ScalarToken
  <2>5. w # <<>> /\ w[1] = c /\ Head(w) = c
    BY ONLY <2>4
  <2>6. c \notin B /\ c \notin Whitespace
    BY <1>4, <2>3, ParserAssumption, Zenon
  <2> QED BY ONLY <1>1, <1>3, <1>4, <2>5, <2>6 DEF BeginsWith
<1> QED BY <1>5, <1>6 DEF ScalarTypes


\* A document that is not nested in any other.
LEMMA WithinNone ==
    ASSUME NEW n \in Docs
    PROVE  Within(n, 0)
<1>1. n.type # "keyval" /\ DepthOf(n) \in Nat /\ DepthOf(n) <= Deepest
  BY DocsAre DEF ScalarTypes
<1>2. PICK d \in Nat : d = 0
  OBVIOUS
<1>3. d + Height(n) <= Deepest
  BY <1>1, <1>2 DEF Height
<1> QED BY <1>2, <1>3 DEF Within

\* The text of a container is accepted.
LEMMA ContainerAccepted ==
    ASSUME Spaced, Roomy, NEW v \in Formats, NEW n \in Docs, n.type \in {"array", "dict"}
    PROVE  \E q : Lexes(Blank(FALSE), Written(v, n, 0), q) /\ IsText(Written(v, n, 0)) /\ Accepted(q, n)
<1>1. Within(n, 0)
  BY WithinNone
<1>2. PICK p : p = Blank(FALSE)
  OBVIOUS
<1>3. Ready(p) /\ Len(p.stack) = 1 /\ Len(p.nodes) = 0 /\ p.scalar = FALSE
  <2>1. Ready(p) /\ Len(p.stack) = 1 /\ p.nodes = <<>> /\ p.scalar = FALSE
    BY <1>2, BlankReady
  <2>2. Len(p.nodes) = 0
    BY ONLY <2>1
  <2> QED BY ONLY <2>1, <2>2
<1>4. Fits(p, n)
  <2>1. DepthOf(n) \in Nat /\ DepthOf(n) <= Deepest /\ Deepest \in Nat
    BY DocsAre
  <2>2. 1 + DepthOf(n) < Levels /\ 0 + 2 * DepthOf(n) < Levels
    BY <2>1 DEF Roomy
  <2>3. n.type # "string"
    OBVIOUS
  <2> QED BY <1>3, <2>2, <2>3 DEF Fits
<1>5. ChildrenFill(v, n, 0 + 1)
  BY AllFill DEF ChildrenFill
<1>6. PICK m : m = ReadBackOf(n)
  OBVIOUS
<1>7. PICK w : w = Written(v, n, 0)
  OBVIOUS
<1>8. PICK q : q = Valued(p, m)
  OBVIOUS
<1>9. Lexes(p, w, q) /\ IsText(w)
  BY <1>1, <1>3, <1>4, <1>5, <1>6, <1>7, <1>8, ContainerFills
<1>10. Created(q).outcome = "ok" /\ q.scalar = FALSE /\ Created(q).node = m
  <2>1. q = Valued(Blank(FALSE), m)
    BY <1>2, <1>8
  <2> QED BY ONLY <2>1, CreatedIs
<1>11. Accepted(q, n)
  BY ONLY <1>6, <1>10 DEF Accepted
<1> QED BY ONLY <1>2, <1>7, <1>9, <1>11

\* The bracket that a scalar is embedded after.
LEMMA ListBegun ==
    ASSUME Roomy, NEW p, p = Blank(TRUE), NEW a, a = NewArrayNode(<<>>)
    PROVE  ListTakes(Lex(p, "["), p.stack, 0, p.nodes, a, TRUE) /\ Lex(p, "[").scalar = TRUE
<1>1. Ready(p) /\ Len(p.stack) = 1 /\ p.nodes = <<>> /\ p.scalar = TRUE
  BY BlankReady
<1>2. PICK e : e = <<>>
  OBVIOUS
<1>3. IsText(e) /\ Range(e) \subseteq Whitespace /\ e \in Seq(Range(e)) /\ DOMAIN e = {}
  BY <1>2, EmptySeq DEF IsText, Range
<1>4. PICK o : o = "["
  OBVIOUS
<1>5. \E q : /\ Lexes(p, <<o>> \o e, q) /\ IsText(<<o>> \o e) /\ q.tok_last = ""
             /\ ItemDue(q, p.stack, "list", 0, p.nodes, NewArrayNode(<<>>), p.scalar)
  BY ONLY <1>1, <1>3, <1>4, Opens, Zenon
<1>6. PICK q : Lexes(p, <<o>> \o e, q) /\ ItemDue(q, p.stack, "list", 0, p.nodes, NewArrayNode(<<>>), p.scalar)
  BY <1>5
<1>7. PICK z : z = <<o>>
  OBVIOUS
<1>8. z \o e = z /\ IsText(z) /\ z # <<>> /\ Head(z) = o /\ Tail(z) = <<>>
  <2>1. z \in Seq({o}) /\ Head(z) = o /\ Tail(z) = <<>> /\ z # <<>>
    BY <1>7
  <2>2. z \o e = z
    BY <1>2, <2>1, ConcatEmptySeq
  <2>3. IsText(z)
    BY ONLY <1>7, ReadsOne
  <2> QED BY <2>1, <2>2, <2>3
<1>9. Lexes(p, z, q)
  BY ONLY <1>6, <1>7, <1>8
<1>10. Lexes(Lex(p, o), <<>>, q)
  <2>1. Lexes(Lex(p, Head(z)), Tail(z), q)
    BY ONLY <1>8, <1>9, ReadsRest
  <2> QED BY ONLY <1>8, <2>1
<1>11. q = Lex(p, o)
  BY ONLY <1>10, NoneReads
<1>12. PICK k \in Nat : k = 0
  OBVIOUS
<1>13. ListTakes(q, p.stack, k, p.nodes, a, TRUE)
  <2>1. Room(p.stack) /\ IsText(p.nodes)
    BY ONLY <1>1 DEF Ready, Takes, IsText
  <2>2. Len(p.stack) + 1 < Levels /\ Len(p.nodes) + 1 < Levels
    <3>1. 2 < Levels /\ 1 < Levels
      BY DEF Roomy
    <3>2. Len(p.stack) + 1 = 2 /\ Len(p.nodes) + 1 = 1
      BY ONLY <1>1
    <3> QED BY ONLY <3>1, <3>2
  <2>3. a.type = "array"
    BY DEF NewArrayNode, New
  <2>4. ItemDue(q, p.stack, "list", k, p.nodes, a, TRUE)
    BY ONLY <1>1, <1>6, <1>12, a = NewArrayNode(<<>>)
  <2> QED BY ONLY <1>12, <2>1, <2>2, <2>3, <2>4, ListItem
<1>14. q.scalar = TRUE
  BY ONLY <1>1, <1>6 DEF ItemDue
<1> QED BY ONLY <1>4, <1>11, <1>12, <1>13, <1>14

\* The bracket that ends the list.
LEMMA ListEnded ==
    ASSUME Roomy, NEW p, p = Blank(TRUE), NEW a, NEW b, b = Between(p.stack, "list", 1, p.nodes, a, TRUE)
    PROVE  Lex(b, "]") = Valued(p, a)
<1>1. Ready(p) /\ p.scalar = TRUE
  BY BlankReady
<1>2. PICK e : e = <<>>
  OBVIOUS
<1>3. IsText(e) /\ Range(e) \subseteq Whitespace
  BY <1>2, EmptySeq DEF IsText, Range
<1>4. PICK o : o = "]"
  OBVIOUS
<1>5. PICK r : r = Valued(p, a)
  OBVIOUS
<1>6. PICK k \in Nat : k = 1
  OBVIOUS
<1>7. r = Ctx(Bumped(p.stack), ",", "", FALSE, With(p.nodes, a), <<>>, Unescaped, TRUE)
  BY ONLY <1>1, <1>5, Zenon DEF Valued
<1>8. Has(b, Items(p.stack, "list", k), ",", "", FALSE, Append(p.nodes, a), <<>>, Unescaped, TRUE)
  <2>1. b = Ctx(Items(p.stack, "list", k), ",", "", FALSE, Append(p.nodes, a), <<>>, Unescaped, TRUE)
    BY ONLY <1>6, b = Between(p.stack, "list", 1, p.nodes, a, TRUE), Zenon DEF Between
  <2> QED BY ONLY <2>1, HasAll
<1>9. /\ Live(b) /\ b.nodes = Append(p.nodes, a) /\ b.chars = <<>> /\ b.escapes = Unescaped /\ b.scalar = TRUE
      /\ b.stack = Items(p.stack, "list", k) /\ b.tok_last = ""
  BY ONLY <1>8, Zenon DEF Has
<1>10. b.tok_last # ","
  <2>1. "" # ","
    BY ONLY <1>6
  <2> QED BY ONLY <1>9, <2>1
<1>11. Room(p.stack) /\ Takes(p.nodes)
  BY ONLY <1>1 DEF Ready
<1>12. Lexes(b, e \o <<o>>, r)
  BY ONLY <1>3, <1>4, <1>7, <1>9, <1>10, <1>11, Closes, ZenonT(40)
<1>13. PICK z : z = <<o>>
  OBVIOUS
<1>14. e \o z = z /\ IsText(z) /\ z # <<>> /\ Head(z) = o /\ Tail(z) = <<>>
  <2>1. z \in Seq({o}) /\ Head(z) = o /\ Tail(z) = <<>> /\ z # <<>>
    BY <1>13
  <2>2. e \o z = z
    BY <1>2, <2>1, ConcatEmptySeq
  <2>3. IsText(z)
    BY ONLY <1>13, ReadsOne
  <2> QED BY <2>1, <2>2, <2>3
<1>15. Lexes(b, z, r)
  BY ONLY <1>12, <1>13, <1>14
<1>16. Lexes(Lex(b, o), <<>>, r)
  <2>1. Lexes(Lex(b, Head(z)), Tail(z), r)
    BY ONLY <1>14, <1>15, ReadsRest
  <2> QED BY ONLY <1>14, <2>1
<1>17. r = Lex(b, o)
  BY ONLY <1>16, NoneReads
<1> QED BY ONLY <1>4, <1>5, <1>17


\* The text of a scalar is accepted, although a number at its end is only
\* noticed at the bracket after it.
LEMMA ScalarAccepted ==
    ASSUME Roomy, NEW v \in Formats, NEW n \in Docs, n.type \in ScalarTypes
    PROVE  \E q : Lexes(Lex(Blank(TRUE), "["), Written(v, n, 0), q) /\ IsText(Written(v, n, 0)) /\ Accepted(q, n)
<1>1. Within(n, 0)
  BY WithinNone
<1>2. PICK p : p = Blank(TRUE)
  OBVIOUS
<1>3. PICK a : a = NewArrayNode(<<>>)
  OBVIOUS
<1>4. PICK o : o = "["
  OBVIOUS
<1>5. PICK l : l = Lex(p, o)
  OBVIOUS
<1>6. PICK k \in Nat : k = 0
  OBVIOUS
<1>7. ListTakes(l, p.stack, k, p.nodes, a, TRUE) /\ l.scalar = TRUE
  BY ONLY Roomy, <1>2, <1>3, <1>4, <1>5, <1>6, ListBegun, Zenon
<1>8. PICK m : m = ReadBackOf(n)
  OBVIOUS
<1>9. PICK arr : arr = Node_ArrayAppend(a, m)
  OBVIOUS
<1>10. /\ Ready(l) /\ Topmost(l.stack).type = "list"
       /\ Valued(l, m) = Between(p.stack, "list", k + 1, p.nodes, arr, TRUE)
  BY ONLY <1>7, <1>9 DEF ListTakes
<1>11. Fits(l, n)
  <2>1. n.type \notin {"array", "dict"}
    BY DEF ScalarTypes
  <2>2. Topmost(l.stack).type # "none"
    BY ONLY <1>10
  <2> QED BY <2>1, <2>2 DEF Fits
<1>12. PICK w : w = Written(v, n, 0)
  OBVIOUS
<1>13. Fills(l, w, m)
  BY <1>1, <1>8, <1>10, <1>11, <1>12, ScalarFills
<1>14. PICK b : b = Valued(l, m)
  OBVIOUS
<1>15. PICK q : Lexes(l, w, q) /\ q.scalar = l.scalar /\ SameAfter(q, b)
  BY ONLY <1>13, <1>14 DEF Fills
<1>16. IsText(w)
  BY ONLY <1>13 DEF Fills
<1>17. PICK c : c = "]"
  OBVIOUS
<1>18. PICK r : r = Valued(p, arr)
  OBVIOUS
<1>19. Lex(b, c) = r
  <2>1. b = Between(p.stack, "list", 1, p.nodes, arr, TRUE)
    BY ONLY <1>6, <1>10, <1>14
  <2> QED BY ONLY Roomy, <1>2, <1>17, <1>18, <2>1, ListEnded, Zenon
<1>20. Lex(q, c) = r
  <2>1. c \in Follows
    BY ONLY <1>17, Zenon DEF Follows
  <2> QED BY ONLY <1>15, <1>19, <2>1 DEF SameAfter
<1>21. Created(r).outcome = "ok" /\ Created(r).node = FirstItem(arr)
  <2>1. r = Valued(Blank(TRUE), arr)
    BY ONLY <1>2, <1>18
  <2> QED BY ONLY <2>1, CreatedIs
<1>22. FirstItem(arr) = m
  <2>1. PICK e : e = <<m>>
    OBVIOUS
  <2>2. arr.entries = e
    BY <1>3, <1>9, <2>1 DEF Node_ArrayAppend, NewArrayNode, New
  <2>3. e # <<>> /\ e[1] = m
    BY <2>1
  <2> QED BY ONLY <2>2, <2>3 DEF FirstItem
<1>23. q.scalar = TRUE
  BY ONLY <1>7, <1>15
<1>24. Accepted(q, n)
  BY ONLY <1>8, <1>17, <1>20, <1>21, <1>22, <1>23, Zenon DEF Accepted
<1> QED BY ONLY <1>2, <1>4, <1>5, <1>12, <1>15, <1>16, <1>24

\* What is written of a document is accepted, from the first token that is not
\* whitespace on.
LEMMA DocumentAccepted ==
    ASSUME Spaced, Roomy, NEW v \in Formats, NEW n \in Docs
    PROVE  LET w == Written(v, n, 0)
           IN  /\ w # <<>> /\ IsText(w) /\ Head(w) \notin Whitespace
               /\ \E q : Lexes(Embedded(Reset(Unescaped), Head(w)), w, q) /\ Accepted(q, n)
<1>1. Within(n, 0)
  BY WithinNone
<1>2. PICK w : w = Written(v, n, 0)
  OBVIOUS
<1>3. PICK B : B = {"{", "["}
  OBVIOUS
<1>4. PICK c : BeginsWith(w, n, c)
  <2>1. n.type \in {"array", "dict"} => BeginsWith(w, n, OpenedBy(n))
    BY <1>1, <1>2, ContainerBegins
  <2>2. n.type \in ScalarTypes => \E c : BeginsWith(w, n, c)
    BY <1>1, <1>2, ScalarBegins
  <2> QED BY <2>1, <2>2, DocsAre
<1>5. w # <<>> /\ Head(w) = c /\ c \notin Whitespace /\ (n.type \in {"array", "dict"} <=> c \in B)
  BY ONLY <1>3, <1>4, Zenon DEF BeginsWith
<1>6. PICK p : p = Embedded(Reset(Unescaped), c)
  OBVIOUS
<1>7. \E q : Lexes(p, w, q) /\ IsText(w) /\ Accepted(q, n)
  <2>1. CASE n.type \in {"array", "dict"}
    <3>1. p = Blank(FALSE)
      BY ONLY <1>3, <1>5, <1>6, <2>1, EmbeddedIs, Zenon
    <3> QED BY <1>2, <2>1, <3>1, ContainerAccepted
  <2>2. CASE n.type \in ScalarTypes
    <3>1. c \notin B
      BY ONLY <1>5, <2>2 DEF ScalarTypes
    <3>2. PICK o : o = "["
      OBVIOUS
    <3>3. p = Lex(Blank(TRUE), o)
      BY ONLY <1>3, <1>6, <3>1, <3>2, EmbeddedIs, Zenon
    <3>4. \E q : Lexes(Lex(Blank(TRUE), o), w, q) /\ IsText(w) /\ Accepted(q, n)
      BY <1>2, <2>2, <3>2, ScalarAccepted
    <3> QED BY ONLY <3>3, <3>4
  <2> QED BY <2>1, <2>2, DocsAre
<1> QED BY ONLY <1>2, <1>5, <1>6, <1>7


-----------------------------------------------------------------------------
(* A text that the server wrote, while it is read.                         *)

\* Nothing of the text z of a document has been read, or the rest z of it
\* leads to the document, or it has been read.
Halfway(p, z, n) ==
    \/ p = Reset(Unescaped) /\ \E v \in Formats : z = Written(v, n, 0)
    \/ p.outcome = "parsing" /\ IsText(z) /\ \E q : Lexes(p, z, q) /\ Accepted(q, n)
    \/ p.outcome = "ok" /\ p.node = ReadBackOf(n)

\* The parser is left as it was first; what it reads of a text that was written
\* leads to the document.
Returning ==
    /\ phase \notin {"read", "client"} => ps = NewJSONObjectCtx
    /\ phase = "read" => doc \in Docs /\ Halfway(ps, text, doc)

\* A token of the text.
LEMMA TokenReturns ==
    ASSUME Spaced, Roomy, Reading, Returning, ReadToken
    PROVE  Halfway(ps', text', doc)
<1>1. phase = "read" /\ text # <<>> /\ Feed(Head(text)) /\ text' = Tail(text)
  BY DEF ReadToken
<1>2. doc \in Docs /\ Halfway(ps, text, doc) /\ ps.outcome \in {"leading", "parsing"}
  BY <1>1 DEF Returning, Reading
<1>3. PICK c : c = Head(text)
  OBVIOUS
<1>4. CASE ps = Reset(Unescaped) /\ \E v \in Formats : text = Written(v, doc, 0)
  <2>1. PICK v \in Formats : text = Written(v, doc, 0)
    BY <1>4
  <2>2. IsText(text) /\ c \notin Whitespace /\ \E q : Lexes(Embedded(ps, c), text, q) /\ Accepted(q, doc)
    BY <1>2, <1>3, <1>4, <2>1, DocumentAccepted
  <2>3. Fresh(ps) /\ ps.outcome = "leading"
    BY <1>4, ResetFresh
  <2>4. ps' = Lex(Embedded(ps, c), c)
    BY <1>1, <1>3, <2>2, <2>3 DEF Feed
  <2>5. ps'.outcome = "parsing"
    BY <2>3, <2>4, LeadingSound DEF Sound
  <2>6. PICK q : Lexes(Embedded(ps, c), text, q) /\ Accepted(q, doc)
    BY <2>2
  <2>7. Lexes(Lex(Embedded(ps, c), c), Tail(text), q) /\ IsText(Tail(text))
    BY ONLY <1>1, <1>3, <2>2, <2>6, ReadsRest
  <2> QED BY ONLY <1>1, <2>4, <2>5, <2>6, <2>7 DEF Halfway
<1>5. CASE ps.outcome = "parsing" /\ IsText(text) /\ \E q : Lexes(ps, text, q) /\ Accepted(q, doc)
  <2>1. PICK q : Lexes(ps, text, q) /\ Accepted(q, doc)
    BY <1>5
  <2>2. ps' = Lex(ps, c)
    BY <1>1, <1>3, <1>5 DEF Feed
  <2>3. ps'.outcome = "parsing"
    BY <1>5, <2>2, LexSound DEF Reading, Sound
  <2>4. Lexes(Lex(ps, c), Tail(text), q) /\ IsText(Tail(text))
    BY ONLY <1>1, <1>3, <1>5, <2>1, ReadsRest
  <2> QED BY ONLY <1>1, <2>1, <2>2, <2>3, <2>4 DEF Halfway
<1>6. ps.outcome # "ok"
  BY <1>2
<1> QED BY ONLY <1>2, <1>4, <1>5, <1>6 DEF Halfway

\* The end of the text.
LEMMA EndReturns ==
    ASSUME Spaced, Roomy, Returning, phase = "read", TextEnd
    PROVE  Halfway(ps', text', doc)
<1>1. text = <<>> /\ ps.outcome \in {"leading", "parsing"} /\ CreateEnd
  BY DEF TextEnd
<1>2. doc \in Docs /\ Halfway(ps, text, doc)
  BY DEF Returning
<1>3. \A v \in Formats : text # Written(v, doc, 0)
  BY <1>1, <1>2, DocumentAccepted
<1>4. ps.outcome # "ok"
  BY <1>1
<1>5. PICK q : Lexes(ps, text, q) /\ Accepted(q, doc)
  BY ONLY <1>2, <1>3, <1>4 DEF Halfway
<1>6. q = ps
  BY ONLY <1>1, <1>5, NoneReads
<1>7. ps'.outcome = "ok" /\ ps'.node = ReadBackOf(doc)
  BY <1>1, <1>5, <1>6 DEF Accepted, CreateEnd
<1> QED BY ONLY <1>7 DEF Halfway

\* Every step of the server.
LEMMA ReturningKept ==
    ASSUME ~Reused, Spaced, Roomy, Writing, Reading, Returning, [Serve \/ Commands]_docVars
    PROVE  Returning'
<1>1. ASSUME UNCHANGED <<ps, phase, doc, text>> PROVE Returning'
  <2>1. ps' = ps /\ phase' = phase /\ doc' = doc /\ text' = text
    BY <1>1
  <2> QED BY <2>1 DEF Returning
<1>2. CASE UNCHANGED docVars
  BY <1>1, <1>2 DEF docVars
<1>3. ASSUME ps' = ps, phase \notin {"read", "client"}, phase' \notin {"read", "client"} PROVE Returning'
  BY <1>3 DEF Returning
<1>4. CASE Traverse \/ Load
  BY <1>1, <1>4 DEF Traverse, Load
<1>5. CASE LoadSaved
  BY <1>3, <1>5 DEF LoadSaved
<1>6. CASE JSONTypeRdbSave \/ ObjectTypeToRespReply \/ SerializeNodeToJSON
  <2>1. PICK next, v : next \in {"save", "resp", "write"} /\ Write(next, v)
    BY <1>6 DEF JSONTypeRdbSave, ObjectTypeToRespReply, SerializeNodeToJSON
  <2>2. ps' = ps /\ phase = "start" /\ phase' \in {"save", "resp", "write"}
    BY <2>1 DEF Write
  <2> QED BY <1>3, <2>2
<1>7. CASE ReadWritten
  <2>1. phase = "write" /\ ser.state = "END" /\ CreateBegin /\ phase' = "read" /\ text' = ser.out /\ doc' = doc
    BY <1>7 DEF ReadWritten
  <2>2. ps' = Reset(Unescaped)
    <3>1. ps = NewJSONObjectCtx
      BY <2>1 DEF Returning
    <3>2. ps.escapes = Unescaped
      BY <3>1 DEF NewJSONObjectCtx, Reset, Unescaped
    <3> QED BY <2>1, <3>2 DEF CreateBegin
  <2>3. doc \in Docs /\ ser.visitor \in Formats /\ ser.out = Written(ser.visitor, doc, 0)
    BY <2>1 DEF Writing, Traversing
  <2>4. Halfway(ps', text', doc')
    BY ONLY <2>1, <2>2, <2>3 DEF Halfway
  <2>5. phase' = "read" /\ doc' \in Docs
    BY <2>1, <2>3
  <2> QED BY <2>4, <2>5 DEF Returning
<1>8. CASE ClientBegin \/ ClientToken
  <2>1. phase' = "client"
    BY <1>8 DEF ClientBegin, ClientToken
  <2> QED BY <2>1 DEF Returning
<1>9. ASSUME phase = "read", phase' = phase, doc' = doc, Halfway(ps', text', doc) PROVE Returning'
  <2>1. doc \in Docs
    BY <1>9 DEF Returning
  <2>2. Halfway(ps', text', doc')
    BY <1>9
  <2> QED BY <1>9, <2>1, <2>2 DEF Returning
<1>10. CASE ReadToken
  <2>1. Halfway(ps', text', doc)
    BY <1>10, TokenReturns
  <2>2. phase = "read" /\ phase' = phase /\ doc' = doc
    BY <1>10 DEF ReadToken
  <2> QED BY <1>9, <2>1, <2>2
<1>11. CASE TextEnd
  <2>1. phase \in {"read", "client"} /\ phase' = phase /\ doc' = doc
    BY <1>11 DEF TextEnd
  <2>2. CASE phase = "read"
    <3>1. Halfway(ps', text', doc)
      BY <1>11, <2>2, EndReturns
    <3> QED BY <1>9, <2>1, <2>2, <3>1
  <2>3. CASE phase = "client"
    BY <2>1, <2>3 DEF Returning
  <2> QED BY <2>1, <2>2, <2>3
<1>12. CASE NextCommand
  <2>1. ps' = NewJSONObjectCtx /\ phase' = "start"
    BY <1>12 DEF NextCommand
  <2>2. phase' # "read"
    BY <2>1
  <2> QED BY <2>1, <2>2 DEF Returning, NewJSONObjectCtx, Reset
<1> QED BY <1>2, <1>4, <1>5, <1>6, <1>7, <1>8, <1>10, <1>11, <1>12 DEF Serve, Commands

\* Every text that the server writes, compact or formatted, is read back as the
\* document it was written of, up to the type of whole numbers, if the strings
\* of the formats are whitespace, the array of nodes has room for objects as
\* deep as the documents are, and the context is not one that an error left
\* behind.
THEOREM TextAlwaysReadBack ==
    ASSUME ~Reused, Spaced, Roomy
    PROVE  DocSpec => []TextReadBack
<1>1. Start => Writing /\ Reading /\ Returning
  <2> SUFFICES ASSUME Start PROVE Writing /\ Reading /\ Returning
    OBVIOUS
  <2>1. phase = "start" /\ ps = NewJSONObjectCtx
    BY DEF Start
  <2>2. Writing /\ Returning
    BY <2>1 DEF Writing, Returning
  <2>3. Reading
    <3>1. PICK p : p = Reset([k \in 1..(Levels - 1) |-> FALSE])
      OBVIOUS
    <3>2. IsContext(p)
      BY <3>1, ResetFresh DEF Fresh
    <3>3. ps = [p EXCEPT !.outcome = "idle"]
      BY <2>1, <3>1 DEF NewJSONObjectCtx
    <3>4. ps.outcome = "idle"
      BY <3>2, <3>3 DEF IsContext, Fields
    <3> QED BY <2>1, <3>4 DEF Reading
  <2> QED BY <2>2, <2>3
<1>2. Writing /\ Reading /\ Returning /\ [Serve \/ Commands]_docVars => Writing' /\ Reading' /\ Returning'
  BY WritingKept, ReadingKept, ReturningKept
<1>3. Reading /\ Returning => TextReadBack
  <2> SUFFICES ASSUME Reading, Returning, phase = "read", Done
               PROVE  ps.outcome = "ok" /\ ps.node = ReadBackOf(doc)
    BY DEF TextReadBack
  <2>1. ps.outcome \notin {"leading", "parsing"}
    BY DEF Done
  <2>2. Reset(Unescaped).outcome = "leading"
    BY ResetFresh
  <2>3. Halfway(ps, text, doc)
    BY DEF Returning
  <2> QED BY ONLY <2>1, <2>2, <2>3 DEF Halfway
<1> QED BY <1>1, <1>2, <1>3, PTL DEF DocSpec
=============================================================================
