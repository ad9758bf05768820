--------------------------- MODULE JsonStoreProofs --------------------------
(***************************************************************************)
(* Theorems about the commands: what they leave of the documents whatever  *)
(* the workload, and what a replica makes of the stream.                   *)
(***************************************************************************)
EXTENDS JsonStore, TokenizerProofs

-----------------------------------------------------------------------------
(* What a search path finds.                                               *)

Finding == INSTANCE Folding WITH op <- FindStep

\* A sequence of m elements, whatever they are.
Listed(s, m) == m \in Nat /\ s = [i \in 1..m |-> s[i]]

\* Such a sequence is one over every set that holds its elements.
LEMMA ListedSeq ==
    ASSUME NEW s, NEW m, Listed(s, m), NEW S, \A i \in 1..m : s[i] \in S
    PROVE  s \in Seq(S) /\ Len(s) = m
  BY DEF Listed

\* It can be extended.
LEMMA ListedAppend ==
    ASSUME NEW s, NEW m, Listed(s, m), NEW e
    PROVE  /\ Len(s) = m /\ Listed(Append(s, e), m + 1) /\ Len(Append(s, e)) = m + 1
           /\ Append(s, e)[m + 1] = e /\ \A i \in 1..m : Append(s, e)[i] = s[i]
<1> DEFINE S == {s[i] : i \in 1..m} \cup {e}
<1>1. s \in Seq(S) /\ Len(s) = m /\ m \in Nat /\ e \in S
  BY ListedSeq DEF Listed
<1> HIDE DEF S
<1>2. Append(s, e) \in Seq(S)
  BY <1>1
<1>3. /\ Len(Append(s, e)) = m + 1 /\ Append(s, e)[m + 1] = e
      /\ \A i \in 1..m : Append(s, e)[i] = s[i]
  BY <1>1
<1>4. Append(s, e) = [i \in 1..(m + 1) |-> Append(s, e)[i]]
  <2>1. ASSUME NEW u \in Seq({s[i] : i \in 1..m} \cup {e}), Len(u) = m + 1
        PROVE  u = [i \in 1..(m + 1) |-> u[i]]
    BY <2>1
  <2> QED BY <1>2, <1>3, <2>1 DEF S
<1> QED BY <1>1, <1>3, <1>4 DEF Listed

Errors == {"OK", "BADTYPE", "NOINDEX", "NOKEY"}

\* The node at the end of a trail that starts at root.
Reached(trail, m, root) == IF m = 0 THEN root ELSE trail[m].node.entries[trail[m].pos]

\* A trail of m steps taken at the first nodes of a search path.
Trail(trail, m, nodes, root) ==
    /\ Listed(trail, m)
    /\ \A k \in 1..m :
        /\ trail[k] = [node |-> trail[k].node, pos |-> trail[k].pos]
        /\ pathNode_eval(nodes[k], trail[k].node) = [err |-> "OK", pos |-> trail[k].pos]
        /\ trail[k].node = Reached(trail, k - 1, root)

\* What is found by the first i nodes of a search path.
Finds(f, i, nodes, root) ==
    \E m \in Nat :
        /\ f = [n |-> f.n, p |-> f.p, err |-> f.err, errlevel |-> f.errlevel, trail |-> f.trail]
        /\ f.err \in Errors
        /\ Trail(f.trail, m, nodes, root)
        /\ f.err = "OK" =>
            /\ m = i /\ f.n = Reached(f.trail, m, root)
            /\ f.p = IF m = 0 THEN NullNode ELSE f.trail[m].node
        /\ f.err # "OK" =>
            /\ m < i /\ f.n = NullNode /\ f.p = Reached(f.trail, m, root)
            /\ f.err = pathNode_eval(nodes[m + 1], f.p).err /\ f.errlevel = m

\* A step of a search path ends with one of the errors, or without.
LEMMA EvalErrors ==
    ASSUME NEW pn, NEW n
    PROVE  /\ pathNode_eval(pn, n) = [err |-> pathNode_eval(pn, n).err, pos |-> pathNode_eval(pn, n).pos]
           /\ pathNode_eval(pn, n).err \in Errors
  BY DEF pathNode_eval, Errors

\* One step.
LEMMA FindsStep ==
    ASSUME NEW f, NEW i \in Nat, NEW nodes, NEW root, Finds(f, i, nodes, root)
    PROVE  Finds(FindStep(f, nodes[i + 1]), i + 1, nodes, root)
<1> DEFINE r == pathNode_eval(nodes[i + 1], f.n)
           g == FindStep(f, nodes[i + 1])
<1>1. PICK m \in Nat :
        /\ f = [n |-> f.n, p |-> f.p, err |-> f.err, errlevel |-> f.errlevel, trail |-> f.trail]
        /\ f.err \in Errors
        /\ Trail(f.trail, m, nodes, root)
        /\ f.err = "OK" =>
            /\ m = i /\ f.n = Reached(f.trail, m, root)
            /\ f.p = IF m = 0 THEN NullNode ELSE f.trail[m].node
        /\ f.err # "OK" =>
            /\ m < i /\ f.n = NullNode /\ f.p = Reached(f.trail, m, root)
            /\ f.err = pathNode_eval(nodes[m + 1], f.p).err /\ f.errlevel = m
  BY DEF Finds
<1>2. CASE f.err # "OK"
  <2>1. FindStep(f, nodes[i + 1]) = f
    BY <1>2 DEF FindStep
  <2>2. m < i + 1
    BY <1>1, <1>2
  <2> QED BY <1>1, <1>2, <2>1, <2>2 DEF Finds
<1>3. CASE f.err = "OK" /\ r.err = "OK"
  <2> DEFINE e == [node |-> f.n, pos |-> r.pos]
             trail == Append(f.trail, e)
  <2>1. g = [n |-> f.n.entries[r.pos], p |-> f.n, err |-> "OK", errlevel |-> -1, trail |-> trail]
    BY <1>3 DEF FindStep, FindChild
  <2>2. m = i /\ Listed(f.trail, i) /\ f.n = Reached(f.trail, i, root)
    BY <1>1, <1>3 DEF Trail
  <2>3. /\ Listed(trail, i + 1) /\ trail[i + 1] = e
        /\ \A k \in 1..i : trail[k] = f.trail[k]
    BY <2>2, ListedAppend
  <2>4. e.node = f.n /\ e.pos = r.pos /\ e = [node |-> e.node, pos |-> e.pos]
    OBVIOUS
  <2>5. r = [err |-> "OK", pos |-> e.pos]
    BY <1>3, EvalErrors
  <2> HIDE DEF e, trail, r
  <2>6. \A k \in 0..i : Reached(trail, k, root) = Reached(f.trail, k, root)
    BY <2>3 DEF Reached
  <2>7. \A k \in 1..i :
            /\ f.trail[k] = [node |-> f.trail[k].node, pos |-> f.trail[k].pos]
            /\ pathNode_eval(nodes[k], f.trail[k].node) = [err |-> "OK", pos |-> f.trail[k].pos]
            /\ f.trail[k].node = Reached(f.trail, k - 1, root)
    BY <1>1, <2>2 DEF Trail
  <2>8. Trail(trail, i + 1, nodes, root)
    <3>1. ASSUME NEW k \in 1..i
          PROVE  /\ trail[k] = [node |-> trail[k].node, pos |-> trail[k].pos]
                 /\ pathNode_eval(nodes[k], trail[k].node) = [err |-> "OK", pos |-> trail[k].pos]
                 /\ trail[k].node = Reached(trail, k - 1, root)
      <4>1. trail[k] = f.trail[k] /\ k - 1 \in 0..i
        BY <2>3
      <4> QED BY <2>6, <2>7, <4>1
    <3>2. /\ trail[i + 1] = [node |-> trail[i + 1].node, pos |-> trail[i + 1].pos]
          /\ pathNode_eval(nodes[i + 1], trail[i + 1].node) = [err |-> "OK", pos |-> trail[i + 1].pos]
          /\ trail[i + 1].node = Reached(trail, (i + 1) - 1, root)
      <4>1. (i + 1) - 1 = i /\ i \in 0..i
        OBVIOUS
      <4>2. pathNode_eval(nodes[i + 1], e.node) = [err |-> "OK", pos |-> e.pos]
        BY <2>4, <2>5 DEF r
      <4> QED BY <2>2, <2>3, <2>4, <2>6, <4>1, <4>2
    <3>3. \A k \in 1..(i + 1) : k \in 1..i \/ k = i + 1
      OBVIOUS
    <3> QED BY <2>3, <3>1, <3>2, <3>3 DEF Trail
  <2>9. f.n.entries[r.pos] = Reached(trail, i + 1, root) /\ f.n = trail[i + 1].node
    BY <2>3, <2>4 DEF Reached
  <2> HIDE DEF g
  <2>10. Finds(g, i + 1, nodes, root)
    <3>1. /\ g.n = f.n.entries[r.pos] /\ g.p = f.n /\ g.err = "OK" /\ g.trail = trail
          /\ g = [n |-> g.n, p |-> g.p, err |-> g.err, errlevel |-> g.errlevel, trail |-> g.trail]
      BY <2>1
    <3>2. i + 1 \in Nat /\ i + 1 # 0 /\ "OK" \in Errors
      BY DEF Errors
    <3> QED BY <2>8, <2>9, <3>1, <3>2 DEF Finds
  <2> QED BY <2>10 DEF g
<1>4. CASE f.err = "OK" /\ r.err # "OK"
  <2>1. m = i /\ Listed(f.trail, i) /\ f.n = Reached(f.trail, i, root) /\ Trail(f.trail, i, nodes, root)
    BY <1>1, <1>4 DEF Trail
  <2>2. Len(f.trail) = i
    BY <2>1, ListedAppend
  <2>3. g = [f EXCEPT !.n = NullNode, !.p = f.n, !.err = r.err, !.errlevel = Len(f.trail)]
    BY <1>4 DEF FindStep, FindChild
  <2>4. g = [n |-> NullNode, p |-> f.n, err |-> r.err, errlevel |-> i, trail |-> f.trail]
    BY <1>1, <2>2, <2>3
  <2>5. r.err \in Errors
    BY EvalErrors
  <2>6. /\ g.n = NullNode /\ g.p = f.n /\ g.err = r.err /\ g.errlevel = i /\ g.trail = f.trail
        /\ g = [n |-> g.n, p |-> g.p, err |-> g.err, errlevel |-> g.errlevel, trail |-> g.trail]
    BY <2>4
  <2>7. r.err = pathNode_eval(nodes[i + 1], f.n).err
    OBVIOUS
  <2> HIDE DEF g, r
  <2>8. Finds(g, i + 1, nodes, root)
    BY <1>4, <2>1, <2>5, <2>6, <2>7 DEF Finds
  <2> QED BY <2>8 DEF g
<1> QED BY <1>2, <1>3, <1>4

\* What a search path finds, and what it finds one level above.
LEMMA FindExFinds ==
    ASSUME NEW nodes \in Seq(PathNodes), NEW root
    PROVE  Finds(SearchPath_FindEx(nodes, root), Len(nodes), nodes, root)
<1>1. Len(nodes) \in Nat /\ DOMAIN nodes = 1..Len(nodes)
  OBVIOUS
<1>2. PICK t : /\ Finding!Traces(FindStart(root), t, nodes, Len(nodes))
               /\ Finding!FoldLeft(FindStep, FindStart(root), nodes) = t[Len(nodes)]
  BY <1>1, Finding!FoldLeftTrace
<1>3. SearchPath_FindEx(nodes, root) = t[Len(nodes)]
  BY <1>2 DEF SearchPath_FindEx, FoldLeft, Finding!FoldLeft, MapThenFoldSet,
              Finding!MapThenFoldSet, Max, Finding!Max
<1> DEFINE S == {i \in Nat : i \in 0..Len(nodes) => Finds(t[i], i, nodes, root)}
<1>4. 0 \in S
  <2>1. t[0] = [n |-> root, p |-> NullNode, err |-> "OK", errlevel |-> -1, trail |-> <<>>]
    BY <1>2 DEF Finding!Traces, FindStart
  <2>2. Trail(<<>>, 0, nodes, root)
    <3>1. <<>> = [i \in 1..0 |-> <<>>[i]]
      OBVIOUS
    <3> QED BY <3>1 DEF Trail, Listed
  <2>3. Finds(t[0], 0, nodes, root)
    BY <2>1, <2>2 DEF Finds, Reached, Errors
  <2> QED BY <2>3
<1>5. ASSUME NEW i \in Nat, i \in S PROVE i + 1 \in S
  <2> SUFFICES ASSUME i + 1 \in 0..Len(nodes) PROVE Finds(t[i + 1], i + 1, nodes, root)
    OBVIOUS
  <2>1. i + 1 \in 1..Len(nodes) /\ i \in 0..Len(nodes) /\ (i + 1) - 1 = i
    BY <1>1
  <2>2. t[i + 1] = FindStep(t[i], nodes[i + 1])
    BY <1>2, <2>1 DEF Finding!Traces
  <2>3. Finds(t[i], i, nodes, root)
    BY <1>5, <2>1
  <2>4. Finds(FindStep(t[i], nodes[i + 1]), i + 1, nodes, root)
    BY <2>3, FindsStep
  <2> QED BY <2>2, <2>4
<1> HIDE DEF S
<1>6. Len(nodes) \in S
  BY <1>1, <1>4, <1>5, Finding!NatSet
<1> QED BY <1>1, <1>3, <1>6 DEF S

\* A sequence of one element.
LEMMA OneElement ==
    ASSUME NEW S, NEW a \in S
    PROVE  <<a>> \in Seq(S)
  OBVIOUS

\* A path that a request names is a sequence of characters.
LEMMA PathChars ==
    ASSUME NEW path \in RequestPaths
    PROVE  path \in Seq(Chars)
<1>1. <<".">> \in Seq(Chars)
  <2>1. "." \in Chars
    BY DEF Chars, Marks
  <2> QED BY <2>1, OneElement
<1>2. ASSUME NEW r \in Requests, path \in Range(r.paths) PROVE path \in Seq(Chars)
  <2>1. r.paths \in Seq(Seq(STRING))
    BY RequestsAssumption
  <2>2. PICK i \in DOMAIN r.paths : path = r.paths[i]
    BY <1>2 DEF Range
  <2>3. path \in Seq(STRING)
    BY <2>1, <2>2
  <2>4. STRING \subseteq Chars
    BY Zenon DEF Chars
  <2> QED BY <2>3, <2>4, WiderSeq
<1> QED BY <1>1, <1>2 DEF RequestPaths

\* The fields of a search path together with what it finds.
LEMMA FoundFields ==
    ASSUME NEW path \in RequestPaths, NEW root
    PROVE  LET j == NodeFromJSONPath(root, path)
               sp == Parsed[path]
               f == SearchPath_FindEx(PathOf(sp), root)
           IN  /\ j.ok = sp.ok /\ j.nodes = sp.nodes /\ j.isRoot = sp.isRoot
               /\ j.n = f.n /\ j.p = f.p /\ j.err = f.err /\ j.errlevel = f.errlevel
               /\ j.trail = f.trail
               /\ sp.nodes \in Seq(PathNodes) /\ PathOf(sp) \in Seq(PathNodes)
               /\ Finds(f, Len(PathOf(sp)), PathOf(sp), root)
               /\ sp.isRoot <=> Len(sp.nodes) = 1 /\ sp.nodes[1].type = "root"
               /\ path # <<>> /\ sp.ok => sp.nodes # <<>>
<1> DEFINE sp == Parsed[path]
           f == SearchPath_FindEx(PathOf(sp), root)
<1>1. path \in Seq(Chars)
  BY PathChars
<1>2. sp = [ok |-> ParseJSONPath(path).ok, nodes |-> ParseJSONPath(path).nodes,
            isRoot |-> SearchPath_IsRootPath(ParseJSONPath(path).nodes)]
  BY DEF Parsed
<1>3. /\ sp.nodes \in Seq(PathNodes)
      /\ path # <<>> /\ sp.ok => sp.nodes # <<>>
  BY <1>1, <1>2, ParsedTyped
<1>4. PathOf(sp) \in Seq(PathNodes)
  <2>1. <<>> \in Seq(PathNodes)
    OBVIOUS
  <2> QED BY <1>3, <2>1 DEF PathOf
<1>5. sp.isRoot <=> Len(sp.nodes) = 1 /\ sp.nodes[1].type = "root"
  <2>1. sp.isRoot = SearchPath_IsRootPath(sp.nodes)
    BY <1>2
  <2> QED BY <2>1 DEF SearchPath_IsRootPath
<1>6. Finds(f, Len(PathOf(sp)), PathOf(sp), root)
  BY <1>4, FindExFinds
<1>7. NodeFromJSONPath(root, path) =
        [ok |-> sp.ok, nodes |-> sp.nodes, isRoot |-> sp.isRoot, n |-> f.n, p |-> f.p,
         err |-> f.err, errlevel |-> f.errlevel, trail |-> f.trail]
  BY DEF NodeFromJSONPath, FoundBy
<1> HIDE DEF sp, f
<1>8. LET j == NodeFromJSONPath(root, path)
      IN  /\ j.ok = sp.ok /\ j.nodes = sp.nodes /\ j.isRoot = sp.isRoot
          /\ j.n = f.n /\ j.p = f.p /\ j.err = f.err /\ j.errlevel = f.errlevel
          /\ j.trail = f.trail
  BY <1>7
<1> QED BY <1>3, <1>4, <1>5, <1>6, <1>8 DEF sp, f

-----------------------------------------------------------------------------
(* What an outcome says of the document.                                   *)

DocTypes == {"empty", "other", "json"}

\* A command that is not replicated has not changed the document.
Replicated(out, doc) ==
    /\ out.replicate \in BOOLEAN
    /\ out.doc.type \in DocTypes
    /\ ~out.replicate => out.doc = doc

\* Nor has a command that replies with an error, which is not replicated.
Lawful(out, doc) ==
    /\ Replicated(out, doc)
    /\ (\E i \in DOMAIN out.replies : out.replies[i] = Error) => out.doc = doc /\ ~out.replicate

\* The other replies are not errors.
LEMMA Replies ==
    /\ Error # Null /\ Error # OK
    /\ \A n : Error # LongLong(n) /\ Error # Bulk(n)
<1>1. /\ Error.kind = "error" /\ Null.kind = "null" /\ OK.kind = "ok"
      /\ \A n : LongLong(n).kind = "int" /\ Bulk(n).kind = "bulk"
  BY DEF Error, Null, OK, LongLong, Bulk, Reply
<1> QED BY <1>1

\* The outcomes that handlers are made of.
LEMMA LawfulParts ==
    ASSUME NEW doc, doc.type \in DocTypes
    PROVE  /\ \A reply : Lawful(Answer(doc, reply), doc)
           /\ Lawful(Refuse(doc), doc)
           /\ Lawful(Crash(doc), doc)
           /\ \A d, clear, reply : d.type \in DocTypes /\ reply # Error =>
                    Lawful(Outcome(d, clear, TRUE, <<reply>>, FALSE), doc)
           /\ \A root, reply : reply # Error => Lawful(Changed(root, reply), doc)
<1>1. ASSUME NEW reply PROVE Lawful(Answer(doc, reply), doc)
  BY DEF Lawful, Replicated, Answer, Outcome
<1>2. Lawful(Refuse(doc), doc)
  BY <1>1 DEF Refuse
<1>3. Lawful(Crash(doc), doc)
  BY DEF Lawful, Replicated, Crash, Outcome
<1>4. ASSUME NEW d, NEW clear, NEW reply, d.type \in DocTypes, reply # Error
      PROVE  Lawful(Outcome(d, clear, TRUE, <<reply>>, FALSE), doc)
  <2>1. \A i \in DOMAIN <<reply>> : <<reply>>[i] # Error
    BY <1>4
  <2> QED BY <1>4, <2>1 DEF Lawful, Replicated, Outcome
<1>5. ASSUME NEW root, NEW reply, reply # Error PROVE Lawful(Changed(root, reply), doc)
  <2>1. Json(root).type \in DocTypes
    BY DEF Json, DocTypes
  <2> QED BY <1>4, <1>5, <2>1 DEF Changed
<1> QED BY <1>1, <1>2, <1>3, <1>4, <1>5

\* The documents that commands build have a type.
LEMMA DocTypesOf ==
    Empty.type \in DocTypes /\ OtherType.type \in DocTypes /\ \A n : Json(n).type \in DocTypes
  BY DEF Empty, OtherType, Json, DocTypes

\* A value set in its container, or refused.
LEMMA SetInContainerLawful ==
    ASSUME NEW doc, doc.type \in DocTypes, NEW j, NEW n, NEW reply, reply # Error
    PROVE  Lawful(SetInContainer(doc, j, n, reply), doc)
<1>1. Lawful(Outcome(Json(n), "document", TRUE, <<reply>>, FALSE), doc)
  BY LawfulParts, DocTypesOf
<1> QED BY <1>1, LawfulParts DEF SetInContainer

\* JSON.SET, on a new key and on an existing one.
LEMMA SetLawful ==
    ASSUME NEW doc, doc.type \in DocTypes, NEW j, j.err \in Errors, NEW r
    PROVE  Lawful(JSONSet(doc, j, r), doc)
<1> DEFINE n == r.jsons[1]
<1>1. Lawful(SetOnNewKey(doc, j, n), doc)
  BY LawfulParts, DocTypesOf, Replies DEF SetOnNewKey
<1>2. Lawful(SetOnExisting(doc, j, n, r.flag), doc)
  <2>1. Lawful(SetInContainer(doc, j, n, OK), doc)
    BY SetInContainerLawful, Replies
  <2>2. \A root : Lawful(Changed(root, OK), doc)
    BY LawfulParts, Replies
  <2>3. Lawful(Refuse(doc), doc) /\ Lawful(Answer(doc, Null), doc)
    BY LawfulParts
  <2> HIDE DEF n
  <2> QED BY <2>1, <2>2, <2>3 DEF SetOnExisting, Errors
<1> QED BY <1>1, <1>2, LawfulParts DEF JSONSet

\* JSON.DEL.
LEMMA DelLawful ==
    ASSUME NEW doc, doc.type \in DocTypes, NEW j, j.err \in Errors, NEW r
    PROVE  Lawful(JSONDel(doc, j, r), doc)
<1>1. \A root, n : Lawful(Changed(root, LongLong(n)), doc)
  BY LawfulParts, Replies
<1>2. /\ Lawful(Refuse(doc), doc) /\ Lawful(Crash(doc), doc)
      /\ \A n : /\ Lawful(Answer(doc, LongLong(n)), doc)
                /\ Lawful(Outcome(doc, "nothing", TRUE, <<LongLong(n)>>, FALSE), doc)
                /\ Lawful(Outcome(Empty, "document", TRUE, <<LongLong(n)>>, FALSE), doc)
  BY LawfulParts, DocTypesOf, Replies
<1>3. CASE doc.type # "json"
  BY <1>2, <1>3 DEF JSONDel, DocTypes
<1>4. CASE doc.type = "json"
  <2>1. CASE ~j.ok \/ j.err = "BADTYPE"
    BY <1>2, <1>4, <2>1 DEF JSONDel
  <2>2. CASE j.ok /\ j.err \in {"NOINDEX", "NOKEY"}
    BY <1>2, <1>4, <2>2 DEF JSONDel
  <2>3. CASE j.ok /\ j.err = "OK"
    BY <1>1, <1>2, <1>4, <2>3 DEF JSONDel
  <2> QED BY <2>1, <2>2, <2>3 DEF Errors
<1> QED BY <1>3, <1>4

\* JSON.NUMINCRBY and JSON.NUMMULTBY.
LEMMA NumLawful ==
    ASSUME NEW doc, doc.type \in DocTypes, NEW j, NEW r
    PROVE  Lawful(JSONNum(doc, j, r), doc)
<1>1. \A n : Lawful(SetInContainer(doc, j, n, Bulk(TextOf(n))), doc)
  BY SetInContainerLawful, Replies
<1> QED BY <1>1, LawfulParts DEF JSONNum

\* JSON.STRAPPEND is lawful for a string, or for what is not JSON.
LEMMA StrAppendLawful ==
    ASSUME NEW doc, doc.type \in DocTypes, NEW j, NEW r, r.jsons[1].type \in {"string", "invalid"}
    PROVE  Lawful(JSONStrAppend(doc, j, r), doc)
<1>1. CASE r.jsons[1].type = "invalid"
  BY <1>1, LawfulParts DEF JSONStrAppend
<1>2. CASE r.jsons[1].type = "string"
  <2>1. \A n : Append(<<>>, LongLong(n)) = <<LongLong(n)>>
    OBVIOUS
  <2>2. \A d, n : Lawful(Outcome(Json(d), "nothing", TRUE, Append(<<>>, LongLong(n)), FALSE), doc)
    BY <2>1, LawfulParts, DocTypesOf, Replies
  <2> QED BY <1>2, <2>2, LawfulParts DEF JSONStrAppend
<1> QED BY <1>1, <1>2

\* Anything else draws an error, and changes the document all the same.
LEMMA StrAppendReplicated ==
    ASSUME NEW doc, doc.type \in DocTypes, NEW j, NEW r
    PROVE  Replicated(JSONStrAppend(doc, j, r), doc)
<1>1. Replicated(Refuse(doc), doc) /\ Replicated(Crash(doc), doc)
  BY LawfulParts DEF Lawful
<1>2. \A n, replies : Replicated(Outcome(Json(n), "nothing", TRUE, replies, FALSE), doc)
  BY DocTypesOf DEF Replicated, Outcome
<1> QED BY <1>1, <1>2 DEF JSONStrAppend

\* The commands on arrays.
LEMMA ArrayLawful ==
    ASSUME NEW doc, doc.type \in DocTypes, NEW j, NEW r
    PROVE  /\ Lawful(JSONArrInsert(doc, j, r), doc)
           /\ Lawful(JSONArrAppend(doc, j, r), doc)
           /\ Lawful(JSONArrPop(doc, j, r), doc)
           /\ Lawful(JSONArrTrim(doc, j, r), doc)
<1>1. \A root, n : Lawful(Changed(root, LongLong(n)), doc)
  BY LawfulParts, Replies
<1>2. \A root, n : Lawful(Outcome(Json(root), "nothing", TRUE, <<Bulk(n)>>, FALSE), doc)
  BY LawfulParts, DocTypesOf, Replies
<1>3. Lawful(Outcome(doc, "nothing", TRUE, <<Null>>, FALSE), doc)
  BY LawfulParts, Replies
<1>4. Lawful(Refuse(doc), doc) /\ Lawful(Crash(doc), doc)
  BY LawfulParts
<1>5. Lawful(JSONArrInsert(doc, j, r), doc)
  BY <1>1, <1>4 DEF JSONArrInsert
<1>6. Lawful(JSONArrAppend(doc, j, r), doc)
  BY <1>1, <1>4 DEF JSONArrAppend
<1>7. Lawful(JSONArrPop(doc, j, r), doc)
  BY <1>2, <1>3, <1>4 DEF JSONArrPop
<1>8. Lawful(JSONArrTrim(doc, j, r), doc)
  BY <1>1, <1>4 DEF JSONArrTrim
<1> QED BY <1>5, <1>6, <1>7, <1>8

\* The server's own commands.
LEMMA ServerLawful ==
    ASSUME NEW doc, doc.type \in DocTypes, NEW r
    PROVE  Lawful(ServerCommand(r), doc)
  BY LawfulParts, DocTypesOf, Replies DEF ServerCommand

-----------------------------------------------------------------------------
(* Commands with errors.                                                   *)

\* What clients append to a string is a string, or not JSON.
StringsAppended ==
    \A r \in Requests : r.cmd = "JSON.STRAPPEND" => r.jsons[1].type \in {"string", "invalid"}

Documents(docs) == docs = [k \in Keys |-> docs[k]] /\ \A k \in Keys : docs[k].type \in DocTypes

\* The commands that write.
WriteCommands ==
    {"JSON.SET", "JSON.DEL", "JSON.NUMINCRBY", "JSON.NUMMULTBY", "JSON.STRAPPEND",
     "JSON.ARRINSERT", "JSON.ARRAPPEND", "JSON.ARRPOP", "JSON.ARRTRIM", "DEL", "SET"}

\* A request, its key and its path.
LEMMA RequestParts ==
    ASSUME NEW r \in Requests
    PROVE  KeyOf(r) \in Keys /\ PathArg(r) \in RequestPaths
<1>1. r.keys \in Seq(Keys) /\ r.keys # <<>> /\ r.paths \in Seq(Seq(STRING))
  BY RequestsAssumption
<1>2. KeyOf(r) \in Keys
  BY <1>1 DEF KeyOf
<1>3. PathArg(r) \in RequestPaths
  <2>1. CASE r.paths = <<>>
    BY <2>1 DEF PathArg, RequestPaths
  <2>2. CASE r.paths # <<>>
    <3>1. 1 \in DOMAIN r.paths
      BY <1>1, <2>2
    <3>2. r.paths[1] \in Range(r.paths)
      BY <3>1 DEF Range
    <3> QED BY <2>2, <3>2 DEF PathArg, RequestPaths
  <2> QED BY <2>1, <2>2
<1> QED BY <1>2, <1>3

\* What the path of a request finds.
LEMMA LookupErrors ==
    ASSUME NEW path \in RequestPaths, NEW root
    PROVE  NodeFromJSONPath(root, path).err \in Errors
  BY FoundFields DEF Finds

\* Every command is lawful.
LEMMA WriteLawful ==
    ASSUME NEW r \in Requests, r.cmd \in WriteCommands,
           r.cmd = "JSON.STRAPPEND" => r.jsons[1].type \in {"string", "invalid"},
           NEW doc, doc.type \in DocTypes
    PROVE  Lawful(WriteOutcome(doc, r), doc)
<1> DEFINE j == NodeFromJSONPath(LookedUpIn(doc, r), PathArg(r))
<1>1. j.err \in Errors
  BY RequestParts, LookupErrors
<1> HIDE DEF j
<1>2. Lawful(HandlerOutcome(doc, j, r), doc)
  BY <1>1, SetLawful, DelLawful, NumLawful, StrAppendLawful, ArrayLawful, ServerLawful
     DEF HandlerOutcome, WriteCommands
<1> QED BY <1>2 DEF WriteOutcome, j

\* What is not replicated has changed nothing, whichever command it is.
LEMMA WriteReplicated ==
    ASSUME NEW r \in Requests, r.cmd \in WriteCommands, NEW doc, doc.type \in DocTypes
    PROVE  Replicated(WriteOutcome(doc, r), doc)
<1>1. CASE r.cmd # "JSON.STRAPPEND"
  BY <1>1, WriteLawful DEF Lawful
<1>2. CASE r.cmd = "JSON.STRAPPEND"
  BY <1>2, StrAppendReplicated DEF WriteOutcome, HandlerOutcome
<1> QED BY <1>1, <1>2

-----------------------------------------------------------------------------
(* The steps.                                                              *)

\* A command that writes, whichever it is.
Write(r) == Writable /\ Commit(r, WriteOutcome(db[KeyOf(r)], r))

Quiet == UNCHANGED <<db, log, replica, crashed>>

\* A step is one of a writing command, of a reading one, of a JSON.GET, or of
\* the replication.
LEMMA Commands ==
    ASSUME [Next]_vars
    PROVE  \/ \E r \in Requests : r.cmd \in WriteCommands /\ Write(r)
           \/ \E r : ReadCommand(r) \/ GetRefused(r) \/ GetUncached(r)
           \/ \E r \in RequestsOf({"JSON.GET"}) : GetSingle(r) \/ MultiBegin(r)
           \/ MultiStep \/ MultiEnd
           \/ \E r \in RequestsOf({"BGREWRITEAOF"}) : RewriteAof(r)
           \/ ReplicaApply
           \/ UNCHANGED vars
<1> USE DEF Write, WriteOutcome, Argument
<1>1. ASSUME NEW r \in RequestsOf({"JSON.SET"}), SetCommand(r)
      PROVE  r \in Requests /\ r.cmd \in WriteCommands /\ Write(r)
  BY <1>1 DEF RequestsOf, SetCommand, HandlerOutcome, WriteCommands
<1>2. ASSUME NEW r \in RequestsOf({"JSON.DEL"}), DelCommand(r)
      PROVE  r \in Requests /\ r.cmd \in WriteCommands /\ Write(r)
  BY <1>2 DEF RequestsOf, DelCommand, HandlerOutcome, WriteCommands
<1>3. ASSUME NEW r \in RequestsOf({"JSON.NUMINCRBY", "JSON.NUMMULTBY"}), NumCommand(r)
      PROVE  r \in Requests /\ r.cmd \in WriteCommands /\ Write(r)
  BY <1>3 DEF RequestsOf, NumCommand, HandlerOutcome, WriteCommands
<1>4. ASSUME NEW r \in RequestsOf({"JSON.STRAPPEND"}), StrAppendCommand(r)
      PROVE  r \in Requests /\ r.cmd \in WriteCommands /\ Write(r)
  BY <1>4 DEF RequestsOf, StrAppendCommand, HandlerOutcome, WriteCommands
<1>5. ASSUME NEW r \in RequestsOf({"JSON.ARRINSERT"}), ArrInsertCommand(r)
      PROVE  r \in Requests /\ r.cmd \in WriteCommands /\ Write(r)
  BY <1>5 DEF RequestsOf, ArrInsertCommand, HandlerOutcome, WriteCommands
<1>6. ASSUME NEW r \in RequestsOf({"JSON.ARRAPPEND"}), ArrAppendCommand(r)
      PROVE  r \in Requests /\ r.cmd \in WriteCommands /\ Write(r)
  BY <1>6 DEF RequestsOf, ArrAppendCommand, HandlerOutcome, WriteCommands
<1>7. ASSUME NEW r \in RequestsOf({"JSON.ARRPOP"}), ArrPopCommand(r)
      PROVE  r \in Requests /\ r.cmd \in WriteCommands /\ Write(r)
  BY <1>7 DEF RequestsOf, ArrPopCommand, HandlerOutcome, WriteCommands
<1>8. ASSUME NEW r \in RequestsOf({"JSON.ARRTRIM"}), ArrTrimCommand(r)
      PROVE  r \in Requests /\ r.cmd \in WriteCommands /\ Write(r)
  BY <1>8 DEF RequestsOf, ArrTrimCommand, HandlerOutcome, WriteCommands
<1>9. ASSUME NEW r \in RequestsOf({"DEL", "SET"}), ServerWrite(r)
      PROVE  r \in Requests /\ r.cmd \in WriteCommands /\ Write(r)
  BY <1>9 DEF RequestsOf, ServerWrite, HandlerOutcome, WriteCommands
<1> QED BY <1>1, <1>2, <1>3, <1>4, <1>5, <1>6, <1>7, <1>8, <1>9 DEF Next

\* What reads without the cache changes the last reply only.
LEMMA Readings ==
    ASSUME NEW r, ReadCommand(r) \/ GetRefused(r) \/ GetUncached(r)
    PROVE  UNCHANGED <<db, cache, log, replica, multi, crashed>>
<1>1. CASE ReadCommand(r) \/ GetRefused(r)
  BY <1>1 DEF ReadCommand, GetRefused
<1>2. CASE GetUncached(r)
  BY <1>2, Zenon DEF GetUncached
<1> QED BY <1>1, <1>2

\* A step is a writing command, changes neither documents nor stream, rewrites
\* the append-only file, or is one of the replica.
LEMMA Steps ==
    ASSUME [Next]_vars
    PROVE  \/ \E r \in Requests : r.cmd \in WriteCommands /\ Write(r)
           \/ Quiet
           \/ \E r \in RequestsOf({"BGREWRITEAOF"}) : RewriteAof(r)
           \/ ReplicaApply
<1>1. ASSUME NEW r, ReadCommand(r) \/ GetRefused(r) \/ GetUncached(r) PROVE Quiet
  BY <1>1, Readings DEF Quiet
<1>2. ASSUME NEW r, GetSingle(r) PROVE Quiet
  BY <1>2 DEF Quiet, GetSingle
<1>3. ASSUME NEW r, MultiBegin(r) PROVE Quiet
  <2>1. UNCHANGED <<db, cache, log, replica, last, crashed>>
    BY <1>3, Zenon DEF MultiBegin
  <2> QED BY <2>1 DEF Quiet
<1>4. ASSUME MultiStep PROVE Quiet
  <2>1. UNCHANGED <<db, log, replica, last, crashed>>
    BY <1>4, Zenon DEF MultiStep
  <2> QED BY <2>1 DEF Quiet
<1>5. ASSUME MultiEnd PROVE Quiet
  <2>1. UNCHANGED <<db, cache, log, replica, crashed>>
    BY <1>5, Zenon DEF MultiEnd
  <2> QED BY <2>1 DEF Quiet
<1>6. ASSUME UNCHANGED vars PROVE Quiet
  BY <1>6 DEF Quiet, vars
<1> QED BY <1>1, <1>2, <1>3, <1>4, <1>5, <1>6, Commands

\* The documents are a function from the keys, each of a known type.
LEMMA DocumentsKept ==
    ASSUME Documents(db), [Next]_vars
    PROVE  Documents(db')
<1>1. ASSUME NEW r \in Requests, r.cmd \in WriteCommands, Write(r) PROVE Documents(db')
  <2>1. KeyOf(r) \in Keys
    BY RequestParts
  <2>2. WriteOutcome(db[KeyOf(r)], r).doc.type \in DocTypes
    BY <1>1, <2>1, WriteReplicated DEF Documents, Replicated
  <2>3. db' = [db EXCEPT ![KeyOf(r)] = WriteOutcome(db[KeyOf(r)], r).doc]
    BY <1>1 DEF Write, Commit
  <2> QED BY <2>1, <2>2, <2>3 DEF Documents
<1>2. CASE Quiet
  BY <1>2 DEF Quiet
<1>3. ASSUME NEW r, RewriteAof(r) PROVE Documents(db')
  BY <1>3 DEF RewriteAof
<1>4. CASE ReplicaApply
  BY <1>4 DEF ReplicaApply
<1> QED BY <1>1, <1>2, <1>3, <1>4, Steps

\* In every reachable state each key has a document.
LEMMA AlwaysDocuments == Spec => []Documents(db)
<1>1. Init => Documents(db)
  BY DocTypesOf DEF Init, Documents
<1>2. Documents(db) /\ [Next]_vars => Documents(db)'
  BY DocumentsKept DEF Documents
<1> QED BY <1>1, <1>2, PTL DEF Spec

\* A command that replies with an error has changed no document and is not
\* replicated, whatever the documents and the path, provided that what
\* JSON.STRAPPEND is given is a string: with another value it replies with an
\* error and goes on.
THEOREM ErrorsAlwaysChangeNothing ==
    ASSUME StringsAppended
    PROVE  Spec => ErrorsChangeNothing
<1> DEFINE Refused == \E i \in DOMAIN last'.replies : last'.replies[i] = Error
<1>1. ASSUME Documents(db), [Next]_vars, last' # last, Refused
      PROVE  db' = db /\ log' = log
  <2>1. ASSUME NEW r \in Requests, r.cmd \in WriteCommands, Write(r) PROVE db' = db /\ log' = log
    <3> DEFINE out == WriteOutcome(db[KeyOf(r)], r)
    <3>1. KeyOf(r) \in Keys
      BY RequestParts
    <3>2. Lawful(out, db[KeyOf(r)])
      BY <1>1, <2>1, <3>1, WriteLawful DEF Documents, StringsAppended
    <3>3. /\ db' = [db EXCEPT ![KeyOf(r)] = out.doc]
          /\ log' = (IF out.replicate THEN Append(log, r) ELSE log)
          /\ last'.replies = out.replies
      BY <2>1 DEF Write, Commit, Replied
    <3> HIDE DEF out
    <3>4. out.doc = db[KeyOf(r)] /\ ~out.replicate
      BY <1>1, <3>2, <3>3 DEF Lawful
    <3> QED BY <1>1, <3>1, <3>3, <3>4 DEF Documents
  <2>2. CASE Quiet
    BY <2>2 DEF Quiet
  <2>3. ASSUME NEW r, RewriteAof(r) PROVE db' = db /\ log' = log
    BY <1>1, <2>3 DEF RewriteAof
  <2>4. CASE ReplicaApply
    BY <1>1, <2>4 DEF ReplicaApply
  <2> QED BY <1>1, <2>1, <2>2, <2>3, <2>4, Steps
<1>2. Documents(db) /\ [Next]_vars =>
        [(last' # last /\ \E i \in DOMAIN last'.replies : last'.replies[i] = Error)
            => db' = db /\ log' = log]_vars
  BY <1>1
<1> QED BY <1>2, AlwaysDocuments, PTL DEF Spec, ErrorsChangeNothing

-----------------------------------------------------------------------------
(* Replicas.                                                               *)

Running == INSTANCE Folding WITH op <- Run

\* Replayed, as the fold that the facts of Folding are about.
LEMMA ReplayedFolds ==
    /\ Replayed = Running!Folded(replica, log)
    /\ Replayed' = Running!Folded(replica', log')
<1>1. \A docs, s : FoldLeft(Run, docs, s) = Running!Folded(docs, s)
  BY DEF Running!Folded, FoldLeft, Running!FoldLeft, MapThenFoldSet,
         Running!MapThenFoldSet, Max, Running!Max
<1> QED BY <1>1 DEF Replayed

\* The stream holds commands that write.
Stream == log \in Seq({r \in Requests : r.cmd \in WriteCommands})

\* The documents are what the replica will have, and the stream holds what it
\* has still to run.
Converging == Documents(db) /\ Stream /\ db = Replayed

\* Every step keeps the documents and the stream together.
LEMMA ConvergingKept ==
    ASSUME RequestsOf({"BGREWRITEAOF"}) = {}, Converging, [Next]_vars
    PROVE  Converging'
<1> DEFINE W == {r \in Requests : r.cmd \in WriteCommands}
<1>1. Documents(db')
  BY DocumentsKept DEF Converging
<1>2. log \in Seq(W) /\ db = Running!Folded(replica, log)
  BY ReplayedFolds DEF Converging, Stream
<1>3. SUFFICES log' \in Seq(W) /\ db' = Running!Folded(replica', log')
  BY <1>1, ReplayedFolds DEF Converging, Stream, Documents
<1>4. ASSUME NEW r \in Requests, r.cmd \in WriteCommands, Write(r)
      PROVE  log' \in Seq(W) /\ db' = Running!Folded(replica', log')
  <2> DEFINE out == WriteOutcome(db[KeyOf(r)], r)
  <2>1. KeyOf(r) \in Keys /\ r \in W
    BY <1>4, RequestParts
  <2>2. Replicated(out, db[KeyOf(r)])
    BY <1>4, <2>1, WriteReplicated DEF Converging, Documents
  <2>3. /\ db' = [db EXCEPT ![KeyOf(r)] = out.doc]
        /\ log' = (IF out.replicate THEN Append(log, r) ELSE log)
        /\ replica' = replica
    BY <1>4 DEF Write, Commit
  <2>4. Run(db, r) = [db EXCEPT ![KeyOf(r)] = out.doc]
    BY DEF Run
  <2> HIDE DEF out, W
  <2>5. CASE out.replicate
    <3>1. log' = Append(log, r)
      BY <2>3, <2>5
    <3>2. log' \in Seq(W)
      BY <1>2, <2>1, <3>1
    <3>3. Running!Folded(replica, Append(log, r)) = Run(Running!Folded(replica, log), r)
      BY <1>2, <2>1, Running!FoldLeftAppend
    <3> QED BY <1>2, <2>3, <2>4, <3>1, <3>2, <3>3
  <2>6. CASE ~out.replicate
    <3>1. out.doc = db[KeyOf(r)] /\ log' = log
      BY <2>2, <2>3, <2>6 DEF Replicated
    <3>2. db' = db
      BY <2>1, <2>3, <3>1 DEF Converging, Documents
    <3> QED BY <1>2, <2>3, <3>1, <3>2
  <2> QED BY <2>5, <2>6
<1>5. CASE Quiet
  BY <1>2, <1>5 DEF Quiet
<1>6. CASE ReplicaApply
  <2>1. /\ log # <<>> /\ replica' = Run(replica, Head(log)) /\ log' = Tail(log)
        /\ db' = db
    BY <1>6 DEF ReplicaApply
  <2> HIDE DEF W
  <2>2. Tail(log) \in Seq(W)
    BY <1>2, <2>1
  <2>3. Running!Folded(replica, log) = Running!Folded(Run(replica, Head(log)), Tail(log))
    BY <1>2, <2>1, Running!FoldLeftHead
  <2> QED BY <1>2, <2>1, <2>2, <2>3
<1> QED BY <1>4, <1>5, <1>6, Steps

\* A replica that runs the rest of the stream has the documents of the server,
\* whatever commands clients send and however far behind the replica is:
\* nothing changes a document without being replicated, and what is replicated
\* depends on the document alone.
THEOREM ReplicaAlwaysConverges ==
    ASSUME RequestsOf({"BGREWRITEAOF"}) = {}
    PROVE  Spec => []ReplicaConverges
<1>1. Init => Converging
  <2> SUFFICES ASSUME Init PROVE Converging
    OBVIOUS
  <2>1. db = [k \in Keys |-> Empty] /\ replica = [k \in Keys |-> Empty] /\ log = <<>>
    BY DEF Init
  <2>2. Documents(db)
    BY <2>1, DocTypesOf DEF Documents
  <2>3. Stream
    <3>1. \A S : <<>> \in Seq(S)
      OBVIOUS
    <3> QED BY <2>1, <3>1 DEF Stream
  <2>4. Running!Folded(replica, <<>>) = replica
    BY Running!FoldLeftEmpty DEF Running!Folded
  <2> QED BY <2>1, <2>2, <2>3, <2>4, ReplayedFolds DEF Converging
<1>2. Converging /\ [Next]_vars => Converging'
  BY ConvergingKept
<1>3. Converging => ReplicaConverges
  BY DEF Converging, ReplicaConverges
<1> QED BY <1>1, <1>2, <1>3, PTL DEF Spec

-----------------------------------------------------------------------------
(* Trees.                                                                  *)

\* What clients send is parsed to trees.
ArgumentsAreTrees ==
    \E S : Trees(S) /\ \A r \in Requests : \A i \in DOMAIN r.jsons : r.jsons[i] \in S

Types == DOMAIN TypeCode \cup {"invalid"}

\* The types of nodes, those of a refused text included.
LEMMA TypesAre ==
    Types = {"null", "string", "number", "integer", "boolean", "dict", "array", "keyval", "invalid"}
  BY DEF Types, TypeCode

\* A node whose children are in the set may join it.
LEMMA TreesWith ==
    ASSUME NEW S, Trees(S), NEW type \in Types, NEW num, NEW str, NEW K, NEW keys \in Seq(K),
           NEW entries \in Seq(S), WellFormed(New(type, num, str, keys, entries))
    PROVE  Trees(S \cup {New(type, num, str, keys, entries)})
<1> DEFINE m == New(type, num, str, keys, entries)
           T == S \cup {m}
<1> SUFFICES ASSUME NEW n \in T
             PROVE  /\ n = New(n.type, n.num, n.str, n.keys, n.entries)
                    /\ n.type \in DOMAIN TypeCode \cup {"invalid"}
                    /\ n.keys \in Seq(Range(n.keys)) /\ n.entries \in Seq(T)
                    /\ WellFormed(n)
  BY DEF Trees
<1>1. CASE n \in S
  <2>1. n.entries \in Seq(S) /\ S \subseteq T
    BY <1>1 DEF Trees
  <2>2. n.entries \in Seq(T)
    BY <2>1, WiderSeq
  <2> QED BY <1>1, <2>2 DEF Trees
<1>2. CASE n = m
  <2>1. /\ m.type = type /\ m.num = num /\ m.str = str /\ m.keys = keys /\ m.entries = entries
        /\ m = New(m.type, m.num, m.str, m.keys, m.entries)
    BY DEF New
  <2>2. keys \in Seq(Range(keys))
    <3>1. \A i \in DOMAIN keys : keys[i] \in Range(keys)
      BY DEF Range
    <3> QED BY <3>1
  <2>3. entries \in Seq(T)
    <3>1. S \subseteq T
      OBVIOUS
    <3> HIDE DEF T
    <3> QED BY <3>1, WiderSeq
  <2> HIDE DEF m, T
  <2>4. WellFormed(m)
    BY DEF m
  <2> QED BY <1>2, <2>1, <2>2, <2>3, <2>4 DEF Types
<1> QED BY <1>1, <1>2

\* Scalars are trees.
LEMMA ScalarTrees ==
    ASSUME NEW S, Trees(S), NEW x
    PROVE  /\ Trees(S \cup {NullNode}) /\ Trees(S \cup {NewIntNode(x)})
           /\ Trees(S \cup {NewDoubleNode(x)}) /\ Trees(S \cup {NewStringNode(x)})
<1>1. ASSUME NEW type \in Types \ {"dict", "array"}, NEW num, NEW str
      PROVE  Trees(S \cup {New(type, num, str, <<>>, <<>>)})
  <2>1. <<>> \in Seq(S) /\ <<>> \in Seq({})
    OBVIOUS
  <2>2. WellFormed(New(type, num, str, <<>>, <<>>))
    BY <1>1 DEF WellFormed, New
  <2> QED BY <2>1, <2>2, TreesWith
<1>2. {"null", "integer", "number", "string"} \subseteq Types \ {"dict", "array"}
  BY TypesAre
<1> QED BY <1>1, <1>2 DEF NullNode, NewIntNode, NewDoubleNode, NewStringNode

\* So is an array of trees.
LEMMA ArrayTrees ==
    ASSUME NEW S, Trees(S), NEW items \in Seq(S)
    PROVE  Trees(S \cup {NewArrayNode(items)})
<1>1. <<>> \in Seq({}) /\ "array" \in Types
  BY TypesAre
<1>2. WellFormed(New("array", 0, <<>>, <<>>, items))
  BY DEF WellFormed, New
<1> QED BY <1>1, <1>2, TreesWith DEF NewArrayNode

\* The parts of a tree.
LEMMA TreeParts ==
    ASSUME NEW S, Trees(S), NEW n \in S
    PROVE  /\ n = New(n.type, n.num, n.str, n.keys, n.entries) /\ n.type \in Types
           /\ n.keys \in Seq(Range(n.keys)) /\ n.entries \in Seq(S) /\ WellFormed(n)
  BY DEF Trees, Types

\* A sequence with another element.
LEMMA ElementReplaced ==
    ASSUME NEW S, NEW s \in Seq(S), NEW pos, NEW e \in S
    PROVE  /\ [s EXCEPT ![pos] = e] \in Seq(S)
           /\ Len([s EXCEPT ![pos] = e]) = Len(s)
           /\ s = <<>> => [s EXCEPT ![pos] = e] = <<>>
<1> DEFINE t == [s EXCEPT ![pos] = e]
<1>1. Len(s) \in Nat /\ DOMAIN s = 1..Len(s) /\ s \in [1..Len(s) -> S]
  OBVIOUS
<1>2. t \in [1..Len(s) -> S]
  BY <1>1
<1> HIDE DEF t
<1>3. t \in Seq(S) /\ Len(t) = Len(s)
  BY <1>1, <1>2
<1>4. s = <<>> => t = <<>>
  BY <1>1, <1>3
<1> QED BY <1>3, <1>4 DEF t

\* A node with other children.
LEMMA EntriesReplaced ==
    ASSUME NEW d, d = New(d.type, d.num, d.str, d.keys, d.entries), NEW entries
    PROVE  [d EXCEPT !.entries = entries] = New(d.type, d.num, d.str, d.keys, entries)
<1>1. ASSUME NEW type, NEW num, NEW str, NEW ks, NEW es
      PROVE  [New(type, num, str, ks, es) EXCEPT !.entries = entries] = New(type, num, str, ks, entries)
  BY DEF New
<1> QED BY <1>1

\* A node with other keys too.
Renewed(d, keys, entries) == [d EXCEPT !.keys = keys, !.entries = entries]

\* A node given other keys and entries keeps the rest of its fields.
LEMMA KeysReplaced ==
    ASSUME NEW d, d = New(d.type, d.num, d.str, d.keys, d.entries), NEW keys, NEW entries
    PROVE  Renewed(d, keys, entries) = New(d.type, d.num, d.str, keys, entries)
<1>1. ASSUME NEW type, NEW num, NEW str, NEW ks, NEW es
      PROVE  [New(type, num, str, ks, es) EXCEPT !.keys = keys] = New(type, num, str, keys, es)
  BY DEF New
<1>2. Renewed(d, keys, entries) = [[d EXCEPT !.keys = keys] EXCEPT !.entries = entries]
  BY DEF Renewed
<1>3. [d EXCEPT !.keys = keys] = New(d.type, d.num, d.str, keys, d.entries)
  BY <1>1
<1>4. [New(d.type, d.num, d.str, keys, d.entries) EXCEPT !.entries = entries]
        = New(d.type, d.num, d.str, keys, entries)
  BY DEF New
<1> QED BY <1>2, <1>3, <1>4, Zenon

\* A node with another child is a tree.
LEMMA ChildReplaced ==
    ASSUME NEW S, Trees(S), NEW n \in S, NEW pos, NEW child \in S
    PROVE  Trees(S \cup {[n EXCEPT !.entries[pos] = child]})
<1> DEFINE entries == [n.entries EXCEPT ![pos] = child]
<1>1. /\ n = New(n.type, n.num, n.str, n.keys, n.entries) /\ n.type \in Types
      /\ n.keys \in Seq(Range(n.keys)) /\ n.entries \in Seq(S) /\ WellFormed(n)
  BY TreeParts
<1>2. entries \in Seq(S) /\ Len(entries) = Len(n.entries) /\ (n.entries = <<>> => entries = <<>>)
  BY <1>1, ElementReplaced
<1>3. [n EXCEPT !.entries[pos] = child] = New(n.type, n.num, n.str, n.keys, entries)
  <2>1. [n EXCEPT !.entries[pos] = child] = [n EXCEPT !.entries = entries]
    OBVIOUS
  <2> HIDE DEF entries
  <2> QED BY <1>1, <2>1, EntriesReplaced
<1> HIDE DEF entries
<1>4. WellFormed(New(n.type, n.num, n.str, n.keys, entries))
  BY <1>1, <1>2 DEF WellFormed, New
<1>5. Trees(S \cup {New(n.type, n.num, n.str, n.keys, entries)})
  BY <1>1, <1>2, <1>4, TreesWith
<1> QED BY <1>3, <1>5


Rebuilding == INSTANCE Folding WITH op <- PutBack

\* A larger set of trees, with the node.
Grown(S, n) == \E T : S \subseteq T /\ Trees(T) /\ n \in T

\* A trail through the nodes of a set.
Passes(trail, S) == \E R : trail \in Seq(R) /\ \A t \in R : t.node \in S

\* A document in which a node is replaced by a tree is one.
LEMMA ReplacedTree ==
    ASSUME NEW S, Trees(S), NEW trail, Passes(trail, S), NEW n \in S
    PROVE  Grown(S, Replaced(trail, n))
<1>1. PICK R : trail \in Seq(R) /\ \A t \in R : t.node \in S
  BY DEF Passes
<1>2. Len(trail) \in Nat /\ DOMAIN trail = 1..Len(trail)
  BY <1>1
<1>3. DOMAIN Reverse(trail) = 1..Len(trail)
  BY <1>2 DEF Reverse
<1>4. PICK t : /\ Rebuilding!Traces(n, t, Reverse(trail), Len(trail))
               /\ Rebuilding!FoldLeft(PutBack, n, Reverse(trail)) = t[Len(trail)]
  BY <1>2, <1>3, Rebuilding!FoldLeftTrace
<1>5. Replaced(trail, n) = t[Len(trail)]
  BY <1>4 DEF Replaced, FoldLeft, Rebuilding!FoldLeft, MapThenFoldSet,
              Rebuilding!MapThenFoldSet, Max, Rebuilding!Max
<1> DEFINE I == {i \in Nat : i \in 0..Len(trail) => Grown(S, t[i])}
<1>6. 0 \in I
  BY <1>4 DEF Rebuilding!Traces, Grown
<1>7. ASSUME NEW i \in Nat, i \in I PROVE i + 1 \in I
  <2> SUFFICES ASSUME i + 1 \in 0..Len(trail) PROVE Grown(S, t[i + 1])
    OBVIOUS
  <2>1. i + 1 \in 1..Len(trail) /\ i \in 0..Len(trail) /\ (i + 1) - 1 = i
    BY <1>2
  <2> DEFINE e == trail[Len(trail) - (i + 1) + 1]
  <2>2. e.node \in S
    <3>1. Len(trail) - (i + 1) + 1 \in 1..Len(trail)
      BY <1>2, <2>1
    <3> QED BY <1>1, <3>1
  <2>3. t[i + 1] = PutBack(t[i], e)
    <3>1. Reverse(trail)[i + 1] = e
      BY <2>1 DEF Reverse
    <3> QED BY <1>4, <2>1, <3>1 DEF Rebuilding!Traces
  <2>4. PICK T : S \subseteq T /\ Trees(T) /\ t[i] \in T
    BY <1>7, <2>1 DEF Grown
  <2> HIDE DEF e
  <2>5. Trees(T \cup {[e.node EXCEPT !.entries[e.pos] = t[i]]})
    BY <2>2, <2>4, ChildReplaced
  <2> QED BY <2>3, <2>4, <2>5 DEF Grown, PutBack
<1> HIDE DEF I
<1>8. Len(trail) \in I
  BY <1>2, <1>6, <1>7, Rebuilding!NatSet
<1> QED BY <1>2, <1>5, <1>8 DEF I

\* The first of the positions of a key is one of them.
LEMMA FirstPosition ==
    ASSUME NEW d, NEW K, d.keys \in Seq(K), NEW key, HasKey(d, key)
    PROVE  obj_find(d, key) \in DOMAIN d.keys /\ d.keys[obj_find(d, key)] = key
<1>1. Positions(d, key) \in SUBSET Nat /\ Positions(d, key) # {}
  BY DEF Positions, HasKey
<1>2. \E i \in Positions(d, key) : \A k \in Positions(d, key) : i <= k
  BY <1>1, Finding!Least
<1>3. obj_find(d, key) \in Positions(d, key)
  BY <1>2 DEF obj_find
<1> QED BY <1>3 DEF Positions

\* A step that ends without an error leads to an entry.
LEMMA EvalOk ==
    ASSUME NEW S, Trees(S), NEW n \in S, NEW pn \in PathNodes, pathNode_eval(pn, n).err = "OK"
    PROVE  /\ pathNode_eval(pn, n).pos \in DOMAIN n.entries
           /\ \/ /\ n.type = "array" /\ pn.type = "index"
                 /\ FromEnd(Len(n.entries), pn.index) \in 0 .. (Len(n.entries) - 1)
              \/ n.type = "dict" /\ pn.type = "key" /\ HasKey(n, pn.key)
<1>1. /\ n.keys \in Seq(Range(n.keys)) /\ n.entries \in Seq(S) /\ WellFormed(n)
  BY TreeParts
<1>2. CASE n.type = "array" /\ pn.type = "index"
  <2>1. FromEnd(Len(n.entries), pn.index) \in 0 .. (Len(n.entries) - 1)
    BY <1>2 DEF pathNode_eval
  <2>2. pathNode_eval(pn, n).pos = FromEnd(Len(n.entries), pn.index) + 1
    BY <1>2, <2>1 DEF pathNode_eval
  <2>3. Len(n.entries) \in Nat /\ DOMAIN n.entries = 1..Len(n.entries)
    BY <1>1
  <2>4. \A i \in 0 .. (Len(n.entries) - 1) : i + 1 \in 1..Len(n.entries)
    BY <2>3
  <2> QED BY <1>2, <2>1, <2>2, <2>3, <2>4
<1>3. CASE n.type = "dict" /\ pn.type = "key"
  <2>1. HasKey(n, pn.key)
    BY <1>3 DEF pathNode_eval
  <2>2. pathNode_eval(pn, n).pos = obj_find(n, pn.key)
    BY <1>3, <2>1 DEF pathNode_eval
  <2>3. obj_find(n, pn.key) \in DOMAIN n.keys
    BY <1>1, <2>1, FirstPosition
  <2>4. DOMAIN n.keys = DOMAIN n.entries
    BY <1>1, <1>3 DEF WellFormed
  <2> QED BY <1>3, <2>1, <2>2, <2>3, <2>4
<1>4. CASE ~(n.type = "array" /\ pn.type = "index") /\ ~(n.type = "dict" /\ pn.type = "key")
  BY <1>4 DEF pathNode_eval
<1> QED BY <1>2, <1>3, <1>4


\* The nodes of a trail that starts in the set are in the set, and so is the
\* one it leads to.
LEMMA TrailInside ==
    ASSUME NEW S, Trees(S), NEW root \in S, NEW nodes \in Seq(PathNodes), NEW trail, NEW m,
           m \in 0..Len(nodes), Trail(trail, m, nodes, root)
    PROVE  \A k \in 0..m : Reached(trail, k, root) \in S
<1>1. Len(nodes) \in Nat /\ m \in Nat /\ \A k \in 1..m : nodes[k] \in PathNodes
  OBVIOUS
<1> DEFINE I == {k \in Nat : k \in 0..m => Reached(trail, k, root) \in S}
<1>2. 0 \in I
  BY DEF Reached
<1>3. ASSUME NEW k \in Nat, k \in I PROVE k + 1 \in I
  <2> SUFFICES ASSUME k + 1 \in 0..m PROVE Reached(trail, k + 1, root) \in S
    OBVIOUS
  <2>1. k \in 0..m /\ k + 1 \in 1..m /\ (k + 1) - 1 = k /\ k + 1 # 0
    BY <1>1
  <2> DEFINE e == trail[k + 1]
             pn == nodes[k + 1]
  <2>2. e.node = Reached(trail, k, root) /\ pathNode_eval(pn, e.node) = [err |-> "OK", pos |-> e.pos]
    BY <2>1 DEF Trail
  <2>3. e.node \in S /\ pn \in PathNodes
    BY <1>1, <1>3, <2>1, <2>2
  <2>4. pathNode_eval(pn, e.node).err = "OK" /\ pathNode_eval(pn, e.node).pos = e.pos
    BY <2>2
  <2>5. Reached(trail, k + 1, root) = e.node.entries[e.pos]
    BY <2>1 DEF Reached
  <2> HIDE DEF e, pn
  <2>6. e.pos \in DOMAIN e.node.entries
    BY <2>3, <2>4, EvalOk
  <2>7. e.node.entries \in Seq(S)
    BY <2>3, TreeParts
  <2> QED BY <2>5, <2>6, <2>7
<1> HIDE DEF I
<1>4. \A k \in Nat : k \in I
  BY <1>2, <1>3, Finding!NatSet
<1> QED BY <1>1, <1>4 DEF I

\* Where the path of a command leads in a tree: the node and its parent are
\* trees, or null, and so are the nodes on the way.
Inside(j, S) ==
    /\ j.n \in S /\ j.p \in S /\ Passes(j.trail, S)
    /\ j.err \in Errors /\ j.nodes \in Seq(PathNodes)

\* The last node of the path is about an entry that the parent has, or about a
\* key that it lacks.
AtLast(j) ==
    j.isRoot \/ j.nodes = <<>>
        \/ /\ j.err = "OK" => pathNode_eval(Last(j.nodes), j.p).err = "OK"
           /\ j.err = "NOKEY" /\ j.errlevel = Len(j.nodes) - 1 =>
                pathNode_eval(Last(j.nodes), j.p).err = "NOKEY"

\* With a path of no nodes, there is no parent.
Parentless(j) == j.isRoot \/ j.nodes = <<>> => j.p = NullNode /\ j.err = "OK"

\* The trail leads to the parent at least.
Passed(j) ==
    j.err = "OK" \/ (j.err = "NOKEY" /\ j.errlevel = Len(j.nodes) - 1)
        => Len(j.nodes) - 1 <= Len(j.trail)

Leads(j, S) == Inside(j, S) /\ AtLast(j) /\ Parentless(j) /\ Passed(j)

\* What a search path leads to in a tree of S is of S.
LEMMA FoundTrees ==
    ASSUME NEW S, Trees(S), NullNode \in S, NEW root \in S, NEW path \in RequestPaths
    PROVE  Leads(NodeFromJSONPath(root, path), S)
<1> DEFINE j == NodeFromJSONPath(root, path)
           sp == Parsed[path]
           nodes == PathOf(sp)
           f == SearchPath_FindEx(nodes, root)
<1>1. /\ j.ok = sp.ok /\ j.nodes = sp.nodes /\ j.isRoot = sp.isRoot
      /\ sp.nodes \in Seq(PathNodes) /\ nodes \in Seq(PathNodes)
  BY FoundFields
<1>2. /\ j.n = f.n /\ j.p = f.p /\ j.err = f.err /\ j.errlevel = f.errlevel /\ j.trail = f.trail
      /\ Finds(f, Len(nodes), nodes, root)
  BY FoundFields
<1> HIDE DEF f
<1>3. PICK m \in Nat :
        /\ j.err \in Errors
        /\ Trail(j.trail, m, nodes, root)
        /\ j.err = "OK" =>
            /\ m = Len(nodes) /\ j.n = Reached(j.trail, m, root)
            /\ j.p = IF m = 0 THEN NullNode ELSE j.trail[m].node
        /\ j.err # "OK" =>
            /\ m < Len(nodes) /\ j.n = NullNode /\ j.p = Reached(j.trail, m, root)
            /\ j.err = pathNode_eval(nodes[m + 1], j.p).err /\ j.errlevel = m
  BY <1>2 DEF Finds
<1>4. nodes = IF j.isRoot THEN <<>> ELSE j.nodes
  BY <1>1 DEF PathOf
<1> HIDE DEF j, sp, nodes
<1>5. m \in 0..Len(nodes)
  BY <1>1, <1>3
<1>6. \A k \in 0..m : Reached(j.trail, k, root) \in S
  BY <1>1, <1>3, <1>5, TrailInside
<1>7. \A k \in 1..m : j.trail[k].node = Reached(j.trail, k - 1, root) /\ k - 1 \in 0..m
  <2> SUFFICES ASSUME NEW k \in 1..m
               PROVE  j.trail[k].node = Reached(j.trail, k - 1, root) /\ k - 1 \in 0..m
    OBVIOUS
  <2>1. k - 1 \in 0..m
    OBVIOUS
  <2> QED BY <1>3, <2>1 DEF Trail
<1>8. \A k \in 1..m : j.trail[k].node \in S
  BY <1>6, <1>7
<1>9. Passes(j.trail, S)
  <2> DEFINE R == {j.trail[k] : k \in 1..m}
  <2>1. Listed(j.trail, m) /\ \A k \in 1..m : j.trail[k] \in R
    BY <1>3 DEF Trail
  <2>2. \A t \in R : t.node \in S
    BY <1>8
  <2> HIDE DEF R
  <2>3. j.trail \in Seq(R)
    BY <2>1, ListedSeq
  <2> QED BY <2>2, <2>3 DEF Passes
<1>10. j.n \in S /\ j.p \in S
  <2>1. m \in 0..m /\ (m # 0 => m \in 1..m)
    BY <1>3
  <2> QED BY <1>3, <1>6, <1>8, <2>1
<1>11. AtLast(j)
  <2> SUFFICES ASSUME ~j.isRoot, j.nodes # <<>>
               PROVE  /\ j.err = "OK" => pathNode_eval(Last(j.nodes), j.p).err = "OK"
                      /\ j.err = "NOKEY" /\ j.errlevel = Len(j.nodes) - 1 =>
                            pathNode_eval(Last(j.nodes), j.p).err = "NOKEY"
    BY DEF AtLast
  <2>1. nodes = j.nodes /\ Len(nodes) \in Nat \ {0} /\ Last(j.nodes) = nodes[Len(nodes)]
    <3>1. Len(j.nodes) \in Nat \ {0}
      BY <1>1
    <3> QED BY <1>4, <3>1 DEF Last
  <2>2. ASSUME j.err = "OK" PROVE pathNode_eval(Last(j.nodes), j.p).err = "OK"
    <3>1. m = Len(nodes) /\ m \in 1..m /\ j.p = j.trail[m].node
      BY <1>3, <2>1, <2>2
    <3>2. pathNode_eval(nodes[m], j.trail[m].node) = [err |-> "OK", pos |-> j.trail[m].pos]
      BY <1>3, <3>1 DEF Trail
    <3> QED BY <2>1, <3>1, <3>2
  <2>3. ASSUME j.err = "NOKEY", j.errlevel = Len(j.nodes) - 1
        PROVE  pathNode_eval(Last(j.nodes), j.p).err = "NOKEY"
    <3>1. m = Len(nodes) - 1 /\ j.err = pathNode_eval(nodes[m + 1], j.p).err
      BY <1>3, <2>1, <2>3
    <3>2. m + 1 = Len(nodes)
      BY <2>1, <3>1
    <3> QED BY <2>1, <2>3, <3>1, <3>2
  <2> QED BY <2>2, <2>3
<1>12. Parentless(j)
  <2> SUFFICES ASSUME j.isRoot \/ j.nodes = <<>> PROVE j.p = NullNode /\ j.err = "OK"
    BY DEF Parentless
  <2>1. Len(nodes) = 0
    BY <1>4
  <2> QED BY <1>3, <2>1
<1>13. Passed(j)
  <2>1. Len(j.trail) = m
    BY <1>3, ListedAppend DEF Trail
  <2>2. Len(j.nodes) \in Nat /\ (j.isRoot => Len(j.nodes) = 1)
    BY <1>1, FoundFields DEF j, sp
  <2>3. CASE j.isRoot
    <3>1. m \in Nat
      BY <1>3
    <3>2. Len(j.nodes) - 1 <= Len(j.trail)
      <4>1. \A a, b \in Nat : a = 1 => a - 1 <= b
        OBVIOUS
      <4> QED BY <2>1, <2>2, <2>3, <3>1, <4>1
    <3> QED BY <3>2 DEF Passed
  <2>4. CASE ~j.isRoot
    BY <1>3, <1>4, <2>1, <2>2, <2>4 DEF Passed
  <2> QED BY <2>3, <2>4
<1>14. Leads(j, S)
  BY <1>1, <1>3, <1>9, <1>10, <1>11, <1>12, <1>13 DEF Inside, Leads
<1> QED BY <1>14 DEF j


\* A dictionary with a key set or deleted is a tree: no key comes twice.
LEMMA KeySet ==
    ASSUME NEW S, Trees(S), NEW d \in S, d.type = "dict", NEW key, NEW n \in S
    PROVE  Trees(S \cup {Node_DictSet(d, key, n)})
<1> DEFINE K == Range(d.keys) \cup {key}
           keys == Append(d.keys, key)
           entries == Append(d.entries, n)
<1>1. /\ d = New(d.type, d.num, d.str, d.keys, d.entries) /\ d.type \in Types
      /\ d.keys \in Seq(Range(d.keys)) /\ d.entries \in Seq(S) /\ WellFormed(d)
  BY TreeParts
<1>2. CASE HasKey(d, key)
  BY <1>2, ChildReplaced DEF Node_DictSet
<1>3. CASE ~HasKey(d, key)
  <2>1. Node_DictSet(d, key, n) = Renewed(d, keys, entries)
    BY <1>3 DEF Node_DictSet, Renewed
  <2>2. Node_DictSet(d, key, n) = New(d.type, d.num, d.str, keys, entries)
    <3> HIDE DEF keys, entries
    <3> QED BY <1>1, <2>1, KeysReplaced
  <2>3. d.keys \in Seq(K) /\ key \in K
    <3>1. Range(d.keys) \subseteq K
      OBVIOUS
    <3> HIDE DEF K
    <3>2. d.keys \in Seq(K)
      BY <1>1, <3>1, WiderSeq
    <3> QED BY <3>2 DEF K
  <2> HIDE DEF K
  <2>4. /\ keys \in Seq(K) /\ Len(keys) = Len(d.keys) + 1 /\ Len(d.keys) \in Nat
        /\ DOMAIN keys = 1..(Len(d.keys) + 1) /\ keys[Len(d.keys) + 1] = key
        /\ \A i \in 1..Len(d.keys) : keys[i] = d.keys[i]
    BY <2>3
  <2>5. entries \in Seq(S) /\ Len(entries) = Len(d.entries) + 1
    BY <1>1
  <2>6. /\ Len(d.keys) = Len(d.entries)
        /\ \A i, k \in 1..Len(d.keys) : d.keys[i] = d.keys[k] => i = k
        /\ \A i \in 1..Len(d.keys) : d.keys[i] # key
    <3>1. DOMAIN d.keys = 1..Len(d.keys)
      BY <2>3
    <3> QED BY <1>1, <1>3, <3>1 DEF WellFormed, HasKey, Positions
  <2> HIDE DEF keys, entries
  <2>7. \A i, k \in DOMAIN keys : keys[i] = keys[k] => i = k
    <3>1. \A i \in DOMAIN keys : i \in 1..Len(d.keys) \/ i = Len(d.keys) + 1
      BY <2>4
    <3> QED BY <2>4, <2>6, <3>1
  <2>8. WellFormed(New(d.type, d.num, d.str, keys, entries))
    BY <2>4, <2>5, <2>6, <2>7 DEF WellFormed, New
  <2>9. Trees(S \cup {New(d.type, d.num, d.str, keys, entries)})
    BY <1>1, <2>4, <2>5, <2>8, TreesWith
  <2> QED BY <2>2, <2>9
<1> QED BY <1>2, <1>3

\* The last element takes the place of the deleted one.
LEMMA Swapped ==
    ASSUME NEW S, NEW s \in Seq(S), NEW i \in 1..Len(s)
    PROVE  /\ SwapDelete(s, i) \in Seq(S) /\ Len(SwapDelete(s, i)) = Len(s) - 1
           /\ \A k \in 1..(Len(s) - 1) :
                SwapDelete(s, i)[k] = IF k = i THEN s[Len(s)] ELSE s[k]
<1> DEFINE t == [s EXCEPT ![i] = Last(s)]
           n == Len(s)
<1>1. n \in Nat \ {0} /\ DOMAIN s = 1..n /\ s[n] \in S /\ Last(s) = s[n]
  <2>1. n \in Nat \ {0} /\ DOMAIN s = 1..n
    OBVIOUS
  <2>2. n \in 1..n
    BY <2>1
  <2> QED BY <2>1, <2>2 DEF Last
<1>2. t \in Seq(S) /\ Len(t) = n
  <2>1. Last(s) \in S
    BY <1>1
  <2> QED BY <2>1, ElementReplaced
<1>3. \A k \in 1..n : t[k] = IF k = i THEN s[n] ELSE s[k]
  BY <1>1
<1>4. SwapDelete(s, i) = SubSeq(t, 1, n - 1)
  BY <1>2 DEF SwapDelete, Front
<1> HIDE DEF t, n
<1>5. SubSeq(t, 1, n - 1) = [k \in 1..(n - 1) |-> t[k]]
  BY <1>1, <1>2
<1>6. \A k \in 1..(n - 1) : t[k] \in S /\ k \in 1..n
  BY <1>1, <1>2
<1>7. [k \in 1..(n - 1) |-> t[k]] \in Seq(S) /\ Len([k \in 1..(n - 1) |-> t[k]]) = n - 1
  BY <1>1, <1>6
<1> QED BY <1>3, <1>4, <1>5, <1>6, <1>7 DEF n

\* A deleted key leaves a tree: the entry moved into the hole takes its key along.
LEMMA KeyDeleted ==
    ASSUME NEW S, Trees(S), NEW d \in S, d.type = "dict", NEW key, HasKey(d, key)
    PROVE  Trees(S \cup {Node_DictDel(d, key)})
<1> DEFINE i == obj_find(d, key)
           n == Len(d.keys)
           keys == SwapDelete(d.keys, i)
           entries == SwapDelete(d.entries, i)
<1>1. /\ d = New(d.type, d.num, d.str, d.keys, d.entries) /\ d.type \in Types
      /\ d.keys \in Seq(Range(d.keys)) /\ d.entries \in Seq(S) /\ WellFormed(d)
  BY TreeParts
<1>2. n \in Nat /\ DOMAIN d.keys = 1..n /\ Len(d.entries) = n /\ i \in 1..n
  <2>1. i \in DOMAIN d.keys
    BY <1>1, FirstPosition
  <2> QED BY <1>1, <2>1 DEF WellFormed
<1>3. Node_DictDel(d, key) = New(d.type, d.num, d.str, keys, entries)
  <2>1. Node_DictDel(d, key) = Renewed(d, keys, entries)
    BY DEF Node_DictDel, Renewed
  <2> HIDE DEF keys, entries
  <2> QED BY <1>1, <2>1, KeysReplaced
<1> HIDE DEF i
<1>4. /\ keys \in Seq(Range(d.keys)) /\ Len(keys) = n - 1
      /\ \A k \in 1..(n - 1) : keys[k] = IF k = i THEN d.keys[n] ELSE d.keys[k]
  BY <1>1, <1>2, Swapped
<1>5. entries \in Seq(S) /\ Len(entries) = n - 1
  BY <1>1, <1>2, Swapped
<1> HIDE DEF keys, entries, n
<1>6. \A a, b \in 1..n : d.keys[a] = d.keys[b] => a = b
  BY <1>1, <1>2 DEF WellFormed
<1>7. \A a, b \in 1..(n - 1) : keys[a] = keys[b] => a = b
  <2> SUFFICES ASSUME NEW a \in 1..(n - 1), NEW b \in 1..(n - 1), keys[a] = keys[b] PROVE a = b
    OBVIOUS
  <2>1. a \in 1..n /\ b \in 1..n /\ n \in 1..n /\ a # n /\ b # n
    BY <1>2
  <2> QED BY <1>4, <1>6, <2>1
<1>8. DOMAIN keys = 1..(n - 1)
  BY <1>4
<1>9. WellFormed(New(d.type, d.num, d.str, keys, entries))
  BY <1>4, <1>5, <1>7, <1>8 DEF WellFormed, New
<1>10. Trees(S \cup {New(d.type, d.num, d.str, keys, entries)})
  BY <1>1, <1>4, <1>5, <1>9, TreesWith
<1> QED BY <1>3, <1>10


\* A part of a sequence.
LEMMA Part ==
    ASSUME NEW S, NEW s \in Seq(S), NEW a \in Nat \ {0}, NEW b \in Int, b <= Len(s)
    PROVE  /\ SubSeq(s, a, b) \in Seq(S)
           /\ Len(SubSeq(s, a, b)) = IF a <= b THEN b - a + 1 ELSE 0
<1>1. Len(s) \in Nat /\ \A i \in 1..Len(s) : s[i] \in S
  OBVIOUS
<1>2. CASE a <= b
  <2>1. a \in 1..Len(s) /\ b \in 1..Len(s)
    BY <1>1, <1>2
  <2>2. b - a + 1 \in Nat /\ \A i \in 1..(b - a + 1) : a + i - 1 \in 1..Len(s)
    BY <1>1, <1>2
  <2>3. SubSeq(s, a, b) = [i \in 1..(b - a + 1) |-> s[a + i - 1]]
    BY <1>1, <2>1
  <2>4. [i \in 1..(b - a + 1) |-> s[a + i - 1]] \in Seq(S)
    BY <1>1, <2>2
  <2> QED BY <1>2, <2>2, <2>3, <2>4
<1>3. CASE ~(a <= b)
  <2>1. SubSeq(s, a, b) = <<>>
    BY <1>1, <1>3
  <2>2. <<>> \in Seq(S) /\ Len(<<>>) = 0
    OBVIOUS
  <2> QED BY <1>3, <2>1, <2>2
<1> QED BY <1>2, <1>3

\* What is left of a sequence without a range, when the arithmetic of the
\* deletion stays within it.
LEMMA RangeDeleted ==
    ASSUME NEW S, NEW s \in Seq(S), NEW index \in Int, NEW count \in Int,
           DelRangeSafe(Len(s), index, count)
    PROVE  Node_ArrayDelRange(s, index, count) \in Seq(S)
<1> DEFINE len == Len(s)
           start == IF index < 0 THEN len + index ELSE IF index < len THEN index ELSE len - 1
           stop == IF start + count < len THEN start + count ELSE len
<1>1. len \in Nat
  OBVIOUS
<1>2. CASE count <= 0 \/ len = 0
  BY <1>2 DEF Node_ArrayDelRange
<1>3. CASE ~(count <= 0 \/ len = 0)
  <2>1. start \in Int /\ start <= len /\ 0 <= start
    BY <1>1, <1>3 DEF DelRangeSafe
  <2>2. stop + 1 \in Nat \ {0}
    BY <1>1, <1>3, <2>1
  <2>3. Node_ArrayDelRange(s, index, count) = SubSeq(s, 1, start) \o SubSeq(s, stop + 1, len)
    BY <1>3 DEF Node_ArrayDelRange
  <2> HIDE DEF start, stop
  <2>4. SubSeq(s, 1, start) \in Seq(S) /\ SubSeq(s, stop + 1, len) \in Seq(S)
    BY <1>1, <2>1, <2>2, Part
  <2> QED BY <2>3, <2>4
<1> QED BY <1>2, <1>3

\* What is left without the first elements.
LEMMA FirstDeleted ==
    ASSUME NEW S, NEW s \in Seq(S), NEW count \in 0..Len(s)
    PROVE  /\ Node_ArrayDelRange(s, 0, count) \in Seq(S)
           /\ Len(Node_ArrayDelRange(s, 0, count)) = Len(s) - count
<1>1. Len(s) \in Nat
  OBVIOUS
<1>2. Node_ArrayDelRange(s, 0, count) \in Seq(S)
  <2>1. DelRangeSafe(Len(s), 0, count)
    BY <1>1 DEF DelRangeSafe
  <2> QED BY <1>1, <2>1, RangeDeleted
<1>3. CASE count = 0
  BY <1>3 DEF Node_ArrayDelRange
<1>4. CASE count > 0
  <2>1. Node_ArrayDelRange(s, 0, count) = SubSeq(s, 1, 0) \o SubSeq(s, count + 1, Len(s))
    <3> DEFINE start(i) == IF i < 0 THEN Len(s) + i ELSE IF i < Len(s) THEN i ELSE Len(s) - 1
               stop(i) == IF start(i) + count < Len(s) THEN start(i) + count ELSE Len(s)
    <3>1. ~(count <= 0 \/ Len(s) = 0)
      BY <1>1, <1>4
    <3>2. ASSUME NEW i
          PROVE  Node_ArrayDelRange(s, i, count) =
                    SubSeq(s, 1, start(i)) \o SubSeq(s, stop(i) + 1, Len(s))
      BY <3>1 DEF Node_ArrayDelRange
    <3>3. start(0) = 0 /\ stop(0) = count
      BY <1>1, <1>4
    <3> HIDE DEF start, stop
    <3> QED BY <3>2, <3>3
  <2>2. SubSeq(s, 1, 0) \in Seq(S) /\ Len(SubSeq(s, 1, 0)) = 0
    BY <1>1, Part
  <2>3. /\ SubSeq(s, count + 1, Len(s)) \in Seq(S)
        /\ Len(SubSeq(s, count + 1, Len(s))) = Len(s) - count
    <3>1. count + 1 \in Nat \ {0} /\ Len(s) \in Int /\ Len(s) <= Len(s)
      BY <1>1
    <3>2. /\ SubSeq(s, count + 1, Len(s)) \in Seq(S)
          /\ Len(SubSeq(s, count + 1, Len(s))) =
                IF count + 1 <= Len(s) THEN Len(s) - (count + 1) + 1 ELSE 0
      BY <3>1, Part
    <3> QED BY <1>1, <3>2
  <2>4. ASSUME NEW a \in Seq(S), NEW b \in Seq(S), Len(a) = 0 PROVE Len(a \o b) = Len(b)
    BY <2>4
  <2> QED BY <1>2, <2>1, <2>2, <2>3, <2>4
<1> QED BY <1>1, <1>2, <1>3, <1>4

\* What an insertion leaves.
LEMMA Inserted ==
    ASSUME NEW S, NEW s \in Seq(S), NEW index \in Int, NEW sub \in Seq(S)
    PROVE  Node_ArrayInsert(s, index, sub) \in Seq(S)
<1> DEFINE fromEnd == FromEnd(Len(s), index)
           low == IF fromEnd < 0 THEN 0 ELSE fromEnd
           at == IF low > Len(s) THEN Len(s) ELSE low
<1>1. Len(s) \in Nat
  OBVIOUS
<1>2. at \in 0..Len(s)
  BY <1>1 DEF FromEnd
<1>3. Node_ArrayInsert(s, index, sub) = SubSeq(s, 1, at) \o sub \o SubSeq(s, at + 1, Len(s))
  BY DEF Node_ArrayInsert
<1> HIDE DEF at
<1>4. at + 1 \in Nat \ {0} /\ at \in Int /\ at <= Len(s)
  BY <1>1, <1>2
<1>5. SubSeq(s, 1, at) \in Seq(S) /\ SubSeq(s, at + 1, Len(s)) \in Seq(S)
  BY <1>1, <1>4, Part
<1> QED BY <1>3, <1>5


-----------------------------------------------------------------------------
(* What the commands make of a tree.                                       *)

\* A trail through the nodes of a set goes through those of a larger one, and
\* so does its beginning.
LEMMA PassesPart ==
    ASSUME NEW S, NEW T, S \subseteq T, NEW trail, Passes(trail, S)
    PROVE  /\ Passes(trail, T)
           /\ \A k \in Int : k <= Len(trail) => Passes(SubSeq(trail, 1, k), T)
<1>1. PICK R : trail \in Seq(R) /\ \A t \in R : t.node \in S
  BY DEF Passes
<1>2. ASSUME NEW k \in Int, k <= Len(trail) PROVE SubSeq(trail, 1, k) \in Seq(R)
  BY <1>1, <1>2, Part
<1> QED BY <1>1, <1>2 DEF Passes

\* A node that joins the set, and the documents with it at the end of a trail.
LEMMA GrownParts ==
    ASSUME NEW S, NEW n, Trees(S)
    PROVE  /\ n \in S => Grown(S, n)
           /\ Trees(S \cup {n}) => Grown(S, n)
<1>1. S \subseteq S \cup {n} /\ n \in S \cup {n}
  OBVIOUS
<1> QED BY <1>1 DEF Grown

\* A document rebuilt along a trail with a grown node at its end is grown.
LEMMA GrownReplaced ==
    ASSUME NEW S, NEW n, Grown(S, n), NEW trail, Passes(trail, S)
    PROVE  Grown(S, Replaced(trail, n))
<1>1. PICK T : S \subseteq T /\ Trees(T) /\ n \in T
  BY DEF Grown
<1>2. Grown(T, Replaced(trail, n))
  BY <1>1, PassesPart, ReplacedTree
<1> QED BY <1>1, <1>2 DEF Grown

\* The two ways to change a document below its root.
LEMMA GrownWith ==
    ASSUME NEW S, Trees(S), NEW j, Leads(j, S), NEW n, Grown(S, n)
    PROVE  /\ Grown(S, WithNode(j, n))
           /\ j.err = "OK" \/ (j.err = "NOKEY" /\ j.errlevel = Len(j.nodes) - 1)
                => Grown(S, WithParent(j, n))
<1>1. Passes(j.trail, S) /\ j.nodes \in Seq(PathNodes)
  BY DEF Leads, Inside
<1>2. Grown(S, WithNode(j, n))
  BY <1>1, GrownReplaced DEF WithNode
<1>3. ASSUME j.err = "OK" \/ (j.err = "NOKEY" /\ j.errlevel = Len(j.nodes) - 1)
      PROVE  Grown(S, WithParent(j, n))
  <2>1. Len(j.nodes) - 1 <= Len(j.trail) /\ Len(j.nodes) - 1 \in Int
    BY <1>1, <1>3 DEF Leads, Passed
  <2>2. Passes(SubSeq(j.trail, 1, Len(j.nodes) - 1), S)
    BY <1>1, <2>1, PassesPart
  <2> QED BY <2>2, GrownReplaced DEF WithParent
<1> QED BY <1>2, <1>3

\* The root of the document that an outcome leaves.
LEMMA RootOf ==
    /\ \A n : Json(n).root = n
    /\ \A doc, clear, replicate, replies, crash :
        /\ Outcome(doc, clear, replicate, replies, crash).doc = doc
        /\ Outcome(doc, clear, replicate, replies, crash).crash = crash
    /\ \A doc, reply : Answer(doc, reply).doc = doc /\ Answer(doc, reply).crash = FALSE
    /\ \A doc : Refuse(doc).doc = doc /\ Refuse(doc).crash = FALSE /\ Crash(doc).doc = doc
    /\ \A n, reply : Changed(n, reply).doc.root = n /\ Changed(n, reply).crash = FALSE
  BY DEF Json, Outcome, Answer, Refuse, Crash, Changed

\* Replacing the value in its container.
LEMMA SetInContainerGrows ==
    ASSUME NEW S, Trees(S), NEW j, Leads(j, S), j.err = "OK", NEW n \in S,
           NEW doc, doc.root \in S, NEW reply
    PROVE  LET out == SetInContainer(doc, j, n, reply)
           IN  /\ Grown(S, out.doc.root)
               /\ j.isRoot \/ j.nodes # <<>> => ~out.crash
<1> DEFINE out == SetInContainer(doc, j, n, reply)
           i == FromEnd(Len(j.p.entries), LastIndex(j))
<1>1. j.p \in S
  BY DEF Leads, Inside
<1>2. CASE j.isRoot
  <2>1. j.p.type = "null"
    BY <1>2 DEF Leads, Parentless, NullNode, New
  <2>2. out = Outcome(Json(n), "document", TRUE, <<reply>>, FALSE)
    BY <1>2, <2>1 DEF SetInContainer
  <2> HIDE DEF out
  <2>3. out.doc.root = n /\ out.crash = FALSE
    BY <2>2 DEF Outcome, Json
  <2>4. Grown(S, n)
    BY GrownParts
  <2> QED BY <2>3, <2>4 DEF out
<1>3. CASE ~j.isRoot /\ j.p.type = "dict"
  <2> DEFINE m == Node_DictSet(j.p, LastKey(j), n)
  <2>1. out = Changed(WithParent(j, m), reply)
    BY <1>3 DEF SetInContainer
  <2>2. Grown(S, m)
    BY <1>1, <1>3, KeySet, GrownParts
  <2> HIDE DEF m
  <2>3. Grown(S, WithParent(j, m))
    BY <2>2, GrownWith
  <2> QED BY <2>1, <2>3, RootOf
<1>4. CASE ~j.isRoot /\ j.p.type = "array"
  <2> DEFINE m == [j.p EXCEPT !.entries[i + 1] = n]
  <2>1. out = Changed(WithParent(j, m), reply)
    BY <1>4 DEF SetInContainer
  <2>2. Grown(S, m)
    BY <1>1, ChildReplaced, GrownParts
  <2> HIDE DEF m
  <2>3. Grown(S, WithParent(j, m))
    BY <2>2, GrownWith
  <2> QED BY <2>1, <2>3, RootOf
<1>5. CASE ~j.isRoot /\ j.p.type \notin {"dict", "array"}
  <2>1. out = Crash(doc)
    BY <1>5 DEF SetInContainer
  <2>2. j.nodes = <<>>
    <3> SUFFICES ASSUME j.nodes # <<>> PROVE FALSE
      OBVIOUS
    <3>1. pathNode_eval(Last(j.nodes), j.p).err = "OK"
      BY <1>5 DEF Leads, AtLast
    <3>2. Last(j.nodes) \in PathNodes
      BY DEF Leads, Inside, Last
    <3> QED BY <1>1, <1>5, <3>1, <3>2, EvalOk
  <2> QED BY <1>5, <2>1, <2>2, RootOf, GrownParts
<1>6. Grown(S, out.doc.root) /\ (j.isRoot \/ j.nodes # <<>> => ~out.crash)
  BY <1>2, <1>3, <1>4, <1>5
<1> QED BY <1>6


\* A key that is not found was looked for in a dictionary.
LEMMA EvalNoKey ==
    ASSUME NEW pn, NEW n, pathNode_eval(pn, n).err = "NOKEY"
    PROVE  n.type = "dict"
<1>1. CASE n.type = "array" /\ pn.type = "index"
  BY <1>1 DEF pathNode_eval
<1>2. CASE ~(n.type = "array" /\ pn.type = "index") /\ ~(n.type = "dict" /\ pn.type = "key")
  BY <1>2 DEF pathNode_eval
<1> QED BY <1>1, <1>2

\* A path that names something.
Named(j) == j.isRoot \/ j.nodes # <<>>

\* What a command makes of the document: a tree, and without undefined
\* behaviour when the path names something.
Sound(out, S, j) == Grown(S, out.doc.root) /\ (Named(j) => ~out.crash)

\* The outcomes that leave the document.
LEMMA SoundParts ==
    ASSUME NEW S, Trees(S), NEW j, NEW doc, doc.root \in S
    PROVE  /\ Sound(Refuse(doc), S, j)
           /\ \A reply : Sound(Answer(doc, reply), S, j)
           /\ \A n, reply : Grown(S, n) => Sound(Changed(n, reply), S, j)
<1>1. Grown(S, doc.root)
  BY GrownParts
<1>2. Sound(Refuse(doc), S, j)
  BY <1>1, RootOf DEF Sound
<1>3. ASSUME NEW reply PROVE Sound(Answer(doc, reply), S, j)
  BY <1>1, RootOf DEF Sound
<1>4. ASSUME NEW n, NEW reply, Grown(S, n) PROVE Sound(Changed(n, reply), S, j)
  BY <1>4, RootOf DEF Sound
<1> QED BY <1>2, <1>3, <1>4

\* JSON.SET leaves a tree and reaches no node that is not there.
LEMMA SetSound ==
    ASSUME NEW S, Trees(S), NEW j, Leads(j, S), NEW doc, doc.root \in S,
           NEW r, r.jsons[1] \in S
    PROVE  Sound(JSONSet(doc, j, r), S, j)
<1> DEFINE n == r.jsons[1]
<1>1. Sound(Refuse(doc), S, j) /\ \A reply : Sound(Answer(doc, reply), S, j)
  BY SoundParts
<1>2. Sound(SetOnNewKey(doc, j, n), S, j)
  <2> DEFINE out == Outcome(Json(n), "document", TRUE, <<OK>>, FALSE)
  <2>1. out.doc.root = n /\ out.crash = FALSE
    BY DEF Outcome, Json
  <2>2. Grown(S, n)
    BY GrownParts
  <2> HIDE DEF out
  <2>3. Sound(out, S, j)
    BY <2>1, <2>2 DEF Sound
  <2> QED BY <1>1, <2>3 DEF SetOnNewKey, out
<1>3. Sound(SetOnExisting(doc, j, n, r.flag), S, j)
  <2> HIDE DEF n
  <2>1. ASSUME j.err = "OK" PROVE Sound(SetInContainer(doc, j, n, OK), S, j)
    BY <2>1, SetInContainerGrows DEF Sound, Named, n
  <2>2. ASSUME j.err = "NOKEY", j.errlevel = Len(j.nodes) - 1
        PROVE  Sound(Changed(WithParent(j, Node_DictSet(j.p, LastKey(j), n)), OK), S, j)
    <3> DEFINE m == Node_DictSet(j.p, LastKey(j), n)
    <3>1. pathNode_eval(Last(j.nodes), j.p).err = "NOKEY"
      BY <2>2 DEF Leads, AtLast, Parentless
    <3>2. j.p \in S /\ j.p.type = "dict"
      BY <3>1, EvalNoKey DEF Leads, Inside
    <3>3. Grown(S, m)
      BY <3>2, KeySet, GrownParts DEF n
    <3> HIDE DEF m
    <3>4. Grown(S, WithParent(j, m))
      BY <2>2, <3>3, GrownWith
    <3> QED BY <3>4, SoundParts DEF m
  <2>3. CASE j.err \notin {"OK", "NOKEY"}
    BY <1>1, <2>3 DEF SetOnExisting
  <2>4. CASE j.err = "OK"
    BY <1>1, <2>1, <2>4 DEF SetOnExisting
  <2>5. CASE j.err = "NOKEY"
    BY <1>1, <2>2, <2>5 DEF SetOnExisting
  <2> QED BY <2>3, <2>4, <2>5
<1> QED BY <1>1, <1>2, <1>3 DEF JSONSet

\* So does JSON.DEL,
LEMMA DelSound ==
    ASSUME NEW S, Trees(S), NullNode \in S, NEW j, Leads(j, S),
           NEW doc, doc.root \in S, doc.type \in DocTypes, NEW r
    PROVE  Sound(JSONDel(doc, j, r), S, j)
<1> DEFINE count == LongLong(Len(r.paths))
           index == LastIndex(j)
<1>1. /\ Sound(Refuse(doc), S, j) /\ \A reply : Sound(Answer(doc, reply), S, j)
      /\ \A n, reply : Grown(S, n) => Sound(Changed(n, reply), S, j)
  BY SoundParts
<1>2. /\ j.p \in S /\ j.err \in Errors /\ j.nodes \in Seq(PathNodes)
  BY DEF Leads, Inside
<1>3. CASE doc.type # "json"
  BY <1>1, <1>3 DEF JSONDel, DocTypes
<1>4. CASE doc.type = "json" /\ (~j.ok \/ j.err = "BADTYPE")
  BY <1>1, <1>4 DEF JSONDel
<1>5. CASE doc.type = "json" /\ j.ok /\ j.err \in {"NOINDEX", "NOKEY"}
  <2> DEFINE out == Outcome(doc, "nothing", TRUE, <<LongLong(0)>>, FALSE)
  <2>1. out.doc = doc /\ out.crash = FALSE
    BY DEF Outcome
  <2>2. Grown(S, doc.root)
    BY GrownParts
  <2>3. Sound(out, S, j)
    BY <2>1, <2>2 DEF Sound
  <2> HIDE DEF out
  <2>4. JSONDel(doc, j, r) = out
    BY <1>5 DEF JSONDel, out
  <2> QED BY <2>3, <2>4
<1>6. CASE doc.type = "json" /\ j.ok /\ j.err = "OK"
  <2>1. CASE j.isRoot
    <3> DEFINE out == Outcome(Empty, "document", TRUE, <<count>>, FALSE)
    <3>1. j.p.type = "null"
      BY <2>1 DEF Leads, Parentless, NullNode, New
    <3>2. JSONDel(doc, j, r) = out
      BY <1>6, <2>1, <3>1 DEF JSONDel
    <3>3. out.doc.root = NullNode /\ out.crash = FALSE
      BY DEF Outcome, Empty
    <3>4. Grown(S, NullNode)
      BY GrownParts
    <3> HIDE DEF out
    <3> QED BY <3>2, <3>3, <3>4 DEF Sound
  <2>2. ASSUME ~j.isRoot, j.nodes # <<>>
        PROVE  /\ Last(j.nodes) \in PathNodes /\ pathNode_eval(Last(j.nodes), j.p).err = "OK"
               /\ j.p.type = "dict" => HasKey(j.p, LastKey(j))
               /\ j.p.type = "array" =>
                    FromEnd(Len(j.p.entries), index) \in 0 .. (Len(j.p.entries) - 1)
               /\ j.p.type \in {"dict", "array"}
    <3>1. Last(j.nodes) \in PathNodes
      BY <1>2, <2>2 DEF Last
    <3>2. pathNode_eval(Last(j.nodes), j.p).err = "OK"
      BY <1>6, <2>2 DEF Leads, AtLast
    <3> QED BY <1>2, <3>1, <3>2, EvalOk DEF LastKey, LastIndex
  <2>3. ASSUME j.nodes = <<>> PROVE j.p.type = "null"
    BY <2>3 DEF Leads, Parentless, NullNode, New
  <2>4. CASE ~j.isRoot /\ j.p.type = "dict"
    <3> DEFINE m == Node_DictDel(j.p, LastKey(j))
    <3>1. Grown(S, m)
      BY <1>2, <2>2, <2>3, <2>4, KeyDeleted, GrownParts
    <3>2. JSONDel(doc, j, r) = Changed(WithParent(j, m), count)
      BY <1>6, <2>4 DEF JSONDel
    <3> HIDE DEF m, count
    <3>3. Grown(S, WithParent(j, m))
      BY <1>6, <3>1, GrownWith
    <3> QED BY <1>1, <3>2, <3>3
  <2>5. CASE ~j.isRoot /\ j.p.type = "array"
    <3> DEFINE m == [j.p EXCEPT !.entries = Node_ArrayDelRange(@, index, 1)]
               items == Node_ArrayDelRange(j.p.entries, index, 1)
    <3>1. FromEnd(Len(j.p.entries), index) \in 0 .. (Len(j.p.entries) - 1) /\ index \in Int
      <4>1. Last(j.nodes).index \in Int
        BY <2>2, <2>3, <2>5 DEF PathNodes
      <4> QED BY <2>2, <2>3, <2>5, <4>1 DEF LastIndex
    <3>2. j.p.entries \in Seq(S) /\ Len(j.p.entries) \in Nat
      <4>1. j.p.entries \in Seq(S)
        BY <1>2, TreeParts
      <4> QED BY <4>1
    <3>3. DelRangeSafe(Len(j.p.entries), index, 1)
      BY <3>1, <3>2 DEF DelRangeSafe, FromEnd
    <3>4. JSONDel(doc, j, r) = Changed(WithParent(j, m), count)
      BY <1>6, <2>5, <3>3 DEF JSONDel
    <3>5. items \in Seq(S)
      BY <3>1, <3>2, <3>3, RangeDeleted
    <3>6. Trees(S \cup {m})
      <4>1. /\ j.p = New(j.p.type, j.p.num, j.p.str, j.p.keys, j.p.entries) /\ j.p.type \in Types
            /\ j.p.keys \in Seq(Range(j.p.keys)) /\ WellFormed(j.p)
        BY <1>2, TreeParts
      <4>2. m = [j.p EXCEPT !.entries = items]
        OBVIOUS
      <4> HIDE DEF m, items
      <4>3. m = New(j.p.type, j.p.num, j.p.str, j.p.keys, items)
        BY <4>1, <4>2, EntriesReplaced
      <4>4. WellFormed(New(j.p.type, j.p.num, j.p.str, j.p.keys, items))
        BY <2>5, <4>1 DEF WellFormed, New
      <4>5. Trees(S \cup {New(j.p.type, j.p.num, j.p.str, j.p.keys, items)})
        BY <3>5, <4>1, <4>4, TreesWith
      <4> QED BY <4>3, <4>5
    <3> HIDE DEF m, count
    <3>7. Grown(S, WithParent(j, m))
      BY <1>6, <3>6, GrownParts, GrownWith
    <3> QED BY <1>1, <3>4, <3>7
  <2>6. CASE ~j.isRoot /\ j.p.type \notin {"dict", "array"}
    <3>1. JSONDel(doc, j, r) = Crash(doc)
      BY <1>6, <2>6 DEF JSONDel
    <3>2. ~Named(j)
      BY <2>2, <2>6 DEF Named
    <3>3. Grown(S, doc.root)
      BY GrownParts
    <3> QED BY <3>1, <3>2, <3>3, RootOf DEF Sound
  <2> QED BY <2>1, <2>4, <2>5, <2>6
<1> QED BY <1>2, <1>3, <1>4, <1>5, <1>6 DEF Errors


\* JSON.NUMINCRBY and JSON.NUMMULTBY,
LEMMA NumSound ==
    ASSUME NEW S, Trees(S), NEW j, Leads(j, S), NEW doc, doc.root \in S, NEW r
    PROVE  Sound(JSONNum(doc, j, r), S, j)
<1> DEFINE n == NumResult(j.n, r.jsons[1], r.cmd = "JSON.NUMMULTBY")
<1>1. Sound(Refuse(doc), S, j)
  BY SoundParts
<1>2. ASSUME j.err = "OK" PROVE Sound(SetInContainer(doc, j, n, Bulk(TextOf(n))), S, j)
  <2>1. PICK T : T = S \cup {n}
    OBVIOUS
  <2>2. Trees(T) /\ S \subseteq T /\ n \in T
    BY <2>1, ScalarTrees DEF NumResult
  <2> HIDE DEF n
  <2>3. Leads(j, T)
    <3>1. Passes(j.trail, T)
      BY <2>2, PassesPart DEF Leads, Inside
    <3> QED BY <2>2, <3>1 DEF Leads, Inside
  <2>4. doc.root \in T
    BY <2>2
  <2>5. Sound(SetInContainer(doc, j, n, Bulk(TextOf(n))), T, j)
    BY <1>2, <2>2, <2>3, <2>4, SetInContainerGrows DEF Sound, Named
  <2> QED BY <2>2, <2>5 DEF Sound, Grown
<1> HIDE DEF n
<1>3. j.err # "OK" => ~Resolves(doc, j)
  BY DEF Resolves
<1> QED BY <1>1, <1>2, <1>3 DEF JSONNum, n

\* JSON.STRAPPEND, unless it is given a null value,
LEMMA StrAppendSound ==
    ASSUME NEW S, Trees(S), NEW j, Leads(j, S), NEW doc, doc.root \in S, NEW r
    PROVE  LET out == JSONStrAppend(doc, j, r)
           IN  /\ Grown(S, out.doc.root)
               /\ r.jsons[1].type # "null" => ~out.crash
<1> DEFINE n == r.jsons[1]
           str == j.n.str \o BytesOf(n)
           replies == Append(IF n.type = "string" THEN <<>> ELSE <<Error>>, LongLong(Len(str)))
           new == Outcome(Json(WithNode(j, NewStringNode(str))), "nothing", TRUE, replies, FALSE)
           Good(out) == Grown(S, out.doc.root) /\ (n.type # "null" => ~out.crash)
<1>1. Grown(S, doc.root)
  BY GrownParts
<1>2. Good(Refuse(doc))
  BY <1>1, RootOf
<1>3. n.type = "null" => Good(Crash(doc))
  BY <1>1, RootOf
<1>4. Good(new)
  <2>1. Grown(S, NewStringNode(str))
    BY ScalarTrees, GrownParts
  <2> HIDE DEF str, replies
  <2>2. Grown(S, WithNode(j, NewStringNode(str)))
    BY <2>1, GrownWith
  <2>3. new.doc.root = WithNode(j, NewStringNode(str)) /\ new.crash = FALSE
    BY DEF Outcome, Json
  <2> QED BY <2>2, <2>3
<1>5. JSONStrAppend(doc, j, r) =
        IF ~Resolves(doc, j) \/ j.n.type # "string" \/ n.type = "invalid" THEN Refuse(doc)
        ELSE IF n.type = "null" THEN Crash(doc) ELSE new
  BY DEF JSONStrAppend
<1> HIDE DEF Good, new
<1>6. Good(JSONStrAppend(doc, j, r))
  BY <1>2, <1>3, <1>4, <1>5
<1> QED BY <1>6 DEF Good

\* An array of trees in the place of a node.
LEMMA ArraySet ==
    ASSUME NEW S, Trees(S), NEW j, Leads(j, S), NEW items \in Seq(S)
    PROVE  Grown(S, WithNode(j, NewArrayNode(items)))
<1>1. Grown(S, NewArrayNode(items))
  BY ArrayTrees, GrownParts
<1> QED BY <1>1, GrownWith

\* JSON.ARRINSERT and JSON.ARRAPPEND,
LEMMA InsertSound ==
    ASSUME NEW S, Trees(S), NEW j, Leads(j, S), NEW doc, doc.root \in S,
           NEW r, r.jsons \in Seq(S), r.start \in Int
    PROVE  Sound(JSONArrInsert(doc, j, r), S, j) /\ Sound(JSONArrAppend(doc, j, r), S, j)
<1>1. Sound(Refuse(doc), S, j) /\ \A n, reply : Grown(S, n) => Sound(Changed(n, reply), S, j)
  BY SoundParts
<1>2. j.n.entries \in Seq(S) /\ Len(j.n.entries) \in Nat
  <2>1. j.n.entries \in Seq(S)
    BY TreeParts DEF Leads, Inside
  <2> QED BY <2>1
<1>3. Sound(JSONArrInsert(doc, j, r), S, j)
  <2> DEFINE index == FromEnd(Len(j.n.entries), r.start)
             items == Node_ArrayInsert(j.n.entries, index, r.jsons)
  <2>1. index \in Int
    BY <1>2 DEF FromEnd
  <2>2. items \in Seq(S)
    BY <1>2, <2>1, Inserted
  <2> HIDE DEF items
  <2>3. Grown(S, WithNode(j, NewArrayNode(items)))
    BY <2>2, ArraySet
  <2> QED BY <1>1, <2>3 DEF JSONArrInsert, items
<1>4. Sound(JSONArrAppend(doc, j, r), S, j)
  <2> DEFINE items == Node_ArrayInsert(j.n.entries, Len(j.n.entries), r.jsons)
  <2>1. items \in Seq(S)
    BY <1>2, Inserted
  <2> HIDE DEF items
  <2>2. Grown(S, WithNode(j, NewArrayNode(items)))
    BY <2>1, ArraySet
  <2> QED BY <1>1, <2>2 DEF JSONArrAppend, items
<1> QED BY <1>3, <1>4

\* JSON.ARRPOP,
LEMMA PopSound ==
    ASSUME NEW S, Trees(S), NEW j, Leads(j, S), NEW doc, doc.root \in S, NEW r, r.start \in Int
    PROVE  Sound(JSONArrPop(doc, j, r), S, j)
<1> DEFINE len == Len(j.n.entries)
           low == IF FromEnd(len, r.start) < 0 THEN 0 ELSE FromEnd(len, r.start)
           index == PopIndex(len, r.start)
           items == Node_ArrayDelRange(j.n.entries, index, 1)
           reply == Bulk(TextOf(Node_ArrayItem(j.n.entries, index)))
           none == Outcome(doc, "nothing", TRUE, <<Null>>, FALSE)
           popped == Outcome(Json(WithNode(j, NewArrayNode(items))), "nothing", TRUE, <<reply>>, FALSE)
<1>1. j.n.entries \in Seq(S) /\ len \in Nat
  <2>1. j.n.entries \in Seq(S)
    BY TreeParts DEF Leads, Inside
  <2> QED BY <2>1
<1>2. Sound(Refuse(doc), S, j)
  BY SoundParts
<1>3. Sound(none, S, j)
  <2>1. none.doc = doc /\ none.crash = FALSE
    BY DEF Outcome
  <2>2. Grown(S, doc.root)
    BY GrownParts
  <2> HIDE DEF none
  <2> QED BY <2>1, <2>2 DEF Sound
<1>4. ASSUME len # 0 PROVE DelRangeSafe(len, index, 1) /\ Sound(popped, S, j)
  <2>1. low \in Nat
    BY <1>1 DEF FromEnd
  <2>2. index \in 0 .. (len - 1)
    <3>1. index = IF low >= len THEN len - 1 ELSE low
      BY DEF PopIndex
    <3> HIDE DEF low, index
    <3> QED BY <1>1, <1>4, <2>1, <3>1
  <2>3. index \in Int /\ DelRangeSafe(len, index, 1)
    <3> HIDE DEF index, len
    <3> QED BY <1>1, <2>2 DEF DelRangeSafe
  <2>4. items \in Seq(S)
    BY <1>1, <2>3, RangeDeleted
  <2> HIDE DEF items, reply
  <2>5. Grown(S, WithNode(j, NewArrayNode(items)))
    BY <2>4, ArraySet
  <2>6. popped.doc.root = WithNode(j, NewArrayNode(items)) /\ popped.crash = FALSE
    BY DEF Outcome, Json
  <2> HIDE DEF popped
  <2> QED BY <2>3, <2>5, <2>6 DEF Sound
<1>5. JSONArrPop(doc, j, r) =
        IF ~Resolves(doc, j) \/ j.n.type # "array" THEN Refuse(doc)
        ELSE IF len = 0 THEN none
        ELSE IF ~DelRangeSafe(len, index, 1) THEN Crash(doc) ELSE popped
  BY DEF JSONArrPop
<1> HIDE DEF none, popped, index, len
<1> QED BY <1>2, <1>3, <1>4, <1>5

\* and JSON.ARRTRIM.
LEMMA TrimSound ==
    ASSUME NEW S, Trees(S), NEW j, Leads(j, S), NEW doc, doc.root \in S, NEW r,
           r.start \in Int, r.stop \in Int
    PROVE  Sound(JSONArrTrim(doc, j, r), S, j)
<1> DEFINE len == Len(j.n.entries)
           start == IF FromEnd(len, r.start) < 0 THEN 0 ELSE FromEnd(len, r.start)
           stop == FromEnd(len, r.stop)
           none == start > stop \/ start >= len
           left == IF none THEN len ELSE start
           right == IF none THEN 0 ELSE len - (IF stop >= len THEN len - 1 ELSE stop) - 1
           cut == Node_ArrayDelRange(j.n.entries, 0, left)
           items == Node_ArrayDelRange(cut, -right, right)
<1>1. j.n.entries \in Seq(S) /\ len \in Nat
  <2>1. j.n.entries \in Seq(S)
    BY TreeParts DEF Leads, Inside
  <2> QED BY <2>1
<1>2. start \in Nat /\ stop \in Int
  BY <1>1 DEF FromEnd
<1> HIDE DEF start, stop, len
<1>3. left \in 0..len /\ right \in 0 .. (len - left)
  <2>1. CASE none
    BY <1>1, <1>2, <2>1
  <2>2. CASE ~none
    <3>1. start <= stop /\ start < len /\ left = start
      BY <1>1, <1>2, <2>2
    <3>2. CASE stop >= len
      BY <1>1, <1>2, <2>2, <3>1, <3>2
    <3>3. CASE ~(stop >= len)
      <4>1. right = len - stop - 1
        BY <2>2, <3>3
      <4> QED BY <1>1, <1>2, <3>1, <3>3, <4>1
    <3> QED BY <3>2, <3>3
  <2> QED BY <2>1, <2>2
<1> HIDE DEF left, right
<1>4. cut \in Seq(S) /\ Len(cut) = len - left
  BY <1>1, <1>3, FirstDeleted DEF len
<1> HIDE DEF cut
<1>5. -right \in Int /\ right \in Int /\ DelRangeSafe(Len(cut), -right, right)
  BY <1>1, <1>3, <1>4 DEF DelRangeSafe
<1>6. items \in Seq(S)
  BY <1>4, <1>5, RangeDeleted
<1> HIDE DEF items
<1>7. Grown(S, WithNode(j, NewArrayNode(items)))
  BY <1>6, ArraySet
<1>8. Sound(Refuse(doc), S, j) /\ \A n, reply : Grown(S, n) => Sound(Changed(n, reply), S, j)
  BY SoundParts
<1>9. JSONArrTrim(doc, j, r) =
        IF ~Resolves(doc, j) \/ j.n.type # "array" THEN Refuse(doc)
        ELSE IF ~DelRangeSafe(Len(cut), -right, right) THEN Crash(doc)
        ELSE Changed(WithNode(j, NewArrayNode(items)), LongLong(Len(items)))
  BY DEF JSONArrTrim, len, start, stop, left, right, cut, items
<1> QED BY <1>5, <1>7, <1>8, <1>9


\* A path that is not one is refused.
LEMMA UnparsedRefused ==
    ASSUME NEW doc, doc.type \in DocTypes, NEW j, ~j.ok, NEW r
    PROVE  /\ ~JSONSet(doc, j, r).crash /\ ~JSONDel(doc, j, r).crash /\ ~JSONNum(doc, j, r).crash
           /\ ~JSONArrInsert(doc, j, r).crash /\ ~JSONArrAppend(doc, j, r).crash
           /\ ~JSONArrPop(doc, j, r).crash /\ ~JSONArrTrim(doc, j, r).crash
<1>1. ~Refuse(doc).crash /\ \A reply : ~Answer(doc, reply).crash
  BY RootOf
<1>2. ~Resolves(doc, j)
  BY DEF Resolves
<1>3. ~JSONSet(doc, j, r).crash
  BY <1>1 DEF JSONSet
<1>4. ~JSONNum(doc, j, r).crash /\ ~JSONArrInsert(doc, j, r).crash /\ ~JSONArrAppend(doc, j, r).crash
  BY <1>1, <1>2 DEF JSONNum, JSONArrInsert, JSONArrAppend
<1>5. ~JSONArrPop(doc, j, r).crash /\ ~JSONArrTrim(doc, j, r).crash
  BY <1>1, <1>2 DEF JSONArrPop, JSONArrTrim
<1>6. ~JSONDel(doc, j, r).crash
  <2>1. CASE doc.type = "empty"
    BY <1>1, <2>1 DEF JSONDel
  <2>2. CASE doc.type = "other"
    BY <1>1, <2>2 DEF JSONDel
  <2>3. CASE doc.type = "json"
    BY <1>1, <2>3 DEF JSONDel
  <2> QED BY <2>1, <2>2, <2>3 DEF DocTypes
<1> QED BY <1>3, <1>4, <1>5, <1>6

\* A set of trees that holds what clients send.
Stock(S) == Trees(S) /\ NullNode \in S /\ \A r \in Requests : r.jsons \in Seq(S)

\* Clients name no empty path, and append no null to a string.
NoEmptyPath == <<>> \notin RequestPaths

NoNullAppended == \A r \in Requests : r.cmd = "JSON.STRAPPEND" => r.jsons[1].type # "null"

\* Every command leaves a tree.
LEMMA WriteSound ==
    ASSUME NEW S, Stock(S), NEW r \in Requests, r.cmd \in WriteCommands,
           NEW doc, doc.root \in S, doc.type \in DocTypes
    PROVE  /\ Grown(S, WriteOutcome(doc, r).doc.root)
           /\ NoEmptyPath /\ NoNullAppended => ~WriteOutcome(doc, r).crash
<1> DEFINE path == PathArg(r)
           root == LookedUpIn(doc, r)
           j == NodeFromJSONPath(root, path)
           out == HandlerOutcome(doc, j, r)
           Fine(o) == Grown(S, o.doc.root) /\ (NoEmptyPath /\ NoNullAppended => ~o.crash)
<1>1. Trees(S) /\ NullNode \in S /\ r.jsons \in Seq(S)
  BY DEF Stock
<1>2. r.start \in Int /\ r.stop \in Int
  BY RequestsAssumption
<1>3. r.cmd \in NeedsJson => r.jsons[1] \in S
  <2>1. r.cmd \in NeedsJson => r.jsons # <<>>
    BY RequestsAssumption
  <2> QED BY <1>1, <2>1
<1>4. path \in RequestPaths
  BY RequestParts
<1>5. root \in S
  BY <1>3 DEF LookedUpIn, NeedsJson
<1>6. Leads(j, S)
  <2> HIDE DEF root, path
  <2> QED BY <1>1, <1>4, <1>5, FoundTrees
<1>7. NoEmptyPath /\ j.ok => Named(j)
  <2> HIDE DEF root, path
  <2>1. path # <<>> /\ j.ok => j.nodes # <<>>
    BY <1>4, FoundFields
  <2> QED BY <1>4, <2>1 DEF NoEmptyPath, Named
<1> HIDE DEF j, out
<1>8. ASSUME NEW o, Sound(o, S, j), ~j.ok => ~o.crash PROVE Fine(o)
  BY <1>7, <1>8 DEF Sound
<1> HIDE DEF Fine
<1>9. SUFFICES Fine(out)
  BY DEF Fine, WriteOutcome, j, out
<1> HIDE DEF path, root
<1>10. CASE r.cmd = "JSON.SET"
  <2>1. out = JSONSet(doc, j, r)
    BY <1>10 DEF HandlerOutcome, out
  <2>2. Sound(JSONSet(doc, j, r), S, j)
    BY <1>1, <1>3, <1>6, <1>10, SetSound DEF NeedsJson
  <2> QED BY <1>8, <2>1, <2>2, UnparsedRefused
<1>11. CASE r.cmd = "JSON.DEL"
  <2>1. out = JSONDel(doc, j, r)
    BY <1>11 DEF HandlerOutcome, out
  <2>2. Sound(JSONDel(doc, j, r), S, j)
    BY <1>1, <1>6, DelSound
  <2> QED BY <1>8, <2>1, <2>2, UnparsedRefused
<1>12. CASE r.cmd \in {"JSON.NUMINCRBY", "JSON.NUMMULTBY"}
  <2>1. out = JSONNum(doc, j, r)
    BY <1>12 DEF HandlerOutcome, out
  <2>2. Sound(JSONNum(doc, j, r), S, j)
    BY <1>1, <1>6, NumSound
  <2> QED BY <1>8, <2>1, <2>2, UnparsedRefused
<1>13. CASE r.cmd = "JSON.STRAPPEND"
  <2>1. out = JSONStrAppend(doc, j, r)
    BY <1>13 DEF HandlerOutcome, out
  <2>2. /\ Grown(S, JSONStrAppend(doc, j, r).doc.root)
        /\ r.jsons[1].type # "null" => ~JSONStrAppend(doc, j, r).crash
    BY <1>1, <1>6, StrAppendSound
  <2> QED BY <1>13, <2>1, <2>2 DEF NoNullAppended, Fine
<1>14. CASE r.cmd \in {"JSON.ARRINSERT", "JSON.ARRAPPEND"}
  <2>1. out = JSONArrInsert(doc, j, r) \/ out = JSONArrAppend(doc, j, r)
    BY <1>14 DEF HandlerOutcome, out
  <2>2. Sound(JSONArrInsert(doc, j, r), S, j) /\ Sound(JSONArrAppend(doc, j, r), S, j)
    BY <1>1, <1>2, <1>6, InsertSound
  <2> QED BY <1>8, <2>1, <2>2, UnparsedRefused
<1>15. CASE r.cmd \in {"JSON.ARRPOP", "JSON.ARRTRIM"}
  <2>1. out = JSONArrPop(doc, j, r) \/ out = JSONArrTrim(doc, j, r)
    BY <1>15 DEF HandlerOutcome, out
  <2>2. Sound(JSONArrPop(doc, j, r), S, j) /\ Sound(JSONArrTrim(doc, j, r), S, j)
    BY <1>1, <1>2, <1>6, PopSound, TrimSound
  <2> QED BY <1>8, <2>1, <2>2, UnparsedRefused
<1>16. CASE r.cmd \in {"DEL", "SET"}
  <2>1. out = ServerCommand(r)
    BY <1>16 DEF HandlerOutcome, out
  <2>2. ServerCommand(r).doc.root = NullNode /\ ServerCommand(r).crash = FALSE
    BY DEF ServerCommand, Outcome, Empty, OtherType
  <2>3. Grown(S, NullNode)
    BY <1>1, GrownParts
  <2> QED BY <2>1, <2>2, <2>3 DEF Fine
<1> QED BY <1>10, <1>11, <1>12, <1>13, <1>14, <1>15, <1>16 DEF WriteCommands


-----------------------------------------------------------------------------
(* Documents are trees, and commands run into no undefined behaviour.      *)

\* The documents are in a set of trees.
Grounded ==
    /\ Documents(db)
    /\ \E S : Stock(S) /\ \A k \in Keys : db[k].root \in S

\* The empty documents are grounded in the arguments alone,
LEMMA GroundedAtFirst ==
    ASSUME ArgumentsAreTrees, Init
    PROVE  Grounded
<1>1. PICK S : Trees(S) /\ \A r \in Requests : \A i \in DOMAIN r.jsons : r.jsons[i] \in S
  BY DEF ArgumentsAreTrees
<1> DEFINE T == S \cup {NullNode}
<1>2. Trees(T)
  BY <1>1, ScalarTrees
<1>3. ASSUME NEW r \in Requests PROVE r.jsons \in Seq(T)
  <2>1. r.jsons \in Seq(Range(r.jsons))
    BY RequestsAssumption
  <2>2. Range(r.jsons) \subseteq T
    BY <1>1 DEF Range
  <2> HIDE DEF T
  <2> QED BY <2>1, <2>2, WiderSeq
<1>4. db = [k \in Keys |-> Empty] /\ Empty.root = NullNode
  BY DEF Init, Empty
<1>5. Documents(db)
  BY <1>4, DocTypesOf DEF Documents
<1>6. NullNode \in T
  OBVIOUS
<1> HIDE DEF T
<1> QED BY <1>2, <1>3, <1>4, <1>5, <1>6 DEF Grounded, Stock

\* every step keeps them grounded in a stock that has grown,
LEMMA GroundedKept ==
    ASSUME Grounded, [Next]_vars
    PROVE  /\ Grounded'
           /\ NoEmptyPath /\ NoNullAppended /\ ~crashed => ~crashed'
<1>1. Documents(db) /\ Documents(db')
  BY DocumentsKept DEF Grounded
<1>2. PICK S : Stock(S) /\ \A k \in Keys : db[k].root \in S
  BY DEF Grounded
<1>3. ASSUME NEW r \in Requests, r.cmd \in WriteCommands, Write(r)
      PROVE  /\ \E T : Stock(T) /\ \A k \in Keys : db'[k].root \in T
             /\ NoEmptyPath /\ NoNullAppended => ~crashed'
  <2> DEFINE out == WriteOutcome(db[KeyOf(r)], r)
  <2>1. KeyOf(r) \in Keys
    BY RequestParts
  <2>2. db' = [db EXCEPT ![KeyOf(r)] = out.doc] /\ crashed' = out.crash
    BY <1>3 DEF Write, Commit
  <2>3. Grown(S, out.doc.root) /\ (NoEmptyPath /\ NoNullAppended => ~out.crash)
    BY <1>1, <1>2, <1>3, <2>1, WriteSound DEF Documents
  <2> HIDE DEF out
  <2>4. PICK T : S \subseteq T /\ Trees(T) /\ out.doc.root \in T
    BY <2>3 DEF Grown
  <2>5. Stock(T)
    <3>1. ASSUME NEW q \in Requests PROVE q.jsons \in Seq(T)
      BY <1>2, <2>4, WiderSeq DEF Stock
    <3> QED BY <1>2, <2>4, <3>1 DEF Stock
  <2>6. \A k \in Keys : db'[k].root \in T
    BY <1>1, <1>2, <2>1, <2>2, <2>4 DEF Documents
  <2> QED BY <2>2, <2>3, <2>5, <2>6
<1>4. CASE db' = db /\ crashed' = crashed
  BY <1>1, <1>2, <1>4 DEF Grounded
<1>5. ASSUME NEW r \in Requests, r.cmd \in WriteCommands, Write(r)
      PROVE  Grounded' /\ (NoEmptyPath /\ NoNullAppended => ~crashed')
  BY <1>1, <1>3, <1>5 DEF Grounded, Documents, Stock
<1>6. Quiet \/ (\E r : RewriteAof(r)) \/ ReplicaApply => db' = db /\ crashed' = crashed
  BY DEF Quiet, RewriteAof, ReplicaApply
<1> QED BY <1>4, <1>5, <1>6, Steps

\* and so they are in every reachable state.
LEMMA AlwaysGrounded ==
    ASSUME ArgumentsAreTrees
    PROVE  Spec => []Grounded
<1>1. Init => Grounded
  BY GroundedAtFirst
<1>2. Grounded /\ [Next]_vars => Grounded'
  BY GroundedKept
<1> QED BY <1>1, <1>2, PTL DEF Spec

Descending == INSTANCE Folding WITH op <- Children

\* What is below a node of a set of trees is in the set.
LEMMA LevelInside ==
    ASSUME NEW S, Trees(S), NEW root \in S, NEW depth \in Nat
    PROVE  Level(root, depth) \subseteq S
<1> DEFINE steps == [i \in 1..depth |-> i]
<1>1. DOMAIN steps = 1..depth
  OBVIOUS
<1> HIDE DEF steps
<1>2. PICK t : /\ Descending!Traces({root}, t, steps, depth)
               /\ Descending!FoldLeft(Children, {root}, steps) = t[depth]
  BY <1>1, Descending!FoldLeftTrace
<1>3. Level(root, depth) = t[depth]
  BY <1>2 DEF Level, steps, FoldLeft, Descending!FoldLeft, MapThenFoldSet,
              Descending!MapThenFoldSet, Max, Descending!Max
<1> DEFINE I == {i \in Nat : i \in 0..depth => t[i] \subseteq S}
<1>4. 0 \in I
  BY <1>2 DEF Descending!Traces
<1>5. ASSUME NEW i \in Nat, i \in I PROVE i + 1 \in I
  <2> SUFFICES ASSUME i + 1 \in 0..depth PROVE t[i + 1] \subseteq S
    OBVIOUS
  <2>1. i + 1 \in 1..depth /\ i \in 0..depth /\ (i + 1) - 1 = i
    OBVIOUS
  <2>2. t[i + 1] = Children(t[i], steps[i + 1])
    BY <1>2, <2>1 DEF Descending!Traces
  <2>3. \A n \in t[i] : Range(n.entries) \subseteq S
    <3>1. t[i] \subseteq S
      BY <1>5, <2>1
    <3>2. ASSUME NEW n \in S PROVE Range(n.entries) \subseteq S
      <4>1. n.entries \in Seq(S)
        BY TreeParts
      <4> QED BY <4>1 DEF Range
    <3> QED BY <3>1, <3>2
  <2> QED BY <2>2, <2>3 DEF Children
<1> HIDE DEF I
<1>6. depth \in I
  BY <1>4, <1>5, Descending!NatSet
<1> QED BY <1>3, <1>6 DEF I

\* Whatever commands clients send, every document is a tree in which each
\* object pairs its keys with values and has no key twice, down to any depth,
\* provided that what the parser makes of their arguments is: nothing that
\* sets, deletes, inserts or trims breaks a tree.
THEOREM DocumentsAlwaysWellFormed ==
    ASSUME ArgumentsAreTrees
    PROVE  Spec => []DocumentsWellFormed
<1>1. Grounded => DocumentsWellFormed
  <2> SUFFICES ASSUME Grounded, NEW k \in Keys, NEW depth \in 0..MaxDepth,
                      NEW n \in Level(db[k].root, depth)
               PROVE  WellFormed(n)
    BY DEF DocumentsWellFormed
  <2>1. PICK S : Stock(S) /\ db[k].root \in S
    BY DEF Grounded
  <2>2. Trees(S)
    BY <2>1 DEF Stock
  <2>3. depth \in Nat
    BY BoundsAssumption
  <2>4. n \in S
    BY <2>1, <2>2, <2>3, LevelInside
  <2> QED BY <2>2, <2>4, TreeParts
<1> QED BY <1>1, AlwaysGrounded, PTL

\* No command reads outside an array or follows the parent that the root does
\* not have, provided that no path is empty and no null is appended to a
\* string, which is when two of them do.
THEOREM NeverAnyCrash ==
    ASSUME ArgumentsAreTrees, NoEmptyPath, NoNullAppended
    PROVE  Spec => []NeverCrashes
<1>1. Init => Grounded /\ ~crashed
  BY GroundedAtFirst DEF Init
<1>2. (Grounded /\ ~crashed) /\ [Next]_vars => (Grounded /\ ~crashed)'
  BY GroundedKept
<1>3. Grounded /\ ~crashed => NeverCrashes
  BY DEF NeverCrashes
<1> QED BY <1>1, <1>2, <1>3, PTL DEF Spec

-----------------------------------------------------------------------------
(* Values whose path parts from the command's.                             *)

\* Every other key leads to the same in both nodes.
Alike(n, m, key) ==
    \A pn \in PathNodes : pn.type = "key" /\ pn.key # key =>
        /\ pathNode_eval(pn, n).err = pathNode_eval(pn, m).err
        /\ pathNode_eval(pn, n).err = "OK" =>
            n.entries[pathNode_eval(pn, n).pos] = m.entries[pathNode_eval(pn, m).pos]

\* Two keys differ by their names.
LEMMA KeysDiffer ==
    ASSUME NEW a \in PathNodes, NEW b \in PathNodes, a.type = "key", b.type = "key", a # b
    PROVE  a.key # b.key
  BY DEF PathNodes

\* What a search in a node depends on.
LEMMA EvalSame ==
    ASSUME NEW n, NEW m, m.type = n.type, m.keys = n.keys, Len(m.entries) = Len(n.entries), NEW pn
    PROVE  pathNode_eval(pn, m) = pathNode_eval(pn, n)
<1>1. HasKey(m, pn.key) = HasKey(n, pn.key) /\ obj_find(m, pn.key) = obj_find(n, pn.key)
  BY DEF HasKey, obj_find, Positions
<1> QED BY <1>1 DEF pathNode_eval

\* A child replaced: every step leads where it led, to the same child or to
\* the new one.
LEMMA EvalKept ==
    ASSUME NEW S, Trees(S), NEW d \in S, NEW pos \in DOMAIN d.entries, NEW child,
           NEW m, m = [d EXCEPT !.entries[pos] = child]
    PROVE  /\ \A pn : pathNode_eval(pn, m) = pathNode_eval(pn, d)
           /\ m.entries[pos] = child
           /\ \A o \in DOMAIN d.entries \ {pos} : m.entries[o] = d.entries[o]
<1> DEFINE entries == [d.entries EXCEPT ![pos] = child]
<1>1. d = New(d.type, d.num, d.str, d.keys, d.entries) /\ d.entries \in Seq(S)
  BY TreeParts
<1>2. m = New(d.type, d.num, d.str, d.keys, entries)
  <2>1. m = [d EXCEPT !.entries = entries]
    OBVIOUS
  <2> HIDE DEF entries
  <2> QED BY <1>1, <2>1, EntriesReplaced
<1>3. m.type = d.type /\ m.keys = d.keys /\ m.entries = entries
  <2> HIDE DEF entries
  <2> QED BY <1>2 DEF New
<1>4. Len(entries) = Len(d.entries)
  <2>1. d.entries \in Seq(S \cup {child}) /\ child \in S \cup {child}
    BY <1>1
  <2> QED BY <2>1, ElementReplaced
<1>5. entries[pos] = child /\ \A o \in DOMAIN d.entries \ {pos} : entries[o] = d.entries[o]
  OBVIOUS
<1> HIDE DEF entries
<1>6. \A pn : pathNode_eval(pn, m) = pathNode_eval(pn, d)
  BY <1>3, <1>4, EvalSame
<1> QED BY <1>3, <1>5, <1>6

\* The same of a node that is rebuilt with a child.
LEMMA PutBackKept ==
    ASSUME NEW S, Trees(S), NEW e, e.node \in S, e.pos \in DOMAIN e.node.entries, NEW child
    PROVE  /\ \A pn : pathNode_eval(pn, PutBack(child, e)) = pathNode_eval(pn, e.node)
           /\ PutBack(child, e).entries[e.pos] = child
<1> DEFINE d == e.node
           pos == e.pos
<1>1. PICK m : m = PutBack(child, e)
  OBVIOUS
<1>2. m = [d EXCEPT !.entries[pos] = child]
  BY <1>1 DEF PutBack
<1>3. d \in S /\ pos \in DOMAIN d.entries
  OBVIOUS
<1> HIDE DEF d, pos
<1>4. (\A pn : pathNode_eval(pn, m) = pathNode_eval(pn, d)) /\ m.entries[pos] = child
  BY <1>2, <1>3, EvalKept
<1> QED BY <1>1, <1>4 DEF d, pos

\* Where the keys of a dictionary lead.
LEMMA KeyEval ==
    ASSUME NEW d, d.type = "dict", NEW pn \in PathNodes, pn.type = "key"
    PROVE  pathNode_eval(pn, d) = IF HasKey(d, pn.key) THEN [err |-> "OK", pos |-> obj_find(d, pn.key)]
                                  ELSE [err |-> "NOKEY", pos |-> 0]
  BY DEF pathNode_eval

\* The value of a key replaced,
LEMMA ChildAlike ==
    ASSUME NEW S, Trees(S), NEW d \in S, d.type = "dict", NEW key, HasKey(d, key), NEW child,
           NEW m, m = [d EXCEPT !.entries[obj_find(d, key)] = child]
    PROVE  Alike(d, m, key)
<1> DEFINE pos == obj_find(d, key)
<1>1. d.keys \in Seq(Range(d.keys)) /\ d.entries \in Seq(S) /\ Len(d.keys) = Len(d.entries)
  BY TreeParts DEF WellFormed
<1>2. pos \in DOMAIN d.keys /\ d.keys[pos] = key /\ DOMAIN d.keys = DOMAIN d.entries
  BY <1>1, FirstPosition
<1>3. /\ \A pn : pathNode_eval(pn, m) = pathNode_eval(pn, d)
      /\ \A o \in DOMAIN d.entries \ {pos} : m.entries[o] = d.entries[o]
  BY <1>2, EvalKept
<1> HIDE DEF pos
<1>4. ASSUME NEW pn \in PathNodes, pn.type = "key", pn.key # key, pathNode_eval(pn, d).err = "OK"
      PROVE  d.entries[pathNode_eval(pn, d).pos] = m.entries[pathNode_eval(pn, d).pos]
  <2>1. HasKey(d, pn.key) /\ pathNode_eval(pn, d).pos = obj_find(d, pn.key)
    BY <1>4, KeyEval
  <2>2. obj_find(d, pn.key) \in DOMAIN d.keys /\ d.keys[obj_find(d, pn.key)] = pn.key
    BY <1>1, <2>1, FirstPosition
  <2>3. obj_find(d, pn.key) \in DOMAIN d.entries \ {pos}
    BY <1>2, <1>4, <2>2
  <2> QED BY <1>3, <2>1, <2>3
<1> QED BY <1>3, <1>4 DEF Alike

\* a key added,
LEMMA SetAlike ==
    ASSUME NEW S, Trees(S), NEW d \in S, d.type = "dict", NEW key, NEW n
    PROVE  Alike(d, Node_DictSet(d, key, n), key)
<1> DEFINE keys == Append(d.keys, key)
           entries == Append(d.entries, n)
<1>1. /\ d = New(d.type, d.num, d.str, d.keys, d.entries)
      /\ d.keys \in Seq(Range(d.keys)) /\ d.entries \in Seq(S) /\ Len(d.keys) = Len(d.entries)
  BY TreeParts DEF WellFormed
<1>2. CASE HasKey(d, key)
  <2>1. Node_DictSet(d, key, n) = [d EXCEPT !.entries[obj_find(d, key)] = n]
    BY <1>2 DEF Node_DictSet
  <2> QED BY <1>2, <2>1, ChildAlike
<1>3. CASE ~HasKey(d, key)
  <2> DEFINE m == Node_DictSet(d, key, n)
  <2>1. m = New(d.type, d.num, d.str, keys, entries)
    <3>1. m = Renewed(d, keys, entries)
      BY <1>3 DEF Node_DictSet, Renewed
    <3> HIDE DEF m, keys, entries
    <3> QED BY <1>1, <3>1, KeysReplaced
  <2>2. m.type = "dict" /\ m.keys = keys /\ m.entries = entries
    <3> HIDE DEF m, keys, entries
    <3> QED BY <2>1 DEF New
  <2>3. /\ DOMAIN keys = DOMAIN d.keys \cup {Len(d.keys) + 1} /\ keys[Len(d.keys) + 1] = key
        /\ \A i \in DOMAIN d.keys : keys[i] = d.keys[i]
    <3>1. d.keys \in Seq(Range(d.keys) \cup {key}) /\ key \in Range(d.keys) \cup {key}
      BY <1>1
    <3> QED BY <3>1
  <2>4. \A i \in DOMAIN d.keys : entries[i] = d.entries[i]
    <3>1. d.entries \in Seq(S \cup {n}) /\ n \in S \cup {n}
      BY <1>1
    <3>2. DOMAIN d.keys = DOMAIN d.entries
      BY <1>1
    <3> QED BY <3>1, <3>2
  <2> HIDE DEF m, keys, entries
  <2>5. ASSUME NEW pn \in PathNodes, pn.type = "key", pn.key # key
        PROVE  /\ pathNode_eval(pn, d) = pathNode_eval(pn, m)
               /\ pathNode_eval(pn, d).err = "OK" =>
                    d.entries[pathNode_eval(pn, d).pos] = m.entries[pathNode_eval(pn, m).pos]
    <3>1. Positions(m, pn.key) = Positions(d, pn.key)
      BY <2>2, <2>3, <2>5 DEF Positions
    <3>2. HasKey(m, pn.key) = HasKey(d, pn.key) /\ obj_find(m, pn.key) = obj_find(d, pn.key)
      BY <3>1 DEF HasKey, obj_find
    <3>3. pathNode_eval(pn, d) = pathNode_eval(pn, m)
      BY <2>2, <2>5, <3>2, KeyEval
    <3>4. ASSUME pathNode_eval(pn, d).err = "OK"
          PROVE  d.entries[pathNode_eval(pn, d).pos] = m.entries[pathNode_eval(pn, m).pos]
      <4>1. HasKey(d, pn.key) /\ pathNode_eval(pn, d).pos = obj_find(d, pn.key)
        BY <2>5, <3>4, KeyEval
      <4>2. obj_find(d, pn.key) \in DOMAIN d.keys
        BY <1>1, <4>1, FirstPosition
      <4> QED BY <2>2, <2>4, <3>3, <4>1, <4>2
    <3> QED BY <3>3, <3>4
  <2>6. Alike(d, m, key)
    BY <2>5 DEF Alike
  <2> QED BY <2>6 DEF m
<1> QED BY <1>2, <1>3


\* a key deleted, the last entry moved into its place.
LEMMA DelAlike ==
    ASSUME NEW S, Trees(S), NEW d \in S, d.type = "dict", NEW key, HasKey(d, key)
    PROVE  Alike(d, Node_DictDel(d, key), key)
<1> DEFINE i == obj_find(d, key)
           n == Len(d.keys)
           keys == SwapDelete(d.keys, i)
           entries == SwapDelete(d.entries, i)
           m == Node_DictDel(d, key)
<1>1. /\ d = New(d.type, d.num, d.str, d.keys, d.entries)
      /\ d.keys \in Seq(Range(d.keys)) /\ d.entries \in Seq(S) /\ WellFormed(d)
  BY TreeParts
<1>2. n \in Nat /\ DOMAIN d.keys = 1..n /\ Len(d.entries) = n /\ i \in 1..n /\ d.keys[i] = key
  <2>1. i \in DOMAIN d.keys /\ d.keys[i] = key
    BY <1>1, FirstPosition
  <2> QED BY <1>1, <2>1 DEF WellFormed
<1>3. m = New(d.type, d.num, d.str, keys, entries)
  <2>1. m = Renewed(d, keys, entries)
    BY DEF Node_DictDel, Renewed
  <2> HIDE DEF m, keys, entries
  <2> QED BY <1>1, <2>1, KeysReplaced
<1>4. m.type = "dict" /\ m.keys = keys /\ m.entries = entries
  <2> HIDE DEF m, keys, entries
  <2> QED BY <1>3 DEF New
<1> HIDE DEF i
<1>5. /\ keys \in Seq(Range(d.keys)) /\ Len(keys) = n - 1
      /\ \A k \in 1..(n - 1) : keys[k] = IF k = i THEN d.keys[n] ELSE d.keys[k]
  BY <1>1, <1>2, Swapped
<1>6. \A k \in 1..(n - 1) : entries[k] = IF k = i THEN d.entries[n] ELSE d.entries[k]
  <2>1. i \in 1..Len(d.entries) /\ Len(d.entries) = n
    BY <1>2
  <2> HIDE DEF n
  <2>2. \A k \in 1..(Len(d.entries) - 1) :
            entries[k] = IF k = i THEN d.entries[Len(d.entries)] ELSE d.entries[k]
    BY <1>1, <2>1, Swapped
  <2> QED BY <2>1, <2>2
<1>7. DOMAIN keys = 1..(n - 1) /\ DOMAIN m.keys = 1..(n - 1)
  <2> HIDE DEF keys, m
  <2> QED BY <1>2, <1>4, <1>5
<1> HIDE DEF keys, entries, n, m
<1>8. \A a, b \in 1..n : d.keys[a] = d.keys[b] => a = b
  BY <1>1, <1>2 DEF WellFormed
<1>9. ASSUME NEW pn \in PathNodes, pn.type = "key", pn.key # key
      PROVE  /\ pathNode_eval(pn, d).err = pathNode_eval(pn, m).err
             /\ pathNode_eval(pn, d).err = "OK" =>
                  d.entries[pathNode_eval(pn, d).pos] = m.entries[pathNode_eval(pn, m).pos]
  <2> DEFINE a == obj_find(d, pn.key)
             b == obj_find(m, pn.key)
  <2>1. HasKey(m, pn.key) <=> HasKey(d, pn.key)
    <3>1. ASSUME NEW k \in 1..n, d.keys[k] = pn.key PROVE \E o \in 1..(n - 1) : keys[o] = pn.key
      <4>1. k # i
        BY <1>2, <1>9, <3>1
      <4>2. CASE k = n
        <5>1. i \in 1..(n - 1) /\ keys[i] = d.keys[n]
          BY <1>2, <1>5, <4>1, <4>2
        <5> QED BY <3>1, <4>2, <5>1
      <4>3. CASE k # n
        <5>1. k \in 1..(n - 1) /\ keys[k] = d.keys[k]
          BY <1>2, <1>5, <4>1, <4>3
        <5> QED BY <3>1, <5>1
      <4> QED BY <4>2, <4>3
    <3>2. ASSUME NEW k \in 1..(n - 1), keys[k] = pn.key PROVE \E o \in 1..n : d.keys[o] = pn.key
      <4>1. k \in 1..n /\ n \in 1..n
        BY <1>2
      <4> QED BY <1>5, <3>2, <4>1
    <3>3. HasKey(d, pn.key) <=> \E o \in 1..n : d.keys[o] = pn.key
      BY <1>2 DEF HasKey, Positions
    <3>4. HasKey(m, pn.key) <=> \E o \in 1..(n - 1) : keys[o] = pn.key
      BY <1>4, <1>7 DEF HasKey, Positions
    <3> QED BY <3>1, <3>2, <3>3, <3>4
  <2>2. ASSUME HasKey(d, pn.key) PROVE d.entries[a] = m.entries[b]
    <3>1. a \in 1..n /\ d.keys[a] = pn.key
      BY <1>1, <1>2, <2>2, FirstPosition
    <3>2. b \in 1..(n - 1) /\ keys[b] = pn.key
      BY <1>4, <1>5, <1>7, <2>1, <2>2, FirstPosition
    <3> HIDE DEF a, b
    <3>3. b \in 1..n /\ n \in 1..n
      BY <1>2, <3>2
    <3>4. a = IF b = i THEN n ELSE b
      BY <1>5, <1>8, <3>1, <3>2, <3>3
    <3> QED BY <1>4, <1>6, <3>2, <3>4
  <2>3. /\ pathNode_eval(pn, d) = IF HasKey(d, pn.key) THEN [err |-> "OK", pos |-> a]
                                  ELSE [err |-> "NOKEY", pos |-> 0]
        /\ pathNode_eval(pn, m) = IF HasKey(m, pn.key) THEN [err |-> "OK", pos |-> b]
                                  ELSE [err |-> "NOKEY", pos |-> 0]
    BY <1>4, <1>9, KeyEval
  <2> HIDE DEF a, b
  <2> QED BY <2>1, <2>2, <2>3
<1>10. Alike(d, m, key)
  BY <1>9 DEF Alike
<1> QED BY <1>10 DEF m

\* The first steps of a trail.
LEMMA FirstSteps ==
    ASSUME NEW trail, NEW m, Listed(trail, m), NEW top \in 0..m
    PROVE  SubSeq(trail, 1, top) = [k \in 1..top |-> trail[k]]
<1>1. top \in Nat /\ m \in Nat /\ top <= m
  BY DEF Listed
<1>2. \A R : \A z \in Seq(R) : top <= Len(z) => SubSeq(z, 1, top) = [k \in 1..top |-> z[k]]
  BY <1>1
<1>3. trail \in Seq({trail[k] : k \in 1..m}) /\ Len(trail) = m
  BY ListedSeq
<1> QED BY <1>1, <1>2, <1>3

\* The nodes of a trail, each with the next in its place, above a new one.
Rebuilds(u, trail, top, x) ==
    /\ u[top] = x /\ u[0] = Replaced(SubSeq(trail, 1, top), x)
    /\ \A k \in 0 .. (top - 1) : u[k] = PutBack(u[k + 1], trail[k + 1])

\* They are the nodes of the document that is rebuilt along the trail.
LEMMA Rebuilt ==
    ASSUME NEW trail, NEW m, Listed(trail, m), NEW top \in 0..m, NEW x
    PROVE  \E u : Rebuilds(u, trail, top, x)
<1> DEFINE s == SubSeq(trail, 1, top)
<1>1. top \in Nat /\ m \in Nat /\ top <= m
  BY DEF Listed
<1>2. s = [k \in 1..top |-> trail[k]] /\ Len(s) = top /\ DOMAIN s = 1..top
  <2>1. s = [k \in 1..top |-> trail[k]]
    BY FirstSteps
  <2> HIDE DEF s
  <2> QED BY <1>1, <2>1
<1> HIDE DEF s
<1>3. DOMAIN Reverse(s) = 1..top /\ \A k \in 1..top : Reverse(s)[k] = trail[top - k + 1]
  <2>1. \A k \in 1..top : (top - k) + 1 \in 1..top
    BY <1>1
  <2> QED BY <1>2, <2>1 DEF Reverse
<1>4. PICK t : /\ Rebuilding!Traces(x, t, Reverse(s), top)
               /\ Rebuilding!FoldLeft(PutBack, x, Reverse(s)) = t[top]
  BY <1>1, <1>3, Rebuilding!FoldLeftTrace
<1>5. Replaced(s, x) = t[top]
  BY <1>4 DEF Replaced, FoldLeft, Rebuilding!FoldLeft, MapThenFoldSet,
              Rebuilding!MapThenFoldSet, Max, Rebuilding!Max
<1> DEFINE u == [k \in 0..top |-> t[top - k]]
<1>6. u[top] = x /\ u[0] = t[top]
  <2>1. top \in 0..top /\ 0 \in 0..top /\ top - top = 0 /\ top - 0 = top
    BY <1>1
  <2> QED BY <1>4, <2>1 DEF Rebuilding!Traces
<1>7. ASSUME NEW k \in 0 .. (top - 1) PROVE u[k] = PutBack(u[k + 1], trail[k + 1])
  <2>1. /\ k \in 0..top /\ k + 1 \in 0..top /\ top - k \in 1..top
        /\ (top - k) - 1 = top - (k + 1) /\ top - (top - k) + 1 = k + 1
    BY <1>1
  <2>2. t[top - k] = PutBack(t[(top - k) - 1], Reverse(s)[top - k])
    BY <1>4, <2>1 DEF Rebuilding!Traces
  <2> QED BY <1>3, <2>1, <2>2
<1> HIDE DEF u
<1>8. Rebuilds(u, trail, top, x)
  BY <1>5, <1>6, <1>7 DEF Rebuilds, s
<1> QED BY <1>8

\* What a search path keeps while it is followed.
Searching(f) ==
    f = [n |-> f.n, p |-> f.p, err |-> f.err, errlevel |-> f.errlevel, trail |-> f.trail]

\* One step of it, as far as the node and the error go.
LEMMA SearchStep ==
    ASSUME NEW f, Searching(f), NEW pn
    PROVE  LET r == pathNode_eval(pn, f.n)
               g == FindStep(f, pn)
           IN  /\ Searching(g)
               /\ f.err # "OK" => g = f
               /\ f.err = "OK" => g.err = r.err
               /\ f.err = "OK" => g.n = IF r.err = "OK" THEN f.n.entries[r.pos] ELSE NullNode
<1> DEFINE r == pathNode_eval(pn, f.n)
           g == FindStep(f, pn)
<1>1. CASE f.err # "OK"
  <2>1. g = f
    BY <1>1 DEF FindStep
  <2> HIDE DEF g
  <2> QED BY <1>1, <2>1 DEF g
<1>2. CASE f.err = "OK" /\ r.err = "OK"
  <2> DEFINE trail == Append(f.trail, [node |-> f.n, pos |-> r.pos])
  <2>1. g = [n |-> f.n.entries[r.pos], p |-> f.n, err |-> "OK", errlevel |-> -1, trail |-> trail]
    BY <1>2 DEF FindStep, FindChild
  <2> HIDE DEF g, r, trail
  <2>2. Searching(g) /\ g.err = "OK" /\ g.n = f.n.entries[r.pos]
    BY <2>1 DEF Searching
  <2> QED BY <1>2, <2>2 DEF g, r
<1>3. CASE f.err = "OK" /\ r.err # "OK"
  <2>1. g = [f EXCEPT !.n = NullNode, !.p = f.n, !.err = r.err, !.errlevel = Len(f.trail)]
    BY <1>3 DEF FindStep, FindChild
  <2>2. g = [n |-> NullNode, p |-> f.n, err |-> r.err, errlevel |-> Len(f.trail), trail |-> f.trail]
    <3> HIDE DEF g, r
    <3> QED BY <2>1 DEF Searching
  <2> HIDE DEF g, r
  <2>3. Searching(g) /\ g.err = r.err /\ g.n = NullNode
    BY <2>2 DEF Searching
  <2> QED BY <1>3, <2>3 DEF g, r
<1> QED BY <1>1, <1>2, <1>3

\* Two searches that are at the same node stay together.
LEMMA SearchTogether ==
    ASSUME NEW f, NEW g, Searching(f), Searching(g), f.n = g.n, f.err = g.err, NEW pn
    PROVE  FindStep(f, pn).n = FindStep(g, pn).n /\ FindStep(f, pn).err = FindStep(g, pn).err
  BY SearchStep

\* The steps of a search.
LEMMA Searches ==
    ASSUME NEW nodes \in Seq(PathNodes), NEW root
    PROVE  \E t : /\ t[0] = FindStart(root) /\ SearchPath_FindEx(nodes, root) = t[Len(nodes)]
                  /\ \A k \in 1..Len(nodes) : t[k] = FindStep(t[k - 1], nodes[k])
                  /\ \A k \in 0..Len(nodes) : Searching(t[k])
<1>1. Len(nodes) \in Nat /\ DOMAIN nodes = 1..Len(nodes)
  OBVIOUS
<1>2. PICK t : /\ Finding!Traces(FindStart(root), t, nodes, Len(nodes))
               /\ Finding!FoldLeft(FindStep, FindStart(root), nodes) = t[Len(nodes)]
  BY <1>1, Finding!FoldLeftTrace
<1>3. SearchPath_FindEx(nodes, root) = t[Len(nodes)]
  BY <1>2 DEF SearchPath_FindEx, FoldLeft, Finding!FoldLeft, MapThenFoldSet,
              Finding!MapThenFoldSet, Max, Finding!Max
<1>4. t[0] = FindStart(root) /\ \A k \in 1..Len(nodes) : t[k] = FindStep(t[k - 1], nodes[k])
  BY <1>2 DEF Finding!Traces
<1> DEFINE I == {k \in Nat : k \in 0..Len(nodes) => Searching(t[k])}
<1>5. 0 \in I
  BY <1>4 DEF FindStart, Searching
<1>6. ASSUME NEW k \in Nat, k \in I PROVE k + 1 \in I
  <2>1. k + 1 \in 0..Len(nodes) => k \in 0..Len(nodes) /\ k + 1 \in 1..Len(nodes) /\ (k + 1) - 1 = k
    BY <1>1
  <2> QED BY <1>4, <1>6, <2>1, SearchStep
<1> HIDE DEF I
<1>7. \A k \in Nat : k \in I
  BY <1>5, <1>6, Finding!NatSet
<1>8. \A k \in 0..Len(nodes) : Searching(t[k])
  BY <1>1, <1>7 DEF I
<1> QED BY <1>3, <1>4, <1>8

\* A change at the end of a trail is not seen by a path that parts from it at
\* two keys, nor by one that parts from it there, if the changed node leads
\* all other keys to the same.
LEMMA LookupApart ==
    ASSUME NEW S, Trees(S), NEW root \in S, NEW nodes \in Seq(PathNodes), NEW trail,
           NEW m \in 0..Len(nodes), Trail(trail, m, nodes, root), NEW top \in 0..m, NEW x,
           NEW others \in Seq(PathNodes), NEW i \in DOMAIN nodes \cap DOMAIN others, i <= top + 1,
           \A k \in 1..(i - 1) : others[k] = nodes[k],
           nodes[i].type = "key", others[i].type = "key", nodes[i] # others[i],
           i = top + 1 => Alike(Reached(trail, top, root), x, nodes[i].key)
    PROVE  LET f == SearchPath_FindEx(others, root)
               g == SearchPath_FindEx(others, Replaced(SubSeq(trail, 1, top), x))
           IN  f.n = g.n /\ f.err = g.err
<1> DEFINE new == Replaced(SubSeq(trail, 1, top), x)
           n == Len(others)
           was(k) == Reached(trail, k, root)
<1>0. n \in Nat /\ m \in Nat /\ top \in Nat /\ top <= m /\ i \in 1..n /\ i \in 1..Len(nodes)
  OBVIOUS
<1>1. Listed(trail, m)
  BY DEF Trail
<1>2. PICK u : /\ u[top] = x /\ u[0] = new
               /\ \A k \in 0 .. (top - 1) : u[k] = PutBack(u[k + 1], trail[k + 1])
  <2>1. \E u : Rebuilds(u, trail, top, x)
    BY <1>1, Rebuilt
  <2> QED BY <2>1 DEF Rebuilds
<1>3. PICK t : /\ t[0] = FindStart(root) /\ SearchPath_FindEx(others, root) = t[n]
               /\ \A k \in 1..n : t[k] = FindStep(t[k - 1], others[k])
               /\ \A k \in 0..n : Searching(t[k])
  BY Searches
<1> HIDE DEF new
<1>4. PICK v : /\ v[0] = FindStart(new) /\ SearchPath_FindEx(others, new) = v[n]
               /\ \A k \in 1..n : v[k] = FindStep(v[k - 1], others[k])
               /\ \A k \in 0..n : Searching(v[k])
  BY Searches
<1> HIDE DEF n
<1>5. \A k \in 0..m : was(k) \in S
  BY TrailInside
<1>6. ASSUME NEW k \in 0 .. (top - 1)
      PROVE  LET e == trail[k + 1]
             IN  /\ was(k) \in S /\ e.node = was(k) /\ e.pos \in DOMAIN was(k).entries
                 /\ nodes[k + 1] \in PathNodes
                 /\ pathNode_eval(nodes[k + 1], was(k)) = [err |-> "OK", pos |-> e.pos]
                 /\ was(k + 1) = was(k).entries[e.pos]
                 /\ u[k] = [was(k) EXCEPT !.entries[e.pos] = u[k + 1]]
  <2>1. k + 1 \in 1..m /\ (k + 1) - 1 = k /\ k \in 0..m /\ k + 1 # 0 /\ k + 1 \in 1..Len(nodes)
    BY <1>0
  <2> DEFINE e == trail[k + 1]
  <2>2. e.node = was(k) /\ pathNode_eval(nodes[k + 1], e.node) = [err |-> "OK", pos |-> e.pos]
    BY <2>1 DEF Trail
  <2>3. was(k) \in S /\ nodes[k + 1] \in PathNodes
    BY <1>5, <2>1
  <2>4. was(k + 1) = e.node.entries[e.pos]
    BY <2>1 DEF Reached
  <2>5. u[k] = [e.node EXCEPT !.entries[e.pos] = u[k + 1]]
    BY <1>2 DEF PutBack
  <2> HIDE DEF e, was
  <2>6. e.pos \in DOMAIN was(k).entries
    <3>1. /\ pathNode_eval(nodes[k + 1], was(k)).err = "OK"
          /\ pathNode_eval(nodes[k + 1], was(k)).pos = e.pos
      BY <2>2
    <3> QED BY <2>3, <3>1, EvalOk
  <2> QED BY <2>2, <2>3, <2>4, <2>5, <2>6 DEF e
<1> DEFINE I == {k \in Nat : k <= i - 1 => /\ t[k].err = "OK" /\ t[k].n = was(k)
                                          /\ v[k].err = "OK" /\ v[k].n = u[k]}
<1>7. 0 \in I
  BY <1>2, <1>3, <1>4 DEF FindStart, Reached
<1>8. ASSUME NEW k \in Nat, k \in I PROVE k + 1 \in I
  <2> SUFFICES ASSUME k + 1 <= i - 1
               PROVE  /\ t[k + 1].err = "OK" /\ t[k + 1].n = was(k + 1)
                      /\ v[k + 1].err = "OK" /\ v[k + 1].n = u[k + 1]
    OBVIOUS
  <2>1. /\ k \in 0 .. (top - 1) /\ k + 1 \in 1 .. (i - 1) /\ k + 1 \in 1..n /\ k \in 0..n
        /\ (k + 1) - 1 = k /\ k <= i - 1
    BY <1>0
  <2> DEFINE e == trail[k + 1]
             pn == nodes[k + 1]
  <2>2. /\ t[k].err = "OK" /\ t[k].n = was(k) /\ v[k].err = "OK" /\ v[k].n = u[k]
        /\ Searching(t[k]) /\ Searching(v[k])
    BY <1>3, <1>4, <1>8, <2>1
  <2>3. t[k + 1] = FindStep(t[k], pn) /\ v[k + 1] = FindStep(v[k], pn)
    BY <1>3, <1>4, <2>1
  <2>4. /\ was(k) \in S /\ e.pos \in DOMAIN was(k).entries
        /\ pathNode_eval(pn, was(k)) = [err |-> "OK", pos |-> e.pos]
        /\ was(k + 1) = was(k).entries[e.pos]
    BY <1>6, <2>1
  <2>5. u[k] = PutBack(u[k + 1], e) /\ e.node = was(k)
    BY <1>2, <1>6, <2>1 DEF e
  <2> DEFINE f == t[k]
             g == v[k]
  <2> HIDE DEF was, e, pn, f, g, I
  <2>6. pathNode_eval(pn, u[k]) = [err |-> "OK", pos |-> e.pos] /\ u[k].entries[e.pos] = u[k + 1]
    <3>1. e.node \in S /\ e.pos \in DOMAIN e.node.entries
      BY <2>4, <2>5
    <3> DEFINE child == u[k + 1]
    <3> HIDE DEF child
    <3>2. /\ \A z : pathNode_eval(z, PutBack(child, e)) = pathNode_eval(z, e.node)
          /\ PutBack(child, e).entries[e.pos] = child
      BY <3>1, PutBackKept
    <3> QED BY <2>4, <2>5, <3>2 DEF child
  <2>7. Searching(f) /\ Searching(g) /\ f.err = "OK" /\ g.err = "OK" /\ f.n = was(k) /\ g.n = u[k]
    BY <2>2 DEF f, g
  <2>8. pathNode_eval(pn, f.n).err = "OK" /\ pathNode_eval(pn, f.n).pos = e.pos
    BY <2>4, <2>7
  <2>9. pathNode_eval(pn, g.n).err = "OK" /\ pathNode_eval(pn, g.n).pos = e.pos
    BY <2>6, <2>7
  <2>10. FindStep(f, pn).err = "OK" /\ FindStep(f, pn).n = f.n.entries[e.pos]
    BY <2>7, <2>8, SearchStep
  <2>11. FindStep(g, pn).err = "OK" /\ FindStep(g, pn).n = g.n.entries[e.pos]
    BY <2>7, <2>9, SearchStep
  <2> QED BY <2>3, <2>4, <2>6, <2>7, <2>10, <2>11 DEF f, g
<1> HIDE DEF I
<1>9. /\ t[i - 1].err = "OK" /\ t[i - 1].n = was(i - 1)
      /\ v[i - 1].err = "OK" /\ v[i - 1].n = u[i - 1]
  <2>1. i - 1 \in Nat /\ i - 1 <= i - 1
    BY <1>0
  <2>2. i - 1 \in I
    BY <1>7, <1>8, <2>1, Finding!NatSet
  <2> QED BY <2>1, <2>2 DEF I
<1>10. Alike(was(i - 1), u[i - 1], nodes[i].key)
  <2>1. CASE i = top + 1
    <3>1. i - 1 = top
      BY <1>0, <2>1
    <3> QED BY <1>2, <2>1, <3>1
  <2>2. CASE i # top + 1
    <3> DEFINE d == was(i - 1)
               e == trail[i]
    <3>1. i - 1 \in 0 .. (top - 1) /\ (i - 1) + 1 = i
      BY <1>0, <2>2
    <3>2. /\ d \in S /\ nodes[i] \in PathNodes
          /\ pathNode_eval(nodes[i], d) = [err |-> "OK", pos |-> e.pos]
          /\ u[i - 1] = [d EXCEPT !.entries[e.pos] = u[i]]
      BY <1>6, <3>1
    <3> HIDE DEF d, e
    <3>3. pathNode_eval(nodes[i], d).err = "OK" /\ pathNode_eval(nodes[i], d).pos = e.pos
      BY <3>2
    <3>4. d.type = "dict" /\ HasKey(d, nodes[i].key)
      BY <3>2, <3>3, EvalOk
    <3>5. e.pos = obj_find(d, nodes[i].key)
      BY <3>2, <3>3, <3>4, KeyEval
    <3>6. Alike(d, u[i - 1], nodes[i].key)
      BY <3>2, <3>4, <3>5, ChildAlike
    <3> QED BY <3>6 DEF d
  <2> QED BY <2>1, <2>2
<1> HIDE DEF was
<1> DEFINE J == {k \in Nat : i + k <= n => t[i + k].n = v[i + k].n /\ t[i + k].err = v[i + k].err}
<1>11. 0 \in J
  <2>1. i - 1 \in 0..n /\ i \in 1..n /\ i + 0 = i
    BY <1>0
  <2>2. t[i] = FindStep(t[i - 1], others[i]) /\ v[i] = FindStep(v[i - 1], others[i])
    BY <1>3, <1>4, <2>1
  <2>3. Searching(t[i - 1]) /\ Searching(v[i - 1])
    BY <1>3, <1>4, <2>1
  <2>4. others[i] \in PathNodes /\ others[i].key # nodes[i].key
    <3>1. others[i] \in PathNodes /\ nodes[i] \in PathNodes
      OBVIOUS
    <3> QED BY <3>1, KeysDiffer
  <2>5. LET a == pathNode_eval(others[i], was(i - 1))
            b == pathNode_eval(others[i], u[i - 1])
        IN  a.err = b.err /\ (a.err = "OK" => was(i - 1).entries[a.pos] = u[i - 1].entries[b.pos])
    BY <1>10, <2>4 DEF Alike
  <2>6. t[i].n = v[i].n /\ t[i].err = v[i].err
    BY <1>9, <2>2, <2>3, <2>5, SearchStep
  <2> QED BY <2>1, <2>6
<1>12. ASSUME NEW k \in Nat, k \in J PROVE k + 1 \in J
  <2> SUFFICES ASSUME i + (k + 1) <= n
               PROVE  t[i + (k + 1)].n = v[i + (k + 1)].n /\ t[i + (k + 1)].err = v[i + (k + 1)].err
    OBVIOUS
  <2>1. i + k \in 0..n /\ i + (k + 1) \in 1..n /\ (i + (k + 1)) - 1 = i + k /\ i + k <= n
    BY <1>0
  <2>2. /\ t[i + (k + 1)] = FindStep(t[i + k], others[i + (k + 1)])
        /\ v[i + (k + 1)] = FindStep(v[i + k], others[i + (k + 1)])
    BY <1>3, <1>4, <2>1
  <2>3. /\ Searching(t[i + k]) /\ Searching(v[i + k])
        /\ t[i + k].n = v[i + k].n /\ t[i + k].err = v[i + k].err
    BY <1>3, <1>4, <1>12, <2>1
  <2> DEFINE f == t[i + k]
             g == v[i + k]
  <2>4. Searching(f) /\ Searching(g) /\ f.n = g.n /\ f.err = g.err
    BY <2>3
  <2> HIDE DEF f, g
  <2>5. \A pn : FindStep(f, pn).n = FindStep(g, pn).n /\ FindStep(f, pn).err = FindStep(g, pn).err
    BY <2>4, SearchTogether
  <2> QED BY <2>2, <2>5 DEF f, g
<1> HIDE DEF J
<1>13. t[n].n = v[n].n /\ t[n].err = v[n].err
  <2>1. n - i \in Nat /\ i + (n - i) = n /\ i + (n - i) <= n
    BY <1>0
  <2>2. n - i \in J
    BY <1>11, <1>12, <2>1, Finding!NatSet
  <2> QED BY <2>1, <2>2 DEF J
<1> QED BY <1>3, <1>4, <1>13 DEF new


-----------------------------------------------------------------------------
(* What commands change, and what they leave alone.                        *)

\* The path of a command names the whole document.
Whole(j) == j.isRoot \/ j.nodes = <<>>

\* It leads at least to the node that holds what it names.
ToParent(j) == j.err = "OK" \/ (j.err = "NOKEY" /\ j.errlevel = Len(j.nodes) - 1)

\* A document is left, or changed at the end of a path, or in the parent: for
\* a path that ends with a key, in nothing but that key.
Edited(j, root, new) ==
    \/ new = root \/ Whole(j)
    \/ j.err = "OK" /\ \E x : new = WithNode(j, x)
    \/ /\ ToParent(j)
       /\ \E x : /\ new = WithParent(j, x)
                 /\ Last(j.nodes).type = "key" => Alike(j.p, x, LastKey(j))

\* A path that parts from another one at two keys is not about the whole, nor
\* is the other one.
LEMMA PartedPaths ==
    ASSUME NEW q \in RequestPaths, NEW path \in RequestPaths, PartAtKeys(q, path),
           NEW root
    PROVE  LET j == NodeFromJSONPath(root, path)
           IN  /\ ~Whole(j) /\ PathOf(Parsed[path]) = j.nodes /\ j.nodes = Parsed[path].nodes
               /\ PathOf(Parsed[q]) = Parsed[q].nodes
<1> DEFINE m == Parsed[path].nodes
           n == Parsed[q].nodes
<1>1. PICK i \in DOMAIN n \cap DOMAIN m : n[i].type = "key" /\ m[i].type = "key"
  BY DEF PartAtKeys
<1>2. m \in Seq(PathNodes) /\ n \in Seq(PathNodes)
  BY FoundFields
<1>3. /\ Parsed[path].isRoot <=> Len(m) = 1 /\ m[1].type = "root"
      /\ Parsed[q].isRoot <=> Len(n) = 1 /\ n[1].type = "root"
  BY FoundFields
<1>4. LET j == NodeFromJSONPath(root, path) IN j.nodes = m /\ j.isRoot = Parsed[path].isRoot
  BY FoundFields
<1> HIDE DEF m, n
<1>5. i \in 1..Len(m) /\ i \in 1..Len(n) /\ Len(m) \in Nat /\ Len(n) \in Nat
  BY <1>2
<1>6. ~Parsed[path].isRoot /\ ~Parsed[q].isRoot
  BY <1>1, <1>3, <1>5
<1>7. m # <<>>
  BY <1>5
<1>8. PathOf(Parsed[path]) = m /\ PathOf(Parsed[q]) = n
  BY <1>6 DEF PathOf, m, n
<1> QED BY <1>4, <1>6, <1>7, <1>8 DEF Whole, m, n

\* A trail up to its last step is the trail.
LEMMA WholeTrail ==
    ASSUME NEW trail, NEW m, Listed(trail, m)
    PROVE  SubSeq(trail, 1, m) = trail
<1>1. m \in 0..m
  BY DEF Listed
<1>2. SubSeq(trail, 1, m) = [k \in 1..m |-> trail[k]]
  BY <1>1, FirstSteps
<1> QED BY <1>2 DEF Listed

\* What is changed at a path is not seen by the paths that part from it.
LEMMA EditApart ==
    ASSUME NEW S, Trees(S), NEW root \in S, NEW path \in RequestPaths, NEW q \in RequestPaths,
           PartAtKeys(q, path), NEW new, Edited(NodeFromJSONPath(root, path), root, new)
    PROVE  /\ NodeFromJSONPath(new, q).n = NodeFromJSONPath(root, q).n
           /\ NodeFromJSONPath(new, q).err = NodeFromJSONPath(root, q).err
<1> DEFINE j == NodeFromJSONPath(root, path)
           nodes == PathOf(Parsed[path])
           others == PathOf(Parsed[q])
           f == SearchPath_FindEx(nodes, root)
           Blind == /\ SearchPath_FindEx(others, new).n = SearchPath_FindEx(others, root).n
                    /\ SearchPath_FindEx(others, new).err = SearchPath_FindEx(others, root).err
<1>1. /\ ~Whole(j) /\ nodes = j.nodes /\ j.nodes = Parsed[path].nodes
      /\ others = Parsed[q].nodes /\ nodes \in Seq(PathNodes) /\ others \in Seq(PathNodes)
  BY PartedPaths, FoundFields
<1>2. /\ j.n = f.n /\ j.p = f.p /\ j.err = f.err /\ j.errlevel = f.errlevel /\ j.trail = f.trail
      /\ Finds(f, Len(nodes), nodes, root)
  BY FoundFields
<1>3. \A z : /\ NodeFromJSONPath(z, q).n = SearchPath_FindEx(others, z).n
             /\ NodeFromJSONPath(z, q).err = SearchPath_FindEx(others, z).err
  BY FoundFields
<1>4. SUFFICES Blind
  BY <1>3
<1>5. PICK i \in DOMAIN nodes \cap DOMAIN others :
            /\ \A k \in 1..(i - 1) : others[k] = nodes[k]
            /\ others[i].type = "key" /\ nodes[i].type = "key" /\ others[i] # nodes[i]
  BY <1>1 DEF PartAtKeys
<1> HIDE DEF f
<1>6. PICK m \in Nat :
        /\ Trail(j.trail, m, nodes, root)
        /\ j.err = "OK" =>
            /\ m = Len(nodes)
            /\ j.p = IF m = 0 THEN NullNode ELSE j.trail[m].node
        /\ j.err # "OK" => m < Len(nodes) /\ j.p = Reached(j.trail, m, root) /\ j.errlevel = m
  BY <1>2 DEF Finds
<1>7. Edited(j, root, new)
  OBVIOUS
<1> HIDE DEF j, nodes, others
<1>8. Len(nodes) \in Nat /\ i \in 1..Len(nodes) /\ m \in 0..Len(nodes) /\ Listed(j.trail, m)
  BY <1>1, <1>6 DEF Trail
<1>9. ASSUME NEW top \in 0..m, NEW x, new = Replaced(SubSeq(j.trail, 1, top), x), i <= top + 1,
             i = top + 1 => Alike(Reached(j.trail, top, root), x, nodes[i].key)
      PROVE  Blind
  <2> DEFINE trail == j.trail
  <2>1. /\ nodes \in Seq(PathNodes) /\ others \in Seq(PathNodes) /\ m \in 0..Len(nodes)
        /\ Trail(trail, m, nodes, root)
    BY <1>1, <1>6, <1>8
  <2>2. /\ \A k \in 1..(i - 1) : others[k] = nodes[k]
        /\ nodes[i].type = "key" /\ others[i].type = "key" /\ nodes[i] # others[i]
    BY <1>5
  <2>3. i <= top + 1 /\ (i = top + 1 => Alike(Reached(trail, top, root), x, nodes[i].key))
    BY <1>9
  <2> HIDE DEF trail
  <2>4. /\ SearchPath_FindEx(others, root).n
             = SearchPath_FindEx(others, Replaced(SubSeq(trail, 1, top), x)).n
        /\ SearchPath_FindEx(others, root).err
             = SearchPath_FindEx(others, Replaced(SubSeq(trail, 1, top), x)).err
    BY <2>1, <2>2, <2>3, LookupApart
  <2> QED BY <1>9, <2>4 DEF trail
<1>10. CASE new = root
  BY <1>10
<1>11. ASSUME j.err = "OK", NEW x, new = WithNode(j, x) PROVE Blind
  <2>1. m = Len(nodes) /\ m \in 0..m
    BY <1>6, <1>11
  <2>2. new = Replaced(SubSeq(j.trail, 1, m), x)
    BY <1>8, <1>11, WholeTrail DEF WithNode
  <2>3. i <= m + 1 /\ i # m + 1
    BY <1>8, <2>1
  <2> HIDE DEF Blind
  <2> QED BY <1>9, <2>1, <2>2, <2>3
<1>12. ASSUME ToParent(j), NEW x, new = WithParent(j, x),
              Last(j.nodes).type = "key" => Alike(j.p, x, LastKey(j))
       PROVE  Blind
  <2> DEFINE top == Len(nodes) - 1
  <2>1. top \in 0..m /\ top \in Nat /\ i <= top + 1
    BY <1>1, <1>6, <1>8, <1>12 DEF ToParent
  <2>2. new = Replaced(SubSeq(j.trail, 1, top), x)
    BY <1>1, <1>12 DEF WithParent
  <2>3. j.p = Reached(j.trail, top, root)
    <3>1. CASE j.err = "OK"
      <4>1. m = Len(nodes) /\ m # 0 /\ m \in 1..m /\ m - 1 = top
        BY <1>6, <1>8, <3>1
      <4>2. j.p = j.trail[m].node /\ j.trail[m].node = Reached(j.trail, m - 1, root)
        BY <1>6, <3>1, <4>1 DEF Trail
      <4> QED BY <4>1, <4>2
    <3>2. CASE j.err # "OK"
      <4>1. m = top
        BY <1>1, <1>6, <1>12, <3>2 DEF ToParent
      <4> QED BY <1>6, <3>2, <4>1
    <3> QED BY <3>1, <3>2
  <2>4. ASSUME i = top + 1 PROVE Alike(Reached(j.trail, top, root), x, nodes[i].key)
    <3>1. i = Len(nodes) /\ Last(j.nodes) = nodes[i] /\ LastKey(j) = nodes[i].key
      BY <1>1, <1>8, <2>4 DEF Last, LastKey
    <3> QED BY <1>5, <1>12, <2>3, <3>1
  <2> HIDE DEF Blind, top
  <2> QED BY <1>9, <2>1, <2>2, <2>4
<1> QED BY <1>1, <1>7, <1>10, <1>11, <1>12 DEF Edited


\* The last node of a path, and the parent.
LEMMA LastStep ==
    ASSUME NEW S, Trees(S), NEW j, Leads(j, S), ~Whole(j)
    PROVE  /\ j.p \in S
           /\ j.err = "OK" =>
                \/ j.p.type = "array" /\ Last(j.nodes).type = "index"
                \/ j.p.type = "dict" /\ HasKey(j.p, LastKey(j))
           /\ ToParent(j) /\ j.err # "OK" => j.p.type = "dict"
<1>1. j.p \in S /\ j.nodes \in Seq(PathNodes) /\ j.nodes # <<>> /\ ~j.isRoot
  BY DEF Leads, Inside, Whole
<1>2. Last(j.nodes) \in PathNodes
  BY <1>1 DEF Last
<1>3. ASSUME j.err = "OK"
      PROVE  \/ j.p.type = "array" /\ Last(j.nodes).type = "index"
             \/ j.p.type = "dict" /\ HasKey(j.p, LastKey(j))
  <2>1. pathNode_eval(Last(j.nodes), j.p).err = "OK"
    BY <1>1, <1>3 DEF Leads, AtLast
  <2> QED BY <1>1, <1>2, <2>1, EvalOk DEF LastKey
<1>4. ASSUME ToParent(j), j.err # "OK" PROVE j.p.type = "dict"
  <2>1. pathNode_eval(Last(j.nodes), j.p).err = "NOKEY"
    BY <1>1, <1>4 DEF Leads, AtLast, ToParent
  <2> QED BY <2>1, EvalNoKey
<1> QED BY <1>1, <1>3, <1>4

\* The outcomes that leave the document, or change it at the path.
LEMMA EditedParts ==
    ASSUME NEW j, NEW doc
    PROVE  /\ Edited(j, doc.root, Refuse(doc).doc.root)
           /\ Edited(j, doc.root, Crash(doc).doc.root)
           /\ \A reply : Edited(j, doc.root, Answer(doc, reply).doc.root)
           /\ \A clear, replicate, replies, crash :
                Edited(j, doc.root, Outcome(doc, clear, replicate, replies, crash).doc.root)
           /\ \A n, reply : Edited(j, doc.root, n) => Edited(j, doc.root, Changed(n, reply).doc.root)
           /\ j.err = "OK" => \A x : Edited(j, doc.root, WithNode(j, x))
<1>1. Edited(j, doc.root, doc.root)
  BY DEF Edited
<1>2. /\ Edited(j, doc.root, Refuse(doc).doc.root) /\ Edited(j, doc.root, Crash(doc).doc.root)
      /\ \A reply : Edited(j, doc.root, Answer(doc, reply).doc.root)
      /\ \A clear, replicate, replies, crash :
            Edited(j, doc.root, Outcome(doc, clear, replicate, replies, crash).doc.root)
  BY <1>1, RootOf
<1>3. \A n, reply : Edited(j, doc.root, n) => Edited(j, doc.root, Changed(n, reply).doc.root)
  BY RootOf
<1>4. j.err = "OK" => \A x : Edited(j, doc.root, WithNode(j, x))
  BY DEF Edited
<1> QED BY <1>2, <1>3, <1>4

\* A key of the parent set or deleted, or an element of it changed.
LEMMA EditedParent ==
    ASSUME NEW S, Trees(S), NEW j, Leads(j, S), ~Whole(j), NEW root
    PROVE  /\ ToParent(j) /\ j.p.type = "dict" =>
                \A n : Edited(j, root, WithParent(j, Node_DictSet(j.p, LastKey(j), n)))
           /\ j.err = "OK" /\ j.p.type = "dict" =>
                Edited(j, root, WithParent(j, Node_DictDel(j.p, LastKey(j))))
           /\ j.err = "OK" /\ j.p.type = "array" => \A m : Edited(j, root, WithParent(j, m))
<1>1. ASSUME ToParent(j), j.p.type = "dict", NEW n
      PROVE  Edited(j, root, WithParent(j, Node_DictSet(j.p, LastKey(j), n)))
  <2>1. Alike(j.p, Node_DictSet(j.p, LastKey(j), n), LastKey(j))
    BY <1>1, LastStep, SetAlike
  <2> QED BY <1>1, <2>1 DEF Edited
<1>2. ASSUME j.err = "OK", j.p.type = "dict"
      PROVE  Edited(j, root, WithParent(j, Node_DictDel(j.p, LastKey(j))))
  <2>1. j.p \in S /\ HasKey(j.p, LastKey(j))
    BY <1>2, LastStep
  <2>2. Alike(j.p, Node_DictDel(j.p, LastKey(j)), LastKey(j))
    BY <1>2, <2>1, DelAlike
  <2> QED BY <1>2, <2>2 DEF Edited, ToParent
<1>3. ASSUME j.err = "OK", j.p.type = "array", NEW m PROVE Edited(j, root, WithParent(j, m))
  <2>1. Last(j.nodes).type # "key"
    BY <1>3, LastStep
  <2> QED BY <1>3, <2>1 DEF Edited, ToParent
<1> QED BY <1>1, <1>2, <1>3

\* Setting a value in its container changes what the path leads to.
LEMMA SetInContainerEdits ==
    ASSUME NEW S, Trees(S), NEW j, Leads(j, S), ~Whole(j), j.err = "OK", NEW doc, NEW n, NEW reply
    PROVE  Edited(j, doc.root, SetInContainer(doc, j, n, reply).doc.root)
<1>1. ~j.isRoot /\ ToParent(j)
  BY DEF Whole, ToParent
<1>2. CASE j.p.type = "dict"
  <2>1. SetInContainer(doc, j, n, reply) = Changed(WithParent(j, Node_DictSet(j.p, LastKey(j), n)), reply)
    BY <1>1, <1>2 DEF SetInContainer
  <2>2. Edited(j, doc.root, WithParent(j, Node_DictSet(j.p, LastKey(j), n)))
    BY <1>1, <1>2, EditedParent
  <2> QED BY <2>1, <2>2, EditedParts
<1>3. CASE j.p.type = "array"
  <2> DEFINE m == [j.p EXCEPT !.entries[FromEnd(Len(j.p.entries), LastIndex(j)) + 1] = n]
  <2>1. SetInContainer(doc, j, n, reply) = Changed(WithParent(j, m), reply)
    BY <1>1, <1>3 DEF SetInContainer
  <2> HIDE DEF m
  <2>2. Edited(j, doc.root, WithParent(j, m))
    BY <1>3, EditedParent
  <2> QED BY <2>1, <2>2, EditedParts
<1> QED BY <1>2, <1>3, LastStep

\* Every command on documents changes what its path leads to, or nothing.
LEMMA SetEdits ==
    ASSUME NEW S, Trees(S), NEW j, Leads(j, S), ~Whole(j), NEW doc, NEW r
    PROVE  Edited(j, doc.root, JSONSet(doc, j, r).doc.root)
<1> DEFINE n == r.jsons[1]
           Fine(out) == Edited(j, doc.root, out.doc.root)
<1>1. Fine(Refuse(doc)) /\ \A reply : Fine(Answer(doc, reply))
  BY EditedParts
<1>2. j.err = "OK" => Fine(SetInContainer(doc, j, n, OK))
  BY SetInContainerEdits
<1>3. j.err = "NOKEY" /\ j.errlevel = Len(j.nodes) - 1 =>
        Fine(Changed(WithParent(j, Node_DictSet(j.p, LastKey(j), n)), OK))
  <2> HAVE j.err = "NOKEY" /\ j.errlevel = Len(j.nodes) - 1
  <2>1. ToParent(j) /\ j.p.type = "dict"
    BY LastStep DEF ToParent
  <2>2. Edited(j, doc.root, WithParent(j, Node_DictSet(j.p, LastKey(j), n)))
    BY <2>1, EditedParent
  <2> QED BY <2>2, EditedParts
<1> HIDE DEF Fine, n
<1>4. Fine(SetOnExisting(doc, j, n, r.flag))
  <2>1. CASE j.err \notin {"OK", "NOKEY"}
    BY <1>1, <2>1 DEF SetOnExisting
  <2>2. CASE j.err = "OK"
    BY <1>1, <1>2, <2>2 DEF SetOnExisting
  <2>3. CASE j.err = "NOKEY"
    BY <1>1, <1>3, <2>3 DEF SetOnExisting
  <2> QED BY <2>1, <2>2, <2>3
<1>5. Fine(SetOnNewKey(doc, j, n))
  BY <1>1 DEF SetOnNewKey, Whole
<1>6. Fine(JSONSet(doc, j, r))
  BY <1>1, <1>4, <1>5 DEF JSONSet, n
<1> QED BY <1>6 DEF Fine

\* JSON.DEL
LEMMA DelEdits ==
    ASSUME NEW S, Trees(S), NEW j, Leads(j, S), ~Whole(j), NEW doc, doc.type \in DocTypes, NEW r
    PROVE  Edited(j, doc.root, JSONDel(doc, j, r).doc.root)
<1> DEFINE count == LongLong(Len(r.paths))
           Fine(out) == Edited(j, doc.root, out.doc.root)
<1>1. /\ Fine(Refuse(doc)) /\ Fine(Crash(doc)) /\ \A reply : Fine(Answer(doc, reply))
      /\ Fine(Outcome(doc, "nothing", TRUE, <<LongLong(0)>>, FALSE))
      /\ \A n, reply : Edited(j, doc.root, n) => Fine(Changed(n, reply))
  BY EditedParts
<1> HIDE DEF Fine
<1>2. CASE doc.type # "json"
  <2>1. Fine(JSONDel(doc, j, r))
    BY <1>1, <1>2 DEF JSONDel, DocTypes
  <2> QED BY <2>1 DEF Fine
<1>3. CASE doc.type = "json" /\ (~j.ok \/ j.err = "BADTYPE")
  <2>1. Fine(JSONDel(doc, j, r))
    BY <1>1, <1>3 DEF JSONDel
  <2> QED BY <2>1 DEF Fine
<1>4. CASE doc.type = "json" /\ j.ok /\ j.err \in {"NOINDEX", "NOKEY"}
  <2>1. Fine(JSONDel(doc, j, r))
    BY <1>1, <1>4 DEF JSONDel
  <2> QED BY <2>1 DEF Fine
<1>5. CASE doc.type = "json" /\ j.ok /\ j.err = "OK" /\ j.p.type = "dict"
  <2>1. JSONDel(doc, j, r) = Changed(WithParent(j, Node_DictDel(j.p, LastKey(j))), count)
    BY <1>5 DEF JSONDel, Whole
  <2>2. Edited(j, doc.root, WithParent(j, Node_DictDel(j.p, LastKey(j))))
    BY <1>5, EditedParent
  <2> HIDE DEF count
  <2>3. Fine(JSONDel(doc, j, r))
    BY <1>1, <2>1, <2>2
  <2> QED BY <2>3 DEF Fine
<1>6. CASE doc.type = "json" /\ j.ok /\ j.err = "OK" /\ j.p.type = "array"
  <2> DEFINE m == [j.p EXCEPT !.entries = Node_ArrayDelRange(@, LastIndex(j), 1)]
  <2>1. JSONDel(doc, j, r) \in {Changed(WithParent(j, m), count), Crash(doc)}
    BY <1>6 DEF JSONDel, Whole
  <2> HIDE DEF m, count
  <2>2. Edited(j, doc.root, WithParent(j, m))
    BY <1>6, EditedParent
  <2>3. Fine(JSONDel(doc, j, r))
    BY <1>1, <2>1, <2>2
  <2> QED BY <2>3 DEF Fine
<1>7. j.err \in Errors /\ (j.err = "OK" => j.p.type \in {"dict", "array"})
  BY LastStep DEF Leads, Inside
<1> QED BY <1>2, <1>3, <1>4, <1>5, <1>6, <1>7 DEF Errors

\* and those that need a value there.
LEMMA ValueEdits ==
    ASSUME NEW S, Trees(S), NEW j, Leads(j, S), ~Whole(j), NEW doc, NEW r
    PROVE  /\ Edited(j, doc.root, JSONNum(doc, j, r).doc.root)
           /\ Edited(j, doc.root, JSONStrAppend(doc, j, r).doc.root)
           /\ Edited(j, doc.root, JSONArrInsert(doc, j, r).doc.root)
           /\ Edited(j, doc.root, JSONArrAppend(doc, j, r).doc.root)
           /\ Edited(j, doc.root, JSONArrPop(doc, j, r).doc.root)
           /\ Edited(j, doc.root, JSONArrTrim(doc, j, r).doc.root)
<1> DEFINE Fine(out) == Edited(j, doc.root, out.doc.root)
<1>1. /\ Fine(Refuse(doc)) /\ Fine(Crash(doc))
      /\ \A replies : Fine(Outcome(doc, "nothing", TRUE, replies, FALSE))
  BY EditedParts
<1>2. Resolves(doc, j) => \A n, reply : Fine(SetInContainer(doc, j, n, reply))
  BY SetInContainerEdits DEF Resolves
<1>3. ASSUME Resolves(doc, j), NEW x
      PROVE  /\ \A reply : Fine(Changed(WithNode(j, x), reply))
             /\ \A replies : Fine(Outcome(Json(WithNode(j, x)), "nothing", TRUE, replies, FALSE))
  <2>1. Edited(j, doc.root, WithNode(j, x))
    BY <1>3, EditedParts DEF Resolves
  <2>2. \A reply : Changed(WithNode(j, x), reply).doc.root = WithNode(j, x)
    BY RootOf
  <2>3. \A replies : Outcome(Json(WithNode(j, x)), "nothing", TRUE, replies, FALSE).doc.root
                        = WithNode(j, x)
    BY DEF Outcome, Json
  <2> QED BY <2>1, <2>2, <2>3
<1> HIDE DEF Fine
<1>4. Fine(JSONNum(doc, j, r))
  BY <1>1, <1>2 DEF JSONNum
<1>5. Fine(JSONStrAppend(doc, j, r))
  BY <1>1, <1>3 DEF JSONStrAppend
<1>6. Fine(JSONArrInsert(doc, j, r)) /\ Fine(JSONArrAppend(doc, j, r))
  BY <1>1, <1>3 DEF JSONArrInsert, JSONArrAppend
<1>7. Fine(JSONArrPop(doc, j, r))
  BY <1>1, <1>3 DEF JSONArrPop
<1>8. Fine(JSONArrTrim(doc, j, r))
  BY <1>1, <1>3 DEF JSONArrTrim
<1> QED BY <1>4, <1>5, <1>6, <1>7, <1>8 DEF Fine


\* The path of one dot, which is what a command without a path gets, is the root.
LEMMA DotIsRoot == Parsed[<<".">>].isRoot
<1> DEFINE z == <<".">>
           s == Step(z, Start, 1)
           g == Goto(Start, "ROOT")
           a == [g EXCEPT !.hasLeadingDot = @ \/ TRUE]
<1>1. Len(z) = 1 /\ z[1] = "."
  OBVIOUS
<1>2. Tokenize(z) = s
  <2> HIDE DEF z
  <2>1. Len(z) \in Nat /\ DOMAIN Places(z) = 1..Len(z)
    BY <1>1 DEF Places
  <2>2. PICK t : /\ Reading!Traces(Start, t, Places(z), Len(z))
                 /\ Reading!FoldLeft(ReadAt, Start, Places(z)) = t[Len(z)]
    BY <2>1, Reading!FoldLeftTrace
  <2>3. t[0] = Start /\ \A i \in 1..Len(z) : t[i] = Step(z, t[i - 1], i)
    BY <2>2 DEF Reading!Traces, Places, ReadAt
  <2>4. Tokenize(z) = t[Len(z)]
    BY <2>2 DEF Tokenize, FoldLeft, Reading!FoldLeft, MapThenFoldSet,
                Reading!MapThenFoldSet, Max, Reading!Max
  <2> QED BY <1>1, <2>3, <2>4
<1>3. a \in TypedStates /\ a.st = "ROOT" /\ a.err = FALSE /\ a.nodes = <<>>
  <2>1. <<>> \in Seq(Chars) /\ <<>> \in Seq(PathNodes) /\ "NULL" \in StateNames /\ "ROOT" \in StateNames
    BY DEF StateNames
  <2>2. Start \in TypedStates /\ Start.err = FALSE /\ Start.nodes = <<>>
    BY <2>1 DEF Start, TypedStates
  <2>3. g \in TypedStates /\ g.st = "ROOT" /\ g.err = FALSE /\ g.nodes = <<>>
    BY <2>1, <2>2 DEF Goto, TypedStates
  <2> HIDE DEF g
  <2> QED BY <2>3 DEF TypedStates
<1>4. Start.st = "NULL" /\ Start.err = FALSE /\ Start.skip = FALSE
  BY DEF Start
<1> HIDE DEF g
<1>5. Transition(z, 1, Start) = a
  <2>1. AtNull(Start, ".", TRUE) = a
    <3>1. ~IdentFirst(".")
      BY LettersAssumption DEF IdentFirst, Marks
    <3> QED BY <3>1, Zenon DEF AtNull, g
  <2> HIDE DEF a, z
  <2> QED BY <1>1, <1>4, <2>1 DEF Transition
<1> HIDE DEF a
<1>6. AtEnd(z, 1, a) = EndToken(a, RootNode, "NULL")
  BY <1>1, <1>3 DEF AtEnd, KeyOrRoot
<1>7. s = EndToken(a, RootNode, "NULL")
  BY <1>4, <1>5, <1>6 DEF Step
<1>8. s.nodes = <<RootNode>>
  <2>1. EndToken(a, RootNode, "NULL").nodes = Append(<<>>, RootNode)
    BY <1>3 DEF EndToken, TypedStates
  <2>2. \A e : Append(<<>>, e) = <<e>>
    OBVIOUS
  <2> QED BY <1>7, <2>1, <2>2
<1> HIDE DEF s
<1>9. SearchPath_IsRootPath(ParseJSONPath(z).nodes)
  BY <1>2, <1>8 DEF ParseJSONPath, SearchPath_IsRootPath, RootNode
<1>10. z \in RequestPaths
  BY DEF RequestPaths
<1> QED BY <1>9, <1>10 DEF Parsed

\* Whatever a command makes of a document, the paths that part from its own
\* find the same in it.
LEMMA WriteApart ==
    ASSUME NEW S, Stock(S), NEW r \in Requests, r.cmd \in WriteCommands,
           NEW doc, doc.root \in S, doc.type \in DocTypes,
           NEW q \in RequestPaths, PartAtKeys(q, PathArg(r))
    PROVE  LET new == WriteOutcome(doc, r).doc.root
           IN  /\ NodeFromJSONPath(new, q).n = NodeFromJSONPath(doc.root, q).n
               /\ NodeFromJSONPath(new, q).err = NodeFromJSONPath(doc.root, q).err
<1> DEFINE path == PathArg(r)
           root == LookedUpIn(doc, r)
           j == NodeFromJSONPath(root, path)
           out == HandlerOutcome(doc, j, r)
<1>1. path \in RequestPaths /\ Trees(S) /\ NullNode \in S
  BY RequestParts DEF Stock
<1>2. ~Whole(j)
  <2> HIDE DEF path, root
  <2>1. PartAtKeys(q, path)
    BY DEF path
  <2> QED BY <1>1, <2>1, PartedPaths
<1>3. CASE r.cmd \in {"DEL", "SET"}
  <2>1. path = <<".">>
    BY <1>3, RequestsAssumption DEF PathArg
  <2>2. j.isRoot = Parsed[path].isRoot
    <3> HIDE DEF path, root
    <3> QED BY <1>1, FoundFields
  <2> QED BY <1>2, <2>1, <2>2, DotIsRoot DEF Whole
<1>4. CASE r.cmd = "JSON.SET" /\ doc.type = "empty"
  <2> HIDE DEF j
  <2>1. out = JSONSet(doc, j, r)
    BY <1>4 DEF HandlerOutcome
  <2>2. SetOnNewKey(doc, j, r.jsons[1]) = Refuse(doc)
    BY <1>2 DEF SetOnNewKey, Whole
  <2>3. out \in {Refuse(doc), Answer(doc, Null)}
    BY <1>4, <2>1, <2>2 DEF JSONSet
  <2> HIDE DEF out
  <2>4. out.doc.root = doc.root
    BY <2>3, RootOf
  <2> QED BY <2>4 DEF WriteOutcome, out, j
<1>5. CASE r.cmd \notin {"DEL", "SET"} /\ ~(r.cmd = "JSON.SET" /\ doc.type = "empty")
  <2>1. root = doc.root
    BY <1>5 DEF LookedUpIn
  <2>2. Leads(j, S)
    <3> HIDE DEF path, root
    <3> QED BY <1>1, <2>1, FoundTrees
  <2> HIDE DEF j
  <2>3. Edited(j, doc.root, out.doc.root)
    <3>1. CASE r.cmd = "JSON.SET"
      BY <1>1, <1>2, <2>2, <3>1, SetEdits DEF HandlerOutcome
    <3>2. CASE r.cmd = "JSON.DEL"
      BY <1>1, <1>2, <2>2, <3>2, DelEdits DEF HandlerOutcome
    <3>3. CASE r.cmd \in WriteCommands \ {"JSON.SET", "JSON.DEL", "DEL", "SET"}
      BY <1>1, <1>2, <2>2, <3>3, ValueEdits DEF HandlerOutcome, WriteCommands
    <3> QED BY <1>5, <3>1, <3>2, <3>3
  <2> DEFINE new == out.doc.root
  <2>4. WriteOutcome(doc, r).doc.root = new
    BY DEF WriteOutcome, j
  <2>5. Edited(NodeFromJSONPath(doc.root, path), doc.root, new)
    BY <2>1, <2>3 DEF j
  <2> HIDE DEF new, path, root, out
  <2>6. PartAtKeys(q, path)
    BY DEF path
  <2>7. /\ NodeFromJSONPath(new, q).n = NodeFromJSONPath(doc.root, q).n
        /\ NodeFromJSONPath(new, q).err = NodeFromJSONPath(doc.root, q).err
    BY <1>1, <2>5, <2>6, EditApart
  <2> QED BY <2>4, <2>7
<1> QED BY <1>3, <1>4, <1>5

\* A command changes no document but the one of its key, and nothing in that
\* one that a path leads to which parts from the command's at two keys: the
\* entry that Node_DictDel moves is found under its key all the same.
THEOREM OthersAlwaysUntouched ==
    ASSUME ArgumentsAreTrees
    PROVE  Spec => OthersUntouched
<1> DEFINE Seen(k, q, docs) == NodeFromJSONPath(docs[k].root, q)
           A == db' # db => \A k \in Keys, q \in ProbePaths :
                    k # KeyOf(last'.req) \/ PartAtKeys(q, PathArg(last'.req))
                        => /\ Seen(k, q, db').n = Seen(k, q, db).n
                           /\ Seen(k, q, db').err = Seen(k, q, db).err
<1>1. Grounded /\ [Next]_vars => A
  <2> SUFFICES ASSUME Grounded, [Next]_vars, db' # db PROVE A
    OBVIOUS
  <2>1. PICK r \in Requests : r.cmd \in WriteCommands /\ Write(r)
    <3>1. Quiet \/ (\E r : RewriteAof(r)) \/ ReplicaApply => db' = db
      BY DEF Quiet, RewriteAof, ReplicaApply
    <3> QED BY <3>1, Steps
  <2>2. /\ db' = [db EXCEPT ![KeyOf(r)] = WriteOutcome(db[KeyOf(r)], r).doc]
        /\ last'.req = r
    BY <2>1 DEF Write, Commit, Replied
  <2>3. KeyOf(r) \in Keys
    BY RequestParts
  <2>4. PICK S : Stock(S) /\ \A k \in Keys : db[k].root \in S
    BY DEF Grounded
  <2>5. Documents(db)
    BY DEF Grounded
  <2>6. ASSUME NEW k \in Keys, k # KeyOf(r) PROVE db'[k] = db[k]
    BY <2>2, <2>5, <2>6 DEF Documents
  <2>7. db'[KeyOf(r)] = WriteOutcome(db[KeyOf(r)], r).doc
    BY <2>2, <2>3, <2>5 DEF Documents
  <2>8. ProbePaths \subseteq RequestPaths
    BY RequestParts DEF ProbePaths
  <2>9. ASSUME NEW q \in ProbePaths, PartAtKeys(q, PathArg(r))
        PROVE  /\ Seen(KeyOf(r), q, db').n = Seen(KeyOf(r), q, db).n
               /\ Seen(KeyOf(r), q, db').err = Seen(KeyOf(r), q, db).err
    <3> DEFINE doc == db[KeyOf(r)]
    <3>1. doc.root \in S /\ doc.type \in DocTypes /\ q \in RequestPaths
      BY <2>3, <2>4, <2>5, <2>8 DEF Documents
    <3> HIDE DEF doc
    <3>2. LET new == WriteOutcome(doc, r).doc.root
          IN  /\ NodeFromJSONPath(new, q).n = NodeFromJSONPath(doc.root, q).n
              /\ NodeFromJSONPath(new, q).err = NodeFromJSONPath(doc.root, q).err
      BY <2>1, <2>4, <2>9, <3>1, WriteApart
    <3> QED BY <2>7, <3>2 DEF doc
  <2> HIDE DEF Seen
  <2>10. ASSUME NEW k \in Keys, NEW q \in ProbePaths,
                k # KeyOf(r) \/ PartAtKeys(q, PathArg(r))
         PROVE  Seen(k, q, db').n = Seen(k, q, db).n /\ Seen(k, q, db').err = Seen(k, q, db).err
    <3>1. CASE k = KeyOf(r)
      BY <2>9, <2>10, <3>1
    <3>2. CASE k # KeyOf(r)
      BY <2>6, <3>2 DEF Seen
    <3> QED BY <3>1, <3>2
  <2> QED BY <2>2, <2>10
<1>2. Grounded /\ [Next]_vars =>
        [db' # db => \A k \in Keys, q \in ProbePaths :
            k # KeyOf(last'.req) \/ PartAtKeys(q, PathArg(last'.req))
                => /\ NodeFromJSONPath(db'[k].root, q).n = NodeFromJSONPath(db[k].root, q).n
                   /\ NodeFromJSONPath(db'[k].root, q).err
                        = NodeFromJSONPath(db[k].root, q).err]_vars
  BY <1>1
<1> QED BY <1>2, AlwaysGrounded, PTL DEF Spec, OthersUntouched

-----------------------------------------------------------------------------
(* The cached texts.                                                       *)

\* The paths whose serialization JSON.GET caches, and those of the commands
\* that write.
CachedPaths == {r.paths[1] : r \in {q \in RequestsOf({"JSON.GET"}) : CachableOptions(q)}}
ChangedPaths == {PathArg(r) : r \in RequestsOf(WriteCommands)}

\* The loop over several paths would cache what it has written so far.
SinglePathsCached == \A r \in RequestsOf({"JSON.GET"}) : CachableOptions(r) => Len(r.paths) = 1

\* JSON.ARRPOP and JSON.STRAPPEND change a value and clear nothing.
ClearingCommands == RequestsOf({"JSON.ARRPOP", "JSON.STRAPPEND"}) = {}

\* A changed path and a cached one that part, part at two keys: a deletion
\* would move the values behind it to other indexes, which no comparison of
\* paths sees, nor that two spellings name one value.
PathsKnownApart ==
    \A p \in ChangedPaths, q \in CachedPaths :
        Related(CachePath(p), CachePath(q)) \/ PartAtKeys(q, p)

\* Where a handler clears nothing it has changed nothing, and where it clears
\* the path it leaves a JSON document.
Cleaned(out, doc) ==
    /\ out.clear = "nothing" => out.doc = doc
    /\ out.clear = "path" => out.doc.type = "json"

\* The outcomes that handlers are made of.
LEMMA CleanedParts ==
    ASSUME NEW doc
    PROVE  /\ \A reply : Cleaned(Answer(doc, reply), doc)
           /\ Cleaned(Refuse(doc), doc) /\ Cleaned(Crash(doc), doc)
           /\ \A replies : Cleaned(Outcome(doc, "nothing", TRUE, replies, FALSE), doc)
           /\ \A d, replies : Cleaned(Outcome(d, "document", TRUE, replies, FALSE), doc)
           /\ \A root, reply : Cleaned(Changed(root, reply), doc)
  BY DEF Cleaned, Answer, Refuse, Crash, Changed, Outcome, Json

\* A value set in its container.
LEMMA SetInContainerCleaned ==
    ASSUME NEW doc, NEW j, NEW n, NEW reply
    PROVE  Cleaned(SetInContainer(doc, j, n, reply), doc)
  BY CleanedParts DEF SetInContainer

\* The handlers of JSON.SET and JSON.DEL,
LEMMA SetDelCleaned ==
    ASSUME NEW doc, doc.type \in DocTypes, NEW j, j.err \in Errors, NEW r
    PROVE  Cleaned(JSONSet(doc, j, r), doc) /\ Cleaned(JSONDel(doc, j, r), doc)
<1> DEFINE n == r.jsons[1]
<1>1. Cleaned(SetOnNewKey(doc, j, n), doc)
  BY CleanedParts DEF SetOnNewKey
<1>2. Cleaned(SetOnExisting(doc, j, n, r.flag), doc)
  <2> HIDE DEF n
  <2> QED BY CleanedParts, SetInContainerCleaned DEF SetOnExisting, Errors
<1>3. Cleaned(JSONSet(doc, j, r), doc)
  BY <1>1, <1>2, CleanedParts DEF JSONSet
<1>4. CASE doc.type # "json"
  BY <1>3, <1>4, CleanedParts DEF JSONDel, DocTypes
<1>5. CASE doc.type = "json"
  <2>1. CASE ~j.ok \/ j.err = "BADTYPE"
    BY <1>3, <1>5, <2>1, CleanedParts DEF JSONDel
  <2>2. CASE j.ok /\ j.err \in {"NOINDEX", "NOKEY"}
    BY <1>3, <1>5, <2>2, CleanedParts DEF JSONDel
  <2>3. CASE j.ok /\ j.err = "OK"
    BY <1>3, <1>5, <2>3, CleanedParts DEF JSONDel
  <2> QED BY <2>1, <2>2, <2>3 DEF Errors
<1> QED BY <1>4, <1>5

\* and those of the other commands that clear the cache.
LEMMA OthersCleaned ==
    ASSUME NEW doc, NEW j, NEW r
    PROVE  /\ Cleaned(JSONNum(doc, j, r), doc)
           /\ Cleaned(JSONArrInsert(doc, j, r), doc)
           /\ Cleaned(JSONArrAppend(doc, j, r), doc)
           /\ Cleaned(JSONArrTrim(doc, j, r), doc)
           /\ Cleaned(ServerCommand(r), doc)
<1>1. Cleaned(JSONNum(doc, j, r), doc)
  BY CleanedParts, SetInContainerCleaned DEF JSONNum
<1>2. Cleaned(JSONArrInsert(doc, j, r), doc)
  BY CleanedParts DEF JSONArrInsert
<1>3. Cleaned(JSONArrAppend(doc, j, r), doc)
  BY CleanedParts DEF JSONArrAppend
<1>4. Cleaned(JSONArrTrim(doc, j, r), doc)
  BY CleanedParts DEF JSONArrTrim
<1>5. Cleaned(ServerCommand(r), doc)
  BY CleanedParts DEF ServerCommand
<1> QED BY <1>1, <1>2, <1>3, <1>4, <1>5

\* So whatever the command, its path and the document.
LEMMA WriteCleaned ==
    ASSUME NEW r \in Requests, r.cmd \in WriteCommands \ {"JSON.ARRPOP", "JSON.STRAPPEND"},
           NEW doc, doc.type \in DocTypes
    PROVE  Cleaned(WriteOutcome(doc, r), doc)
<1> DEFINE j == NodeFromJSONPath(LookedUpIn(doc, r), PathArg(r))
<1>1. j.err \in Errors
  BY RequestParts, LookupErrors
<1> HIDE DEF j
<1>2. Cleaned(HandlerOutcome(doc, j, r), doc)
  BY <1>1, SetDelCleaned, OthersCleaned DEF HandlerOutcome, WriteCommands
<1> QED BY <1>2 DEF WriteOutcome, j

\* A cached path is one of a request, and the string it is cached under leads
\* to the same value.
LEMMA CachedLookup ==
    ASSUME NEW q \in RequestPaths, NEW root, NodeFromJSONPath(root, q).ok
    PROVE  LET j == NodeFromJSONPath(root, q)
               k == NodeFromJSONPath(root, CachePath(q))
           IN  k.ok /\ k.n = j.n /\ k.err = j.err
<1> DEFINE a == Parsed[q]
           b == Parsed[CachePath(q)]
           m == ParseJSONPath(q)
           n == ParseJSONPath(CachePath(q))
<1>1. a = [ok |-> m.ok, nodes |-> m.nodes, isRoot |-> SearchPath_IsRootPath(m.nodes)]
  BY DEF Parsed
<1>2. b = [ok |-> n.ok, nodes |-> n.nodes, isRoot |-> SearchPath_IsRootPath(n.nodes)]
  BY DEF Parsed
<1>3. a.ok
  BY FoundFields
<1> HIDE DEF a, b
<1>4. n.ok /\ (n.nodes = m.nodes \/ (SearchPath_IsRootPath(m.nodes) /\ n.nodes = <<>>))
  BY <1>1, <1>3, PathChars, CachePathReads
<1> HIDE DEF m, n
<1>5. b.ok /\ PathOf(b) = PathOf(a)
  BY <1>1, <1>2, <1>4 DEF PathOf
<1>6. NodeFromJSONPath(root, q) = FoundBy(a, root)
      /\ NodeFromJSONPath(root, CachePath(q)) = FoundBy(b, root)
  BY DEF NodeFromJSONPath, a, b
<1>7. FoundBy(b, root).ok /\ FoundBy(b, root).n = FoundBy(a, root).n
      /\ FoundBy(b, root).err = FoundBy(a, root).err
  BY <1>5 DEF FoundBy
<1> QED BY <1>6, <1>7

\* A cached text is that of the value one of these paths leads to.
Right(c, docs) ==
    /\ c.key \in Keys
    /\ \E q \in CachedPaths :
            LET j == NodeFromJSONPath(docs[c.key].root, q)
            IN  c.path = CachePath(q) /\ Resolves(docs[c.key], j) /\ c.text = TextOf(j.n)

Cached == multi = Idle /\ \A c \in cache : Right(c, db)

\* A JSON.GET with one path is about a path of these.
LEMMA GetParts ==
    ASSUME NEW r \in RequestsOf({"JSON.GET"}), CachableOptions(r)
    PROVE  /\ r \in Requests /\ r.cmd = "JSON.GET" /\ KeyOf(r) \in Keys
           /\ PathArg(r) \in CachedPaths /\ PathArg(r) \in RequestPaths
           /\ GetPaths(r) = r.paths /\ 1 \in DOMAIN r.paths /\ PathArg(r) = r.paths[1]
<1>1. r \in Requests /\ r.cmd = "JSON.GET" /\ r.paths # <<>>
  BY DEF RequestsOf, CachableOptions
<1>2. r.paths \in Seq(Seq(STRING))
  BY <1>1, RequestsAssumption
<1>3. 1 \in DOMAIN r.paths
  BY <1>1, <1>2
<1>4. PathArg(r) = r.paths[1] /\ GetPaths(r) = r.paths
  BY <1>1 DEF PathArg, GetPaths
<1>5. PathArg(r) \in CachedPaths
  BY <1>4 DEF CachedPaths
<1> QED BY <1>1, <1>3, <1>4, <1>5, RequestParts

\* A writing command leaves no text that is not right: it has changed another
\* document, nothing, or what lies apart from the paths it has not cleared.
LEMMA WriteKeepsRight ==
    ASSUME ClearingCommands, PathsKnownApart, Grounded, Cached,
           NEW r \in Requests, r.cmd \in WriteCommands, Write(r),
           NEW c \in cache'
    PROVE  Right(c, db')
<1> DEFINE key == KeyOf(r)
           doc == db[key]
           out == WriteOutcome(doc, r)
<1>1. /\ db' = [db EXCEPT ![key] = out.doc]
      /\ cache' = Cleared(key, PathArg(r), out.clear)
  BY DEF Write, Commit
<1>2. PICK S : Stock(S) /\ \A k \in Keys : db[k].root \in S
  BY DEF Grounded
<1>3. key \in Keys /\ PathArg(r) \in RequestPaths
  BY RequestParts
<1>4. Documents(db)
  BY DEF Grounded
<1>5. doc.type \in DocTypes /\ doc.root \in S
  BY <1>2, <1>3, <1>4 DEF Documents
<1> HIDE DEF key
<1>6. db'[key] = out.doc /\ \A k \in Keys : k # key => db'[k] = db[k]
  BY <1>1, <1>3, <1>4 DEF Documents
<1>7. Cleaned(out, doc)
  <2>1. r.cmd \notin {"JSON.ARRPOP", "JSON.STRAPPEND"}
    BY DEF ClearingCommands, RequestsOf
  <2> HIDE DEF doc
  <2> QED BY <1>5, <2>1, WriteCleaned
<1>8. PathArg(r) \in ChangedPaths
  BY DEF ChangedPaths, RequestsOf
<1>9. c \in cache /\ (\/ c.key # key \/ out.clear = "nothing"
                      \/ out.clear = "path" /\ ~Related(CachePath(PathArg(r)), c.path))
  <2> HIDE DEF out
  <2> QED BY <1>1 DEF Cleared
<1>10. Right(c, db)
  BY <1>9 DEF Cached
<1>11. c.key \in Keys
  BY <1>10 DEF Right
<1> HIDE DEF out, doc
<1>12. CASE db'[c.key] = db[c.key]
  BY <1>10, <1>12 DEF Right
<1>13. CASE /\ c.key = key /\ out.clear = "path"
            /\ ~Related(CachePath(PathArg(r)), c.path)
  <2>1. PICK q \in CachedPaths :
            LET j == NodeFromJSONPath(doc.root, q)
            IN  c.path = CachePath(q) /\ Resolves(doc, j) /\ c.text = TextOf(j.n)
    BY <1>10, <1>13 DEF Right, doc
  <2>2. q \in RequestPaths
    <3>1. PICK g \in RequestsOf({"JSON.GET"}) : CachableOptions(g) /\ q = g.paths[1]
      BY DEF CachedPaths
    <3> QED BY <3>1, GetParts
  <2>3. PartAtKeys(q, PathArg(r))
    BY <1>8, <1>13, <2>1 DEF PathsKnownApart
  <2>4. /\ NodeFromJSONPath(out.doc.root, q).n = NodeFromJSONPath(doc.root, q).n
        /\ NodeFromJSONPath(out.doc.root, q).err = NodeFromJSONPath(doc.root, q).err
    BY <1>2, <1>5, <2>2, <2>3, WriteApart DEF out
  <2>5. NodeFromJSONPath(out.doc.root, q).ok = NodeFromJSONPath(doc.root, q).ok
    BY <2>2, FoundFields
  <2>6. out.doc.type = "json"
    BY <1>7, <1>13 DEF Cleaned
  <2>7. Resolves(out.doc, NodeFromJSONPath(out.doc.root, q))
    BY <2>1, <2>4, <2>5, <2>6 DEF Resolves
  <2> QED BY <1>6, <1>11, <1>13, <2>1, <2>4, <2>7 DEF Right
<1>14. CASE c.key # key \/ out.clear = "nothing"
  <2>1. out.clear = "nothing" => out.doc = doc
    BY <1>7 DEF Cleaned
  <2> QED BY <1>6, <1>11, <1>12, <1>14, <2>1 DEF doc
<1> QED BY <1>9, <1>13, <1>14

\* JSON.GET adds the text of what its path leads to, and nothing else.
LEMMA GetKeepsRight ==
    ASSUME Cached, NEW r \in RequestsOf({"JSON.GET"}), GetSingle(r)
    PROVE  Cached'
<1> DEFINE p == PathArg(r)
           key == KeyOf(r)
           n == Target(key, p).n
           new == [key |-> key, path |-> CachePath(p), text |-> TextOf(n)]
<1>1. CachableOptions(r) /\ GetResolves(r) /\ db' = db /\ multi' = multi
  BY DEF GetSingle
<1>2. key \in Keys /\ p \in CachedPaths /\ GetPaths(r) = r.paths /\ 1 \in DOMAIN r.paths
      /\ p = r.paths[1]
  BY <1>1, GetParts
<1>3. Resolves(db[key], Target(key, p))
  <2> HIDE DEF p
  <2> QED BY <1>1, <1>2 DEF GetResolves
<1>4. cache' = cache \/ (\E victims \in SUBSET cache : cache' = (cache \ victims) \cup {new})
  BY DEF GetSingle, Fill
<1> HIDE DEF p, key
<1>5. Right(new, db)
  <2>1. new.key = key /\ new.path = CachePath(p) /\ new.text = TextOf(n)
    OBVIOUS
  <2> HIDE DEF new
  <2> QED BY <1>2, <1>3, <2>1 DEF Right, Target
<1> HIDE DEF new
<1>6. \A c \in cache' : c \in cache \/ c = new
  BY <1>4
<1>7. \A c \in cache' : Right(c, db)
  BY <1>5, <1>6 DEF Cached
<1> QED BY <1>1, <1>7 DEF Cached

\* So every step leaves a cache of right texts.
LEMMA CachedKept ==
    ASSUME SinglePathsCached, ClearingCommands, PathsKnownApart,
           Grounded, Cached, [Next]_vars
    PROVE  Cached'
<1>1. multi = Idle
  BY DEF Cached
<1>2. ASSUME NEW r \in Requests, r.cmd \in WriteCommands, Write(r) PROVE Cached'
  <2>1. multi' = multi
    BY <1>2 DEF Write, Commit
  <2>2. \A c \in cache' : Right(c, db')
    BY <1>2, WriteKeepsRight
  <2> QED BY <1>1, <2>1, <2>2 DEF Cached
<1>3. ASSUME UNCHANGED <<db, cache, multi>> PROVE Cached'
  BY <1>3 DEF Cached, Right
<1>4. ASSUME NEW r, ReadCommand(r) \/ GetRefused(r) \/ GetUncached(r) PROVE Cached'
  BY <1>3, <1>4, Readings
<1>5. ASSUME NEW r \in RequestsOf({"JSON.GET"}), MultiBegin(r) PROVE FALSE
  <2>1. CachableOptions(r) /\ Len(r.paths) > 1
    BY <1>5, Zenon DEF MultiBegin
  <2>2. Len(r.paths) = 1
    BY <2>1 DEF SinglePathsCached
  <2> QED BY <2>1, <2>2
<1>6. ASSUME MultiStep \/ MultiEnd PROVE FALSE
  <2>1. multi # Idle
    BY <1>6, Zenon DEF MultiStep, MultiEnd
  <2> QED BY <1>1, <2>1
<1>7. ASSUME NEW r, RewriteAof(r) PROVE Cached'
  BY <1>3, <1>7 DEF RewriteAof
<1>8. ASSUME ReplicaApply PROVE Cached'
  BY <1>3, <1>8 DEF ReplicaApply
<1>9. ASSUME UNCHANGED vars PROVE Cached'
  BY <1>3, <1>9 DEF vars
<1> QED BY <1>2, <1>4, <1>5, <1>6, <1>7, <1>8, <1>9, GetKeepsRight, Commands

\* No JSON.GET ever takes a stale text from the cache: after any sequence of
\* commands each cached text is that of the value its path leads to now.  What
\* the comparison of path strings in shouldClearPath needs for it are the
\* hypotheses; the code keeps to none of them by itself.
THEOREM CacheAlwaysCoherent ==
    ASSUME ArgumentsAreTrees, SinglePathsCached, ClearingCommands, PathsKnownApart
    PROVE  Spec => []CacheCoherent
<1>1. Init => Cached
  BY DEF Init, Cached
<1>2. Grounded /\ Cached /\ [Next]_vars => Cached'
  BY CachedKept
<1>3. Cached => CacheCoherent
  <2> SUFFICES ASSUME Cached, NEW c \in cache
               PROVE  LET j == Target(c.key, c.path)
                      IN  Resolves(db[c.key], j) /\ c.text = TextOf(j.n)
    BY DEF CacheCoherent
  <2>1. PICK q \in CachedPaths :
            LET j == NodeFromJSONPath(db[c.key].root, q)
            IN  c.path = CachePath(q) /\ Resolves(db[c.key], j) /\ c.text = TextOf(j.n)
    BY DEF Cached, Right
  <2>2. q \in RequestPaths
    <3>1. PICK g \in RequestsOf({"JSON.GET"}) : CachableOptions(g) /\ q = g.paths[1]
      BY DEF CachedPaths
    <3> QED BY <3>1, GetParts
  <2>3. LET j == NodeFromJSONPath(db[c.key].root, q)
            k == NodeFromJSONPath(db[c.key].root, CachePath(q))
        IN  k.ok /\ k.n = j.n /\ k.err = j.err
    BY <2>1, <2>2, CachedLookup DEF Resolves
  <2> QED BY <2>1, <2>3 DEF Target, Resolves
<1> QED BY <1>1, <1>2, <1>3, AlwaysGrounded, PTL DEF Spec
=============================================================================
