--------------------------- MODULE JsonPathProofs ---------------------------
(***************************************************************************)
(* Theorems about the path tokenizer: the array of the search path has     *)
(* room for every node written to it, the string by which the cache knows  *)
(* a path means what the path means, and every path written as             *)
(* docs/path.md says is understood.                                        *)
(***************************************************************************)
EXTENDS MCJsonPath, TokenizerProofs

-----------------------------------------------------------------------------
(* Strings are sequences of characters.                                    *)

Typed == json \in Seq(Chars)

\* Sequences of one and of two elements, and one after another.
LEMMA ShortSeqs ==
    ASSUME NEW S, NEW a \in S, NEW b \in S
    PROVE  <<>> \in Seq(S) /\ <<a>> \in Seq(S) /\ <<a, b>> \in Seq(S)
  OBVIOUS

\* Two sequences put together are one over the same set.
LEMMA Concatenated ==
    ASSUME NEW S, NEW s \in Seq(S), NEW t \in Seq(S)
    PROVE  s \o t \in Seq(S)
  OBVIOUS

\* The string read is one of characters.
LEMMA AlwaysTyped == Spec => []Typed
<1>1. Init => Typed
  BY DEF Init, Typed
<1>2. ASSUME Typed, [Next]_<<json, nodes>> PROVE Typed'
  <2> USE DEF Typed
  <2>1. ASSUME NEW c \in Alphabet, AddChar(c) PROVE Typed'
    <3>1. c \in Chars
      BY AlphabetAssumption DEF Chars
    <3> QED BY <1>2, <2>1, <3>1 DEF AddChar
  <2>2. \A k \in Names : k \in Seq(Chars)
    <3>1. Letters \cup {"$", "_"} \cup DOMAIN DigitValue \subseteq Chars
      BY DEF Chars
    <3> QED BY <3>1, NamesAssumption, WiderSeq
  <2>3. "." \in Chars /\ "[" \in Chars /\ "]" \in Chars /\ "\"" \in Chars /\ "'" \in Chars
    BY DEF Chars, Marks
  <2>4. ASSUME NEW k \in Names, NEW dot \in {<<>>, <<".">>}, AddDotted(k, dot) PROVE Typed'
    <3>1. dot \in Seq(Chars)
      BY <2>3, ShortSeqs
    <3>2. json \o dot \in Seq(Chars)
      BY <1>2, <3>1, Concatenated
    <3>3. (json \o dot) \o k \in Seq(Chars)
      BY <2>2, <3>2, Concatenated
    <3> QED BY <2>4, <3>3 DEF AddDotted
  <2>5. ASSUME NEW k \in Names, NEW q \in {"\"", "'"}, AddQuoted(k, q) PROVE Typed'
    <3>1. <<"[", q>> \in Seq(Chars) /\ <<q, "]">> \in Seq(Chars)
      BY <2>3, ShortSeqs
    <3>2. json \o <<"[", q>> \in Seq(Chars)
      BY <1>2, <3>1, Concatenated
    <3>3. (json \o <<"[", q>>) \o k \in Seq(Chars)
      BY <2>2, <3>2, Concatenated
    <3>4. ((json \o <<"[", q>>) \o k) \o <<q, "]">> \in Seq(Chars)
      BY <3>1, <3>3, Concatenated
    <3> QED BY <2>5, <3>4 DEF AddQuoted
  <2>8. ASSUME NEW num \in Numbers, AddIndex(num) PROVE Typed'
    <3>1. num.text \in Seq(Chars)
      <4>1. {"-"} \cup DOMAIN DigitValue \subseteq Chars
        BY DEF Chars, Marks
      <4> QED BY <4>1, NumbersAssumption, WiderSeq
    <3>2. json \o <<"[">> \in Seq(Chars)
      BY <1>2, <2>3, ShortSeqs, Concatenated
    <3>3. (json \o <<"[">>) \o num.text \in Seq(Chars)
      BY <3>1, <3>2, Concatenated
    <3>4. ((json \o <<"[">>) \o num.text) \o <<"]">> \in Seq(Chars)
      BY <2>3, <3>3, ShortSeqs, Concatenated
    <3> QED BY <2>8, <3>4 DEF AddIndex
  <2>6. CASE StartOver
    BY <2>6 DEF StartOver
  <2>7. CASE UNCHANGED <<json, nodes>>
    BY <1>2, <2>7
  <2> QED BY <1>2, <2>1, <2>4, <2>5, <2>6, <2>7, <2>8 DEF Next
<1> QED BY <1>1, <1>2, PTL DEF Spec

\* __searchPath_append writes behind the array it allocated if a path has more
\* nodes than the capacity may grow to, and otherwise never: the capacity,
\* doubled from nothing up to the limit, is neither behind the number of nodes
\* below the limit nor ever beyond the limit.
THEOREM NodesAlwaysFit == Spec => []NodesFitCapacity
<1>1. ASSUME Typed PROVE NodesFitCapacity
  <2>1. PICK t : Reads(t, json) /\ Tokenize(json) = t[Len(json)]
    BY <1>1, ReadsAll DEF Typed
  <2>2. Len(json) \in 0..Len(json)
    BY <1>1 DEF Typed
  <2>3. Tokenize(json) \in States /\ Fits(Tokenize(json))
    BY <1>1, <2>1, <2>2, ReadsFit DEF Typed
  <2>4. Tokenize(json).cap \in 0..CapLimit /\ Len(Tokenize(json).nodes) \in Nat
    BY <2>3 DEF States
  <2>5. Len(Tokenize(json).nodes) <= Tokenize(json).cap <=> Len(Tokenize(json).nodes) <= CapLimit
    BY <2>3, <2>4, CapLimitAssumption DEF Fits
  <2> QED BY <2>5 DEF NodesFitCapacity, Parsed, ParseJSONPath
<1> QED BY <1>1, AlwaysTyped, PTL

\* The string by which getSerializedJson and maybeClearPathCache know a path,
\* the path without a leading dot, is accepted and resolves to the same value
\* as the path, whatever string the tokenizer accepted: two paths that share an
\* entry of the cache share the value.  Nothing is said of the paths that
\* NodesAlwaysFit finds to be written behind their array.
THEOREM CachePathAlwaysFaithful == Spec => []CachePathFaithful
<1>1. ASSUME Typed, Parsed.ok
      PROVE  /\ ParseJSONPath(CachePath(json)).ok
             /\ Resolved(ParseJSONPath(CachePath(json))) = Resolved(Parsed)
  <2>1. /\ ParseJSONPath(CachePath(json)).ok
        /\ \/ ParseJSONPath(CachePath(json)).nodes = Parsed.nodes
           \/ SearchPath_IsRootPath(Parsed.nodes) /\ ParseJSONPath(CachePath(json)).nodes = <<>>
    BY <1>1, CachePathReads DEF Typed, Parsed
  <2> QED BY <2>1 DEF Resolved
<1>2. ASSUME Typed PROVE CachePathFaithful
  BY <1>1, <1>2 DEF CachePathFaithful
<1> QED BY <1>2, AlwaysTyped, PTL

-----------------------------------------------------------------------------
(* Paths written as docs/path.md says.                                     *)

\* The characters of z up to the n-th take the tokenizer to the state s,
\* whatever the characters behind them, but for a token that ends with the
\* string.
Course(z, n, s) ==
    \A full \in Seq(Chars) :
        n <= Len(full) /\ (\A i \in 1..n : full[i] = z[i])
            => \A t : Reads(t, full) => t[n] = AtEnd(full, n, s)

\* They take it to a state of this kind.
Holding(z, n, st, tok, ns) ==
    \E s \in States : /\ Course(z, n, s) /\ s.st = st /\ s.tok = tok /\ s.nodes = ns
                      /\ ~s.err /\ ~s.skip

\* Before the first character.
LEMMA HoldingAtFirst == \A z : Holding(z, 0, "NULL", <<>>, <<>>)
<1>1. Start \in States /\ Start.st = "NULL" /\ Start.tok = <<>> /\ Start.nodes = <<>>
      /\ ~Start.err /\ ~Start.skip
  <2>1. <<>> \in Seq(Chars) /\ <<>> \in Seq(Nodes)
    OBVIOUS
  <2> QED BY <2>1, CapLimitAssumption DEF Start, States, StateNames
<1>2. \A full : AtEnd(full, 0, Start) = Start
  BY <1>1 DEF AtEnd
<1>3. \A z : Course(z, 0, Start)
  BY <1>2 DEF Course, Reads
<1> QED BY <1>1, <1>3 DEF Holding

\* A longer string goes the same way at first.
LEMMA HoldingLonger ==
    ASSUME NEW z, NEW w, NEW n \in Nat, \A i \in 1..n : w[i] = z[i],
           NEW st, NEW tok, NEW ns, Holding(z, n, st, tok, ns)
    PROVE  Holding(w, n, st, tok, ns)
<1>1. PICK s \in States : /\ Course(z, n, s) /\ s.st = st /\ s.tok = tok /\ s.nodes = ns
                          /\ ~s.err /\ ~s.skip
  BY DEF Holding
<1>2. Course(w, n, s)
  <2> SUFFICES ASSUME NEW full \in Seq(Chars), n <= Len(full),
                      \A i \in 1..n : full[i] = w[i], NEW t, Reads(t, full)
               PROVE  t[n] = AtEnd(full, n, s)
    BY DEF Course
  <2>1. \A i \in 1..n : full[i] = z[i]
    OBVIOUS
  <2> QED BY <1>1, <2>1 DEF Course
<1> QED BY <1>1, <1>2 DEF Holding

\* One more character after which the state is s2.
LEMMA CourseOne ==
    ASSUME NEW z, NEW n \in Nat, NEW s, Course(z, n, s), ~s.err, ~s.skip, NEW s2,
           \A full \in Seq(Chars) : n + 1 \in 1..Len(full) /\ full[n + 1] = z[n + 1]
               => Transition(full, n + 1, s) = s2
    PROVE  Course(z, n + 1, s2)
<1> SUFFICES ASSUME NEW full \in Seq(Chars), n + 1 <= Len(full),
                    \A i \in 1..(n + 1) : full[i] = z[i], NEW t, Reads(t, full)
             PROVE  t[n + 1] = AtEnd(full, n + 1, s2)
  BY DEF Course
<1>1. /\ n + 1 \in 1..Len(full) /\ (n + 1) - 1 = n /\ n <= Len(full) /\ n # Len(full)
      /\ n + 1 \in 1..(n + 1)
  OBVIOUS
<1>2. \A i \in 1..n : full[i] = z[i]
  OBVIOUS
<1>3. t[n] = s
  <2>1. t[n] = AtEnd(full, n, s)
    BY <1>1, <1>2 DEF Course
  <2> QED BY <1>1, <2>1 DEF AtEnd
<1>4. t[n + 1] = Step(full, s, n + 1)
  BY <1>1, <1>3 DEF Reads
<1>5. Transition(full, n + 1, s) = s2
  BY <1>1
<1> QED BY <1>4, <1>5 DEF Step

\* Two more, the second of which is skipped by the first.
LEMMA CourseTwo ==
    ASSUME NEW z, NEW n \in Nat, NEW s, Course(z, n, s), ~s.err, ~s.skip,
           NEW s1 \in States, s1.skip, ~s1.err, s1.st = "NULL", NEW s2, s2 = [s1 EXCEPT !.skip = FALSE],
           \A full \in Seq(Chars) :
               n + 2 \in 1..Len(full) /\ full[n + 1] = z[n + 1] /\ full[n + 2] = z[n + 2]
                   => Transition(full, n + 1, s) = s1
    PROVE  Course(z, n + 2, s2)
<1> SUFFICES ASSUME NEW full \in Seq(Chars), n + 2 <= Len(full),
                    \A i \in 1..(n + 2) : full[i] = z[i], NEW t, Reads(t, full)
             PROVE  t[n + 2] = AtEnd(full, n + 2, s2)
  BY DEF Course
<1>1. /\ n + 1 \in 1..Len(full) /\ (n + 1) - 1 = n /\ n <= Len(full) /\ n # Len(full)
      /\ n + 1 # Len(full) /\ n + 2 \in 1..Len(full) /\ (n + 2) - 1 = n + 1
      /\ n + 1 \in 1..(n + 2) /\ n + 2 \in 1..(n + 2)
  OBVIOUS
<1>2. \A i \in 1..n : full[i] = z[i]
  OBVIOUS
<1>3. t[n] = s
  <2>1. t[n] = AtEnd(full, n, s)
    BY <1>1, <1>2 DEF Course
  <2> QED BY <1>1, <2>1 DEF AtEnd
<1>4. t[n + 1] = s1
  <2>1. t[n + 1] = Step(full, s, n + 1)
    BY <1>1, <1>3 DEF Reads
  <2>2. Transition(full, n + 1, s) = s1
    BY <1>1
  <2>3. AtEnd(full, n + 1, s1) = s1
    BY <1>1 DEF AtEnd
  <2> QED BY <2>1, <2>2, <2>3 DEF Step
<1>5. t[n + 2] = s2
  <2>1. t[n + 2] = Step(full, s1, n + 2)
    BY <1>1, <1>4 DEF Reads
  <2> QED BY <2>1 DEF Step
<1>6. s2.st = "NULL"
  BY DEF States
<1> QED BY <1>5, <1>6 DEF AtEnd

-----------------------------------------------------------------------------
(* What a character does, by the state in which it is read.                *)

\* It becomes part of the token.
Takes(st, c, st2) ==
    \/ st \in {"NULL", "ROOT", "DOT"} /\ st2 = "IDENT" /\ IdentFirst(c)
    \/ st = "IDENT" /\ st2 = "IDENT" /\ IdentChar(c)
    \/ st = "DKEY" /\ st2 = "DKEY" /\ c # "\""
    \/ st = "SKEY" /\ st2 = "SKEY" /\ c # "'"
    \/ st \in {"BRACKET", "MINUS", "NUMBER"} /\ st2 = "NUMBER" /\ isdigit(c)
    \/ st = "BRACKET" /\ st2 = "MINUS" /\ c = "-"

\* A mark is no part of a name or number.
LEMMA TakesNoMark ==
    ASSUME NEW c, IdentChar(c)
    PROVE  c \notin Marks
  BY MarksApart

\* The character is appended to the token.
LEMMA TakeOne ==
    ASSUME NEW z, NEW n \in Nat, NEW st, NEW tok, NEW ns, Holding(z, n, st, tok, ns),
           z[n + 1] \in Chars, NEW st2, Takes(st, z[n + 1], st2)
    PROVE  Holding(z, n + 1, st2, Append(tok, z[n + 1]), ns)
<1> DEFINE c == z[n + 1]
<1>1. PICK s \in States : /\ Course(z, n, s) /\ s.st = st /\ s.tok = tok /\ s.nodes = ns
                          /\ ~s.err /\ ~s.skip
  BY DEF Holding
<1> DEFINE s2 == Take(s, c, st2)
<1>2. st2 \in StateNames
  BY DEF Takes, StateNames
<1>3. /\ s2 \in States /\ s2.st = st2 /\ s2.tok = Append(tok, c) /\ s2.nodes = ns
      /\ ~s2.err /\ ~s2.skip
  <2>1. Append(s.tok, c) \in Seq(Chars)
    BY <1>1 DEF States
  <2> QED BY <1>1, <1>2, <2>1 DEF States, Take
<1>4. Takes(st, c, st2)
  OBVIOUS
<1>5. IdentFirst(c) => c \notin Marks
  BY TakesNoMark DEF IdentChar
<1>6. isdigit(c) => c \notin Marks
  BY TakesNoMark DEF IdentChar
<1> HIDE DEF c
<1>7. ASSUME NEW full \in Seq(Chars), full[n + 1] = c PROVE Transition(full, n + 1, s) = s2
  <2>1. CASE st = "NULL" /\ st2 = "IDENT" /\ IdentFirst(c)
    BY <1>1, <1>5, <1>7, <2>1 DEF Transition, AtNull, Marks
  <2>2. CASE st \in {"ROOT", "DOT"} /\ st2 = "IDENT" /\ IdentFirst(c)
    BY <1>1, <1>7, <2>2 DEF Transition
  <2>3. CASE st = "IDENT" /\ st2 = "IDENT" /\ IdentChar(c)
    <3>1. c \notin Marks
      BY <2>3, TakesNoMark
    <3> QED BY <1>1, <1>7, <2>3, <3>1 DEF Transition, InIdent, Marks
  <2>4. CASE st = "DKEY" /\ st2 = "DKEY" /\ c # "\""
    BY <1>1, <1>7, <2>4 DEF Transition
  <2>5. CASE st = "SKEY" /\ st2 = "SKEY" /\ c # "'"
    BY <1>1, <1>7, <2>5 DEF Transition
  <2>6. CASE st = "BRACKET" /\ st2 = "NUMBER" /\ isdigit(c)
    BY <1>1, <1>6, <1>7, <2>6 DEF Transition, InBracket, Marks
  <2>7. CASE st = "MINUS" /\ st2 = "NUMBER" /\ isdigit(c)
    BY <1>1, <1>7, <2>7 DEF Transition
  <2>8. CASE st = "NUMBER" /\ st2 = "NUMBER" /\ isdigit(c)
    BY <1>1, <1>6, <1>7, <2>8 DEF Transition, InNumber, Marks
  <2>9. CASE st = "BRACKET" /\ st2 = "MINUS" /\ c = "-"
    <3>1. ~isdigit("-")
      BY MarksApart DEF Marks
    <3> QED BY <1>1, <1>7, <2>9, <3>1 DEF Transition, InBracket
  <2> QED BY <1>4, <2>1, <2>2, <2>3, <2>4, <2>5, <2>6, <2>7, <2>8, <2>9 DEF Takes
<1> HIDE DEF s2
<1>8. Course(z, n + 1, s2)
  BY <1>1, <1>7, CourseOne DEF c
<1> QED BY <1>3, <1>8 DEF Holding, c

\* It only changes the state.
Goes(st, c, st2) ==
    \/ st = "NULL" /\ c = "." /\ st2 = "ROOT"
    \/ st = "NULL" /\ c = "[" /\ st2 = "BRACKET"
    \/ st = "BRACKET" /\ c = "\"" /\ st2 = "DKEY"
    \/ st = "BRACKET" /\ c = "'" /\ st2 = "SKEY"

\* The token and the nodes stay.
LEMMA GoOne ==
    ASSUME NEW z, NEW n \in Nat, NEW st, NEW tok, NEW ns, Holding(z, n, st, tok, ns),
           NEW st2, Goes(st, z[n + 1], st2)
    PROVE  Holding(z, n + 1, st2, tok, ns)
<1> DEFINE c == z[n + 1]
<1>1. PICK s \in States : /\ Course(z, n, s) /\ s.st = st /\ s.tok = tok /\ s.nodes = ns
                          /\ ~s.err /\ ~s.skip
  BY DEF Holding
<1>2. Goes(st, c, st2) /\ st2 \in StateNames
  BY DEF Goes, StateNames
<1> HIDE DEF c
<1>3. PICK s2 \in States :
          /\ s2.st = st2 /\ s2.tok = tok /\ s2.nodes = ns /\ ~s2.err /\ ~s2.skip
          /\ \A full \in Seq(Chars) : full[n + 1] = c => Transition(full, n + 1, s) = s2
  <2>1. CASE st = "NULL" /\ c = "." /\ st2 = "ROOT" /\ n + 1 = 1
    <3>1. (n + 1 = 1) = TRUE
      BY <2>1
    <3>2. \A full \in Seq(Chars) : full[n + 1] = c => Transition(full, n + 1, s) = Dotted(s)
      BY <1>1, <2>1, <3>1, AtDot DEF Transition
    <3>3. /\ Dotted(s) \in States /\ Dotted(s).st = "ROOT" /\ Dotted(s).tok = s.tok
          /\ Dotted(s).nodes = s.nodes /\ Dotted(s).err = s.err /\ Dotted(s).skip = s.skip
      BY DEF Dotted, Goto, States, StateNames
    <3> QED BY <1>1, <2>1, <3>2, <3>3
  <2>2. CASE Goes(st, c, st2) /\ ~(st = "NULL" /\ c = "." /\ n + 1 = 1)
    <3>1. ASSUME NEW full \in Seq(Chars), full[n + 1] = c
          PROVE  Transition(full, n + 1, s) = Goto(s, st2)
      <4>1. CASE st = "NULL" /\ c = "." /\ st2 = "ROOT"
        <5>1. (n + 1 = 1) = FALSE
          BY <2>2, <4>1
        <5> QED BY <1>1, <3>1, <4>1, <5>1, AtDot DEF Transition
      <4>2. CASE st = "NULL" /\ c = "[" /\ st2 = "BRACKET"
        <5>1. ~IdentFirst("[")
          BY MarksApart DEF Marks
        <5> QED BY <1>1, <3>1, <4>2, <5>1 DEF Transition, AtNull
      <4>3. CASE st = "BRACKET" /\ c \in {"\"", "'"}
        <5>1. ~isdigit("\"") /\ ~isdigit("'")
          BY MarksApart DEF Marks
        <5>2. InBracket(s, c) = Goto(s, st2)
          BY <2>2, <4>3, <5>1 DEF InBracket, Goes
        <5> QED BY <1>1, <3>1, <4>3, <5>2 DEF Transition
      <4> QED BY <2>2, <4>1, <4>2, <4>3 DEF Goes
    <3>2. /\ Goto(s, st2) \in States /\ Goto(s, st2).st = st2 /\ Goto(s, st2).tok = s.tok
          /\ Goto(s, st2).nodes = s.nodes /\ Goto(s, st2).err = s.err
          /\ Goto(s, st2).skip = s.skip
      BY <1>2 DEF Goto, States
    <3> QED BY <1>1, <3>1, <3>2
  <2> QED BY <1>2, <2>1, <2>2 DEF Goes
<1>4. Course(z, n + 1, s2)
  BY <1>1, <1>3, CourseOne DEF c
<1> QED BY <1>3, <1>4 DEF Holding

\* It ends the token.
Ends(st, c, st2) ==
    \/ st = "IDENT" /\ c = "." /\ st2 = "DOT"
    \/ st = "IDENT" /\ c = "[" /\ st2 = "BRACKET"
    \/ st = "NUMBER" /\ c = "]" /\ st2 = "NULL"

\* The node a token becomes.
Meaning(st, tok) ==
    IF st = "NUMBER" THEN IndexNode(ToInt(TokenNumber(tok))) ELSE KeyNode(tok)

\* The fields of a state whose token has ended.
LEMMA EndFields ==
    ASSUME NEW s \in States, NEW st \in StateNames, NEW node \in Nodes
    PROVE  LET t == EndToken(s, node, st)
           IN  /\ t \in States /\ t.st = st /\ t.tok = <<>> /\ t.nodes = Append(s.nodes, node)
               /\ t.err = s.err /\ t.skip = s.skip
<1>1. AppendCap(Len(s.nodes), s.cap) \in 0..CapLimit
  <2>1. Len(s.nodes) \in Nat /\ s.cap \in 0..CapLimit
    BY DEF States
  <2> QED BY <2>1, AppendCapFits
<1>2. Append(s.nodes, node) \in Seq(Nodes) /\ <<>> \in Seq(Chars)
  BY DEF States
<1> QED BY <1>1, <1>2 DEF States, EndToken

\* A token is a sequence of characters, and its node a node.
LEMMA MeaningIsNode ==
    ASSUME NEW s \in States, NEW st
    PROVE  KeyNode(s.tok) \in Nodes /\ Meaning(st, s.tok) \in Nodes
  BY DEF Meaning, Nodes, States

\* The node is appended, and the token is empty.
LEMMA EndOne ==
    ASSUME NEW z, NEW n \in Nat, NEW st, NEW tok, NEW ns, Holding(z, n, st, tok, ns),
           NEW st2, Ends(st, z[n + 1], st2)
    PROVE  Holding(z, n + 1, st2, <<>>, Append(ns, Meaning(st, tok)))
<1> DEFINE c == z[n + 1]
           node == Meaning(st, tok)
<1>1. PICK s \in States : /\ Course(z, n, s) /\ s.st = st /\ s.tok = tok /\ s.nodes = ns
                          /\ ~s.err /\ ~s.skip
  BY DEF Holding
<1>2. Ends(st, c, st2) /\ st2 \in StateNames
  BY DEF Ends, StateNames
<1> HIDE DEF c
<1> DEFINE s2 == EndToken(s, node, st2)
<1>3. node \in Nodes
  BY <1>1, MeaningIsNode
<1>4. ASSUME NEW full \in Seq(Chars), full[n + 1] = c PROVE Transition(full, n + 1, s) = s2
  <2>1. CASE st = "IDENT"
    <3>3. ~IdentChar(".") /\ ~IdentChar("[")
      BY MarksApart DEF Marks
    <3>1. InIdent(s, c) = s2
      BY <1>1, <1>2, <2>1, <3>3 DEF InIdent, Ends, Meaning
    <3> HIDE DEF s2, node
    <3>2. Transition(full, n + 1, s) = InIdent(s, c)
      BY <1>1, <1>4, <2>1 DEF Transition
    <3> QED BY <3>1, <3>2
  <2>2. CASE st = "NUMBER"
    <3>1. ~isdigit("]")
      BY MarksApart DEF Marks
    <3>2. InNumber(s, c) = s2
      BY <1>1, <1>2, <2>2, <3>1 DEF InNumber, Ends, Meaning
    <3> QED BY <1>1, <1>4, <2>2, <3>2 DEF Transition
  <2> QED BY <1>2, <2>1, <2>2 DEF Ends
<1> HIDE DEF node
<1>5. /\ s2 \in States /\ s2.st = st2 /\ s2.tok = <<>> /\ s2.nodes = Append(ns, node)
      /\ ~s2.err /\ ~s2.skip
  BY <1>1, <1>2, <1>3, EndFields
<1> HIDE DEF s2
<1>6. Course(z, n + 1, s2)
  BY <1>1, <1>4, CourseOne DEF c
<1> QED BY <1>5, <1>6 DEF Holding, node

\* A position with another behind it.
LEMMA BeforeLast ==
    ASSUME NEW s, NEW S, s \in Seq(S), NEW n \in Nat, n + 2 \in 1..Len(s)
    PROVE  n + 1 < Len(s) /\ (n + 1) + 1 = n + 2
  OBVIOUS

\* A quote ends the token together with the bracket behind it.
LEMMA EndQuote ==
    ASSUME NEW z, NEW n \in Nat, NEW st, NEW tok, NEW ns, Holding(z, n, st, tok, ns),
           \/ st = "DKEY" /\ z[n + 1] = "\""
           \/ st = "SKEY" /\ z[n + 1] = "'",
           z[n + 2] = "]"
    PROVE  Holding(z, n + 2, "NULL", <<>>, Append(ns, KeyNode(tok)))
<1>1. PICK s \in States : /\ Course(z, n, s) /\ s.st = st /\ s.tok = tok /\ s.nodes = ns
                          /\ ~s.err /\ ~s.skip
  BY DEF Holding
<1> DEFINE e == EndToken(s, KeyNode(s.tok), "NULL")
           s1 == [e EXCEPT !.skip = TRUE]
<1> HIDE DEF e, s1
<1>2. ASSUME NEW full \in Seq(Chars), n + 2 \in 1..Len(full),
             full[n + 1] = z[n + 1], full[n + 2] = z[n + 2]
      PROVE  Transition(full, n + 1, s) = s1
  <2>1. n + 1 < Len(full) /\ (n + 1) + 1 = n + 2
    BY <1>2, BeforeLast
  <2>2. full[(n + 1) + 1] = "]"
    BY <1>2, <2>1
  <2>3. EndQuoted(full, n + 1, s) = s1
    BY <2>1, <2>2 DEF EndQuoted, e, s1
  <2>4. Transition(full, n + 1, s) = EndQuoted(full, n + 1, s)
    BY <1>1, <1>2 DEF Transition
  <2> QED BY <2>3, <2>4
<1>3. /\ e \in States /\ e.st = "NULL" /\ e.tok = <<>> /\ e.nodes = Append(ns, KeyNode(tok))
      /\ ~e.err
  <2>1. "NULL" \in StateNames /\ KeyNode(s.tok) \in Nodes
    BY MeaningIsNode DEF StateNames
  <2> QED BY <1>1, <2>1, EndFields DEF e
<1>4. /\ s1 \in States /\ s1.skip /\ ~s1.err /\ s1.st = "NULL"
      /\ s1.tok = e.tok /\ s1.nodes = e.nodes
  BY <1>3 DEF States, s1
<1>5. PICK s2 : s2 = [s1 EXCEPT !.skip = FALSE]
  OBVIOUS
<1>6. /\ s2 \in States /\ s2.st = "NULL" /\ s2.tok = e.tok /\ s2.nodes = e.nodes
      /\ ~s2.err /\ ~s2.skip
  BY <1>4, <1>5 DEF States
<1>7. Course(z, n + 2, s2)
  <2>1. Course(z, n, s) /\ ~s.err /\ ~s.skip
    BY <1>1
  <2> QED BY <1>2, <1>4, <1>5, <2>1, CourseTwo
<1> QED BY <1>3, <1>6, <1>7 DEF Holding

-----------------------------------------------------------------------------
(* Whole tokens.                                                           *)

\* The beginnings of a sequence.
LEMMA Beginnings ==
    ASSUME NEW S, NEW k \in Seq(S)
    PROVE  /\ SubSeq(k, 1, Len(k)) = k /\ SubSeq(k, 1, 0) = <<>>
           /\ \A j \in 0 .. (Len(k) - 1) : SubSeq(k, 1, j + 1) = Append(SubSeq(k, 1, j), k[j + 1])
  OBVIOUS

\* c is b behind a, which has the length l.
Join(S, a, b, l, c) == a \in Seq(S) /\ b \in Seq(S) /\ l = Len(a) /\ c = a \o b

\* One sequence after another.
LEMMA Joined ==
    ASSUME NEW S, NEW a, NEW b, NEW l, NEW c, Join(S, a, b, l, c)
    PROVE  /\ c \in Seq(S) /\ Len(c) = l + Len(b)
           /\ \A i \in 1..l : c[i] = a[i]
           /\ \A i \in 1..Len(b) : c[l + i] = b[i]
  BY DEF Join

\* The first position of a sequence, and the others.
LEMMA FirstAndRest ==
    ASSUME NEW S, NEW k, k \in Seq(S), k # <<>>
    PROVE  1 \in 1..Len(k) /\ \A i \in 2..Len(k) : i \in 1..Len(k)
  OBVIOUS

\* z holds k behind its n-th character.
Behind(z, n, k) == \A i \in 1..Len(k) : z[n + i] = k[i]

\* The rest of a token, each character of which stays in the state.
LEMMA TakeAll ==
    ASSUME NEW z, NEW n \in Nat, NEW k \in Seq(Chars), Behind(z, n, k),
           NEW j \in 0..Len(k), NEW st, NEW ns, Holding(z, n + j, st, SubSeq(k, 1, j), ns),
           \A i \in (j + 1)..Len(k) : Takes(st, k[i], st)
    PROVE  Holding(z, n + Len(k), st, k, ns)
<1> DEFINE S == {i \in Nat : i \in j..Len(k) => Holding(z, n + i, st, SubSeq(k, 1, i), ns)}
<1>0. Len(k) \in Nat /\ j \in Nat /\ j <= Len(k)
  OBVIOUS
<1>1. \A i \in Nat : i \in S => i + 1 \in S
  <2> SUFFICES ASSUME NEW i \in Nat, i \in S, i + 1 \in j..Len(k)
               PROVE  Holding(z, n + (i + 1), st, SubSeq(k, 1, i + 1), ns)
    OBVIOUS
  <2>1. CASE i + 1 = j
    BY <2>1
  <2>2. CASE i + 1 # j
    <3>1. /\ i \in j..Len(k) /\ i + 1 \in (j + 1)..Len(k) /\ i + 1 \in 1..Len(k)
          /\ i \in 0 .. (Len(k) - 1) /\ n + i \in Nat /\ (n + i) + 1 = n + (i + 1)
      BY <1>0, <2>2
    <3>2. z[(n + i) + 1] = k[i + 1] /\ k[i + 1] \in Chars
      BY <3>1 DEF Behind
    <3>3. Holding(z, n + i, st, SubSeq(k, 1, i), ns)
      BY <3>1
    <3>4. Takes(st, z[(n + i) + 1], st)
      BY <3>1, <3>2
    <3>5. Holding(z, (n + i) + 1, st, Append(SubSeq(k, 1, i), z[(n + i) + 1]), ns)
      BY <3>1, <3>2, <3>3, <3>4, TakeOne
    <3> QED BY <3>1, <3>2, <3>5, Beginnings
  <2> QED BY <2>1, <2>2
<1>2. 0 \in S
  <2> SUFFICES ASSUME 0 \in j..Len(k) PROVE Holding(z, n + 0, st, SubSeq(k, 1, 0), ns)
    OBVIOUS
  <2>1. j = 0
    BY <1>0
  <2> QED BY <2>1
<1> HIDE DEF S
<1>3. \A i \in Nat : i \in S
  BY <1>1, <1>2, Reading!NatSet
<1>4. Holding(z, n + Len(k), st, SubSeq(k, 1, Len(k)), ns)
  <2>1. Len(k) \in S /\ Len(k) \in j..Len(k)
    BY <1>0, <1>3
  <2> QED BY <2>1 DEF S
<1> QED BY <1>4, Beginnings

\* The first character of a token, and the rest.
LEMMA TakeToken ==
    ASSUME NEW z, NEW n \in Nat, NEW k \in Seq(Chars), k # <<>>, Behind(z, n, k),
           NEW st, NEW ns, Holding(z, n, st, <<>>, ns),
           NEW st2, Takes(st, k[1], st2), \A i \in 2..Len(k) : Takes(st2, k[i], st2)
    PROVE  Holding(z, n + Len(k), st2, k, ns)
<1>1. 1 \in 1..Len(k) /\ 0 \in 0 .. (Len(k) - 1) /\ 1 \in 0..Len(k) /\ 0 + 1 = 1 /\ 1 + 1 = 2
  OBVIOUS
<1>2. z[n + 1] = k[1] /\ k[1] \in Chars
  BY <1>1 DEF Behind
<1>3. Holding(z, n + 1, st2, Append(<<>>, k[1]), ns)
  <2>1. Takes(st, z[n + 1], st2)
    BY <1>2
  <2>2. Holding(z, n + 1, st2, Append(<<>>, z[n + 1]), ns)
    BY <1>2, <2>1, TakeOne
  <2> QED BY <1>2, <2>2
<1>4. SubSeq(k, 1, 1) = Append(<<>>, k[1])
  BY <1>1, Beginnings
<1>5. \A i \in (1 + 1)..Len(k) : Takes(st2, k[i], st2)
  BY <1>1
<1>6. Holding(z, n + 1, st2, SubSeq(k, 1, 1), ns)
  BY <1>3, <1>4
<1> QED BY <1>1, <1>5, <1>6, TakeAll

\* What is known of the names.
LEMMA NamesAre ==
    ASSUME NEW k \in Names
    PROVE  /\ k \in Seq(Chars) /\ k # <<>> /\ IdentFirst(k[1])
           /\ \A i \in 1..Len(k) : IdentChar(k[i]) /\ k[i] \notin Marks
<1> DEFINE Name == Letters \cup {"$", "_"} \cup DOMAIN DigitValue
<1>1. k \in Seq(Name) /\ k # <<>> /\ k[1] \notin DOMAIN DigitValue
  BY NamesAssumption
<1>2. 1 \in 1..Len(k) /\ \A i \in 1..Len(k) : k[i] \in Name
  <2> HIDE DEF Name
  <2> QED BY <1>1
<1>3. k \in Seq(Chars)
  <2>1. Name \subseteq Chars
    BY DEF Chars
  <2> HIDE DEF Name
  <2> QED BY <1>1, <2>1, WiderSeq
<1>4. \A i \in 1..Len(k) : IdentChar(k[i])
  BY <1>2 DEF IdentChar, IdentFirst, isdigit
<1>5. IdentFirst(k[1])
  BY <1>1, <1>2, <1>4 DEF IdentChar, isdigit
<1> QED BY <1>1, <1>3, <1>4, <1>5, TakesNoMark

-----------------------------------------------------------------------------
(* Whole paths.                                                            *)

\* The string z has been read as the path of the nodes ns, the last of which
\* may still be a name that can go on.
Meant(z, ns) ==
    /\ z # <<".">>
    /\ \/ Holding(z, Len(z), "NULL", <<>>, ns)
       \/ \E k, ms : Holding(z, Len(z), "IDENT", k, ms) /\ ns = Append(ms, KeyNode(k))

\* It is then accepted and has those nodes.
LEMMA MeantParsed ==
    ASSUME NEW z \in Seq(Chars), NEW ns, Meant(z, ns)
    PROVE  ParseJSONPath(z).ok /\ ParseJSONPath(z).nodes = ns
<1>1. PICK t : Reads(t, z) /\ Tokenize(z) = t[Len(z)]
  BY ReadsAll
<1>2. PICK st, k, ms : /\ Holding(z, Len(z), st, k, ms)
                       /\ \/ st = "NULL" /\ ns = ms
                          \/ st = "IDENT" /\ ns = Append(ms, KeyNode(k))
  BY DEF Meant
<1>3. PICK s \in States : /\ Course(z, Len(z), s) /\ s.st = st /\ s.tok = k /\ s.nodes = ms
                          /\ ~s.err /\ ~s.skip
  BY <1>2 DEF Holding
<1>4. t[Len(z)] = AtEnd(z, Len(z), s)
  <2>1. Len(z) <= Len(z) /\ \A i \in 1..Len(z) : z[i] = z[i]
    OBVIOUS
  <2> QED BY <1>1, <1>3, <2>1 DEF Course
<1>5. ~t[Len(z)].err /\ t[Len(z)].st = "NULL" /\ t[Len(z)].nodes = ns
  <2>1. CASE st = "NULL"
    BY <1>2, <1>3, <1>4, <2>1 DEF AtEnd
  <2>2. CASE st = "IDENT"
    <3>1. KeyOrRoot(z, s) = KeyNode(k)
      BY <1>3 DEF KeyOrRoot, Meant
    <3>2. t[Len(z)] = EndToken(s, KeyNode(k), "NULL")
      BY <1>3, <1>4, <2>2, <3>1 DEF AtEnd
    <3>3. "NULL" \in StateNames /\ KeyNode(k) \in Nodes
      BY <1>3, MeaningIsNode DEF StateNames
    <3>4. LET e == EndToken(s, KeyNode(k), "NULL")
          IN  e.st = "NULL" /\ e.nodes = Append(s.nodes, KeyNode(k)) /\ e.err = s.err
      BY <3>3, EndFields
    <3>5. s.nodes = ms /\ ~s.err /\ ns = Append(ms, KeyNode(k))
      BY <1>2, <1>3, <2>2
    <3> QED BY <3>2, <3>4, <3>5
  <2> QED BY <1>2, <2>1, <2>2
<1> QED BY <1>1, <1>5 DEF ParseJSONPath

\* w begins with z and has the character c behind it.
Extends(w, z, c) == (\A i \in 1..Len(z) : w[i] = z[i]) /\ w[Len(z) + 1] = c

\* An opening bracket may follow, and a dot.
LEMMA Opened ==
    ASSUME NEW z \in Seq(Chars), NEW ns, Meant(z, ns), NEW w, NEW c, Extends(w, z, c)
    PROVE  /\ c = "[" => Holding(w, Len(z) + 1, "BRACKET", <<>>, ns)
           /\ c = "." => \E st \in {"ROOT", "DOT"} : Holding(w, Len(z) + 1, st, <<>>, ns)
<1> DEFINE n == Len(z)
<1>1. n \in Nat /\ (\A i \in 1..n : w[i] = z[i]) /\ w[n + 1] = c
  BY DEF Extends
<1>2. CASE Holding(z, n, "NULL", <<>>, ns)
  <2>1. Holding(w, n, "NULL", <<>>, ns)
    BY <1>1, <1>2, HoldingLonger
  <2>2. c = "[" => Goes("NULL", w[n + 1], "BRACKET")
    BY <1>1 DEF Goes
  <2>3. c = "." => Goes("NULL", w[n + 1], "ROOT")
    BY <1>1 DEF Goes
  <2> HIDE DEF n
  <2>4. c = "[" => Holding(w, n + 1, "BRACKET", <<>>, ns)
    BY <1>1, <2>1, <2>2, GoOne
  <2>5. c = "." => Holding(w, n + 1, "ROOT", <<>>, ns)
    BY <1>1, <2>1, <2>3, GoOne
  <2> QED BY <2>4, <2>5 DEF n
<1>3. CASE \E k, ms : Holding(z, n, "IDENT", k, ms) /\ ns = Append(ms, KeyNode(k))
  <2>1. PICK k, ms : Holding(z, n, "IDENT", k, ms) /\ ns = Append(ms, KeyNode(k))
    BY <1>3
  <2>2. Holding(w, n, "IDENT", k, ms)
    BY <1>1, <2>1, HoldingLonger
  <2>3. c = "[" => Ends("IDENT", w[n + 1], "BRACKET")
    BY <1>1 DEF Ends
  <2>4. c = "." => Ends("IDENT", w[n + 1], "DOT")
    BY <1>1 DEF Ends
  <2>5. Meaning("IDENT", k) = KeyNode(k)
    BY DEF Meaning
  <2> HIDE DEF n
  <2>6. c = "[" => Holding(w, n + 1, "BRACKET", <<>>, ns)
    BY <1>1, <2>1, <2>2, <2>3, <2>5, EndOne
  <2>7. c = "." => Holding(w, n + 1, "DOT", <<>>, ns)
    BY <1>1, <2>1, <2>2, <2>4, <2>5, EndOne
  <2> QED BY <2>6, <2>7 DEF n
<1> QED BY <1>2, <1>3 DEF Meant

\* A name, from where one may begin.
LEMMA NameRead ==
    ASSUME NEW z, NEW n \in Nat, NEW k \in Names, Behind(z, n, k),
           NEW st \in {"NULL", "ROOT", "DOT"}, NEW ns, Holding(z, n, st, <<>>, ns)
    PROVE  Holding(z, n + Len(k), "IDENT", k, ns)
<1>1. /\ k \in Seq(Chars) /\ k # <<>> /\ IdentFirst(k[1])
      /\ \A i \in 1..Len(k) : IdentChar(k[i])
  BY NamesAre
<1>2. Takes(st, k[1], "IDENT")
  BY <1>1 DEF Takes
<1>3. \A i \in 2..Len(k) : Takes("IDENT", k[i], "IDENT")
  <2>1. \A i \in 2..Len(k) : i \in 1..Len(k)
    BY <1>1, FirstAndRest
  <2> QED BY <1>1, <2>1 DEF Takes
<1> QED BY <1>1, <1>2, <1>3, TakeToken

\* A name between quotes.
LEMMA QuotedRead ==
    ASSUME NEW z, NEW n \in Nat, NEW k \in Names, Behind(z, n, k),
           NEW st, st \in {"DKEY", "SKEY"},
           NEW ns, Holding(z, n, st, <<>>, ns)
    PROVE  Holding(z, n + Len(k), st, k, ns)
<1>1. k \in Seq(Chars) /\ k # <<>> /\ \A i \in 1..Len(k) : k[i] \notin Marks
  BY NamesAre
<1>2. \A i \in 1..Len(k) : Takes(st, k[i], st)
  <2>1. \A i \in 1..Len(k) : k[i] # "\"" /\ k[i] # "'"
    BY <1>1 DEF Marks
  <2> QED BY <2>1 DEF Takes
<1>3. 1 \in 1..Len(k) /\ \A i \in 2..Len(k) : i \in 1..Len(k)
  BY <1>1, FirstAndRest
<1> QED BY <1>1, <1>2, <1>3, TakeToken

-----------------------------------------------------------------------------
(* The numbers between brackets.                                           *)

\* The number read digit by digit is the one the digits stand for.
LEMMA DigitsRead ==
    ASSUME NEW text, NEW n \in Nat, DOMAIN text = 1..n, NEW o \in {0, 1},
           NEW digits \in Seq(DOMAIN DigitValue), Len(digits) + o = n,
           \A i \in 1..Len(digits) : digits[i] = text[i + o],
           o = 1 => ~isdigit(text[1])
    PROVE  FoldLeft(AddDigit, 0, text) = Decimal(digits)
<1> DEFINE l == Len(digits)
           E(g) == [i \in 0..l |-> IF i = 0 THEN 0 ELSE g[i - 1] * 10 + DigitValue[digits[i]]]
           value == CHOOSE g : g = E(g)
<1>0. l \in Nat /\ o \in Nat /\ n = l + o
  OBVIOUS
<1>1. Decimal(digits) = value[l]
  BY DEF Decimal
<1>2. PICK t : Counting!Traces(0, t, text, n) /\ FoldLeft(AddDigit, 0, text) = t[n]
  <2>1. PICK t : /\ Counting!Traces(0, t, text, n)
                 /\ Counting!FoldLeft(AddDigit, 0, text) = t[n]
    BY Counting!FoldLeftTrace
  <2> QED BY <2>1 DEF FoldLeft, Counting!FoldLeft, MapThenFoldSet,
                      Counting!MapThenFoldSet, Max, Counting!Max
<1>3. t[0] = 0 /\ \A i \in 1..n : t[i] = AddDigit(t[i - 1], text[i])
  BY <1>2 DEF Counting!Traces
<1> HIDE DEF l
<1>4. t[o] = 0
  <2>1. CASE o = 0
    BY <1>3, <2>1
  <2>2. CASE o = 1
    <3>1. 1 \in 1..n /\ 1 - 1 = 0
      BY <1>0, <2>2
    <3> QED BY <1>3, <2>2, <3>1 DEF AddDigit
  <2> QED BY <2>1, <2>2
<1>5. ASSUME NEW i \in 1..l PROVE t[i + o] = t[(i - 1) + o] * 10 + DigitValue[digits[i]]
  <2>1. i + o \in 1..n /\ (i + o) - 1 = (i - 1) + o
    BY <1>0
  <2>2. text[i + o] = digits[i] /\ digits[i] \in DOMAIN DigitValue
    BY DEF l
  <2>3. t[i + o] = AddDigit(t[(i - 1) + o], digits[i])
    BY <1>3, <2>1, <2>2
  <2> QED BY <2>2, <2>3 DEF AddDigit, isdigit
<1>6. \E g : g = E(g)
  <2> DEFINE g == [i \in 0..l |-> t[i + o]]
  <2>1. ASSUME NEW i \in 0..l PROVE g[i] = E(g)[i]
    <3>1. CASE i = 0
      <4>1. 0 + o = o
        BY <1>0
      <4> QED BY <1>4, <3>1, <4>1
    <3>2. CASE i # 0
      <4>1. i \in 1..l /\ i - 1 \in 0..l
        BY <1>0, <3>2
      <4> QED BY <1>5, <3>2, <4>1
    <3> QED BY <3>1, <3>2
  <2> QED BY <2>1
<1>7. value = E(value)
  BY <1>6
<1> HIDE DEF value
<1> DEFINE S == {i \in Nat : i \in 0..l => value[i] = t[i + o]}
<1>8. 0 \in S
  <2>1. 0 + o = o /\ 0 \in 0..l
    BY <1>0
  <2>2. value[0] = E(value)[0]
    BY <1>7
  <2> QED BY <1>4, <2>1, <2>2
<1>9. ASSUME NEW i \in Nat, i \in S PROVE i + 1 \in S
  <2> SUFFICES ASSUME i + 1 \in 0..l PROVE value[i + 1] = t[(i + 1) + o]
    OBVIOUS
  <2>1. i \in 0..l /\ i + 1 \in 1..l /\ i + 1 # 0 /\ (i + 1) - 1 = i
    BY <1>0
  <2>2. value[i + 1] = E(value)[i + 1]
    BY <1>7
  <2>3. value[i + 1] = value[i] * 10 + DigitValue[digits[i + 1]]
    BY <2>1, <2>2
  <2>4. t[(i + 1) + o] = t[i + o] * 10 + DigitValue[digits[i + 1]]
    BY <1>5, <2>1
  <2> QED BY <1>9, <2>1, <2>3, <2>4
<1> HIDE DEF S
<1>10. l \in S
  BY <1>0, <1>8, <1>9, Reading!NatSet
<1>11. value[l] = t[n]
  <2>1. l \in 0..l /\ l + o = n
    BY <1>0
  <2> QED BY <1>10, <2>1 DEF S
<1> QED BY <1>1, <1>2, <1>11

\* What is known of the numbers: where the digits begin, and what they mean.
LEMMA NumbersAre ==
    ASSUME NEW num \in Numbers
    PROVE  /\ num.text \in Seq(Chars) /\ num.text # <<>>
           /\ \/ \A i \in 1..Len(num.text) : isdigit(num.text[i])
              \/ /\ num.text[1] = "-" /\ 2 \in 1..Len(num.text)
                 /\ \A i \in 2..Len(num.text) : isdigit(num.text[i])
           /\ ToInt(TokenNumber(num.text)) = num.value
<1> DEFINE text == num.text
           D == DOMAIN DigitValue
<1>1. PICK minus \in BOOLEAN :
        LET digits == IF minus THEN Tail(text) ELSE text
        IN  /\ text \in Seq({"-"} \cup D) /\ text # <<>>
            /\ minus => text[1] = "-"
            /\ digits \in Seq(D) /\ digits # <<>>
            /\ num.value = ToInt(IF minus THEN -Decimal(digits) ELSE Decimal(digits))
  BY NumbersAssumption
<1> HIDE DEF text
<1>2. text \in Seq(Chars)
  <2>1. {"-"} \cup D \subseteq Chars
    BY DEF Chars, Marks
  <2> HIDE DEF D
  <2> QED BY <1>1, <2>1, WiderSeq
<1>3. ~isdigit("-")
  BY MarksApart DEF Marks
<1>4. CASE minus
  <2> DEFINE digits == Tail(text)
  <2>1. /\ digits \in Seq(D) /\ digits # <<>> /\ text[1] = "-" /\ text # <<>>
        /\ num.value = ToInt(-Decimal(digits))
    BY <1>1, <1>4
  <2> HIDE DEF D
  <2>2. /\ Len(text) \in Nat /\ DOMAIN text = 1..Len(text)
        /\ Len(digits) + 1 = Len(text) /\ \A i \in 1..Len(digits) : digits[i] = text[i + 1]
        /\ Len(digits) \in Nat
    BY <1>2, <2>1
  <2> HIDE DEF digits
  <2>3. Len(digits) # 0
    BY <2>1
  <2>4. ASSUME NEW i \in 2..Len(text) PROVE isdigit(text[i])
    <3>1. i - 1 \in 1..Len(digits) /\ (i - 1) + 1 = i
      BY <2>2
    <3>2. text[i] = digits[i - 1]
      BY <2>2, <3>1
    <3>3. digits[i - 1] \in D
      BY <2>1, <3>1
    <3> QED BY <3>2, <3>3 DEF isdigit, D
  <2>5. FoldLeft(AddDigit, 0, text) = Decimal(digits)
    <3>1. ~isdigit(text[1])
      BY <1>3, <2>1
    <3> QED BY <2>1, <2>2, <3>1, DigitsRead DEF D
  <2>6. ToInt(TokenNumber(text)) = num.value
    BY <2>1, <2>5 DEF TokenNumber
  <2>7. 2 \in 1..Len(text)
    BY <2>2, <2>3
  <2> QED BY <1>1, <1>2, <2>1, <2>4, <2>6, <2>7 DEF text
<1>5. CASE ~minus
  <2>1. text \in Seq(D) /\ text # <<>> /\ num.value = ToInt(Decimal(text))
    BY <1>1, <1>5
  <2> HIDE DEF D
  <2>2. /\ Len(text) \in Nat /\ DOMAIN text = 1..Len(text) /\ 1 \in 1..Len(text)
        /\ \A i \in 1..Len(text) : text[i] \in D /\ i + 0 = i
        /\ Len(text) + 0 = Len(text)
    BY <2>1
  <2>3. \A i \in 1..Len(text) : isdigit(text[i])
    BY <2>2 DEF isdigit, D
  <2>4. FoldLeft(AddDigit, 0, text) = Decimal(text)
    <3>1. \A i \in 1..Len(text) : text[i] = text[i + 0]
      BY <2>2
    <3> QED BY <2>1, <2>2, <3>1, DigitsRead DEF D
  <2>5. text[1] # "-"
    BY <1>3, <2>2, <2>3
  <2>6. ToInt(TokenNumber(text)) = num.value
    BY <2>1, <2>4, <2>5 DEF TokenNumber
  <2> QED BY <1>2, <2>1, <2>3, <2>6 DEF text
<1> QED BY <1>4, <1>5

\* A number between brackets.
LEMMA NumberRead ==
    ASSUME NEW z, NEW n \in Nat, NEW num \in Numbers, Behind(z, n, num.text), NEW ns,
           Holding(z, n, "BRACKET", <<>>, ns)
    PROVE  Holding(z, n + Len(num.text), "NUMBER", num.text, ns)
<1> DEFINE k == num.text
<1>1. /\ k \in Seq(Chars) /\ k # <<>>
      /\ \/ \A i \in 1..Len(k) : isdigit(k[i])
         \/ k[1] = "-" /\ 2 \in 1..Len(k) /\ \A i \in 2..Len(k) : isdigit(k[i])
  BY NumbersAre
<1> HIDE DEF k
<1>0. Behind(z, n, k)
  BY DEF k
<1>2. 1 \in 1..Len(k) /\ \A i \in 2..Len(k) : i \in 1..Len(k)
  BY <1>1, FirstAndRest
<1>3. CASE \A i \in 1..Len(k) : isdigit(k[i])
  <2>1. Takes("BRACKET", k[1], "NUMBER") /\ \A i \in 2..Len(k) : Takes("NUMBER", k[i], "NUMBER")
    BY <1>2, <1>3 DEF Takes
  <2>2. Holding(z, n + Len(k), "NUMBER", k, ns)
    BY <1>0, <1>1, <2>1, TakeToken
  <2> QED BY <2>2 DEF k
<1>4. CASE k[1] = "-" /\ 2 \in 1..Len(k) /\ \A i \in 2..Len(k) : isdigit(k[i])
  <2>1. z[n + 1] = k[1] /\ k[1] \in Chars /\ z[n + 2] = k[2] /\ k[2] \in Chars
    BY <1>0, <1>1, <1>2, <1>4 DEF Behind
  <2>2. Takes("BRACKET", z[n + 1], "MINUS")
    BY <1>4, <2>1 DEF Takes
  <2>3. Holding(z, n + 1, "MINUS", Append(<<>>, z[n + 1]), ns)
    BY <2>1, <2>2, TakeOne
  <2>4. 2 \in 2..Len(k)
    BY <1>4
  <2>5. Takes("MINUS", z[n + 2], "NUMBER")
    BY <1>4, <2>1, <2>4 DEF Takes
  <2>6. Holding(z, (n + 1) + 1, "NUMBER", Append(Append(<<>>, z[n + 1]), z[(n + 1) + 1]), ns)
    <3>1. (n + 1) + 1 = n + 2 /\ n + 1 \in Nat
      OBVIOUS
    <3> QED BY <2>1, <2>3, <2>5, <3>1, TakeOne
  <2>7. SubSeq(k, 1, 2) = Append(Append(<<>>, k[1]), k[2])
    <3>1. 0 \in 0 .. (Len(k) - 1) /\ 1 \in 0 .. (Len(k) - 1) /\ 0 + 1 = 1 /\ 1 + 1 = 2
      BY <1>4
    <3> QED BY <1>1, <3>1, Beginnings
  <2>8. Holding(z, n + 2, "NUMBER", SubSeq(k, 1, 2), ns)
    <3>1. (n + 1) + 1 = n + 2
      OBVIOUS
    <3> QED BY <2>1, <2>6, <2>7, <3>1
  <2>9. \A i \in (2 + 1)..Len(k) : Takes("NUMBER", k[i], "NUMBER")
    <3>1. \A i \in (2 + 1)..Len(k) : i \in 2..Len(k)
      OBVIOUS
    <3> QED BY <1>4, <3>1 DEF Takes
  <2>10. 2 \in 0..Len(k)
    BY <1>4
  <2>11. Holding(z, n + Len(k), "NUMBER", k, ns)
    BY <1>0, <1>1, <2>8, <2>9, <2>10, TakeAll
  <2> QED BY <2>11 DEF k
<1> QED BY <1>1, <1>3, <1>4

-----------------------------------------------------------------------------
(* One more part of a written path.                                        *)

\* A dotted name.
LEMMA DottedMeant ==
    ASSUME NEW z \in Seq(Chars), NEW ns, Meant(z, ns), z = <<>> => ns = <<>>,
           NEW k \in Names, NEW dot \in {<<>>, <<".">>}, z # <<>> => dot = <<".">>
    PROVE  /\ Meant(z \o dot \o k, Append(ns, KeyNode(k)))
           /\ z \o dot \o k # <<>>
<1> DEFINE zd == z \o dot
           w == zd \o k
<1>1. k \in Seq(Chars) /\ k # <<>> /\ \A i \in 1..Len(k) : k[i] \notin Marks
  BY NamesAre
<1>2. dot \in Seq(Chars)
  <2>1. "." \in Chars
    BY DEF Chars, Marks
  <2> QED BY <2>1, ShortSeqs
<1>3. PICK l \in Nat : l = Len(z) + Len(dot)
  <2>1. Len(z) \in Nat /\ Len(dot) \in Nat
    BY <1>2
  <2> QED BY <2>1
<1>4. /\ zd \in Seq(Chars) /\ Len(zd) = l
      /\ \A i \in 1..Len(z) : zd[i] = z[i]
      /\ \A i \in 1..Len(dot) : zd[Len(z) + i] = dot[i]
  <2>1. Join(Chars, z, dot, Len(z), zd)
    BY <1>2 DEF Join
  <2> HIDE DEF zd
  <2> QED BY <1>3, <2>1, Joined
<1> HIDE DEF zd
<1>5. /\ w \in Seq(Chars) /\ Len(w) = l + Len(k) /\ Behind(w, l, k)
      /\ \A i \in 1..l : w[i] = zd[i]
  <2>1. Join(Chars, zd, k, l, w)
    BY <1>1, <1>4 DEF Join
  <2> HIDE DEF w
  <2> QED BY <2>1, Joined DEF Behind
<1>6. \A i \in 1..Len(z) : w[i] = z[i]
  <2>1. \A i \in 1..Len(z) : i \in 1..l
    BY <1>2, <1>3
  <2> QED BY <1>4, <1>5, <2>1
<1> HIDE DEF w
<1>7. PICK m \in 1..Len(k) : m = Len(k)
  BY <1>1
<1>8. w # <<>> /\ w # <<".">>
  <2>1. Len(w) # 0 /\ l + m = Len(w)
    BY <1>3, <1>5, <1>7
  <2>2. w[Len(w)] \notin Marks
    BY <1>1, <1>5, <1>7, <2>1 DEF Behind
  <2>3. <<".">>[Len(<<".">>)] \in Marks /\ Len(<<>>) = 0
    BY DEF Marks
  <2> QED BY <2>1, <2>2, <2>3
<1>9. \E st \in {"NULL", "ROOT", "DOT"} : Holding(w, l, st, <<>>, ns)
  <2>1. CASE dot = <<>>
    <3>1. z = <<>> /\ ns = <<>>
      <4>1. <<>> # <<".">>
        OBVIOUS
      <4> QED BY <2>1, <4>1
    <3>2. l = 0
      BY <1>3, <2>1, <3>1
    <3> QED BY <3>1, <3>2, HoldingAtFirst
  <2>2. CASE dot = <<".">>
    <3>1. l = Len(z) + 1
      BY <1>3, <2>2
    <3>2. w[l] = "."
      <4>1. l \in 1..l /\ 1 \in 1..Len(dot) /\ dot[1] = "."
        BY <2>2, <3>1
      <4>2. zd[Len(z) + 1] = dot[1]
        BY <1>4, <4>1
      <4> QED BY <1>5, <3>1, <4>1, <4>2
    <3>3. Extends(w, z, ".")
      BY <1>6, <3>1, <3>2 DEF Extends
    <3> QED BY <3>1, <3>3, Opened
  <2> QED BY <2>1, <2>2
<1>10. Holding(w, l + Len(k), "IDENT", k, ns)
  BY <1>5, <1>9, NameRead
<1>11. Meant(w, Append(ns, KeyNode(k)))
  BY <1>5, <1>8, <1>10 DEF Meant
<1> QED BY <1>8, <1>11 DEF w, zd

\* w is z, a, k and b, and k begins behind the position l.
Around(S, z, a, k, b, l, w) ==
    /\ z \in Seq(S) /\ a \in Seq(S) /\ k \in Seq(S) /\ b \in Seq(S)
    /\ l = Len(z) + Len(a) /\ w = z \o a \o k \o b

\* What stands between the brackets, and where.
LEMMA Bracketed ==
    ASSUME NEW S, NEW z, NEW a, NEW k, NEW b, NEW l, NEW w, Around(S, z, a, k, b, l, w)
    PROVE  /\ w \in Seq(S) /\ Len(w) = l + Len(k) + Len(b)
           /\ \A i \in 1..Len(z) : w[i] = z[i]
           /\ \A i \in 1..Len(a) : w[Len(z) + i] = a[i]
           /\ Behind(w, l, k)
           /\ \A i \in 1..Len(b) : w[(l + Len(k)) + i] = b[i]
<1>0. /\ z \in Seq(S) /\ a \in Seq(S) /\ k \in Seq(S) /\ b \in Seq(S)
      /\ l = Len(z) + Len(a)
  BY DEF Around
<1>9. PICK za, zak : za = z \o a /\ zak = za \o k /\ w = zak \o b
  BY DEF Around
<1>1. /\ Len(z) \in Nat /\ Len(a) \in Nat /\ Len(k) \in Nat /\ Len(b) \in Nat /\ l \in Nat
  BY <1>0
<1>2. /\ za \in Seq(S) /\ Len(za) = l
      /\ \A i \in 1..Len(z) : za[i] = z[i]
      /\ \A i \in 1..Len(a) : za[Len(z) + i] = a[i]
  <2>1. Join(S, z, a, Len(z), za)
    BY <1>0, <1>9 DEF Join
  <2> QED BY <1>0, <2>1, Joined
<1>3. /\ zak \in Seq(S) /\ Len(zak) = l + Len(k)
      /\ \A i \in 1..l : zak[i] = za[i]
      /\ \A i \in 1..Len(k) : zak[l + i] = k[i]
  <2>1. Join(S, za, k, l, zak)
    BY <1>0, <1>2, <1>9 DEF Join
  <2> QED BY <2>1, Joined
<1>4. /\ w \in Seq(S) /\ Len(w) = Len(zak) + Len(b)
      /\ \A i \in 1..Len(zak) : w[i] = zak[i]
      /\ \A i \in 1..Len(b) : w[Len(zak) + i] = b[i]
  <2>1. Join(S, zak, b, Len(zak), w)
    BY <1>0, <1>3, <1>9 DEF Join
  <2> QED BY <2>1, Joined
<1>5. ASSUME NEW i \in 1..Len(z) PROVE w[i] = z[i]
  <2>1. i \in 1..l /\ i \in 1..Len(zak)
    BY <1>0, <1>1, <1>3
  <2> QED BY <1>2, <1>3, <1>4, <2>1
<1>6. ASSUME NEW i \in 1..Len(a) PROVE w[Len(z) + i] = a[i]
  <2>1. Len(z) + i \in 1..l /\ Len(z) + i \in 1..Len(zak)
    BY <1>0, <1>1, <1>3
  <2> QED BY <1>2, <1>3, <1>4, <2>1
<1>7. ASSUME NEW i \in 1..Len(k) PROVE w[l + i] = k[i]
  <2>1. l + i \in 1..Len(zak)
    BY <1>0, <1>1, <1>3
  <2> QED BY <1>3, <1>4, <2>1
<1>8. /\ w \in Seq(S) /\ Len(w) = l + Len(k) + Len(b)
      /\ \A i \in 1..Len(b) : w[(l + Len(k)) + i] = b[i]
  BY <1>3, <1>4
<1> QED BY <1>5, <1>6, <1>7, <1>8 DEF Behind

\* Sequences of one and of two elements.
LEMMA ShortOnes ==
    ASSUME NEW a, NEW b
    PROVE  /\ Len(<<a>>) = 1 /\ <<a>>[1] = a
           /\ Len(<<a, b>>) = 2 /\ <<a, b>>[1] = a /\ <<a, b>>[2] = b
           /\ 1 \in 1..1 /\ 1 \in 1..2 /\ 2 \in 1..2
  OBVIOUS

\* Positions counted from the end of the opening mark.
LEMMA QuotePlaces ==
    ASSUME NEW n \in Nat, NEW l \in Nat, l = n + 2, NEW m \in Nat
    PROVE  /\ n + 1 \in Nat /\ (n + 1) + 1 = l /\ l + m \in Nat /\ l + m + 2 = (l + m) + 2
           /\ l + m + 2 # 1 /\ l + m + 2 # 0
  OBVIOUS

\* The marks a name may stand between.
Quotes == {"\"", "'"}

\* A name in brackets and quotes.
LEMMA QuotedMeant ==
    ASSUME NEW z \in Seq(Chars), NEW ns, Meant(z, ns), NEW k \in Names,
           NEW q \in Quotes
    PROVE  LET w == z \o <<"[", q>> \o k \o <<q, "]">>
           IN  Meant(w, Append(ns, KeyNode(k))) /\ w # <<>>
<1> DEFINE a == <<"[", q>>
           b == <<q, "]">>
           st == IF q = "\"" THEN "DKEY" ELSE "SKEY"
<1>1. k \in Seq(Chars)
  BY NamesAre
<1>2. a \in Seq(Chars) /\ b \in Seq(Chars)
  <2>1. "[" \in Chars /\ "]" \in Chars /\ q \in Chars
    BY DEF Chars, Marks, Quotes
  <2> QED BY <2>1, ShortSeqs
<1>3. Len(a) = 2 /\ a[1] = "[" /\ a[2] = q /\ Len(b) = 2 /\ b[1] = q /\ b[2] = "]"
  BY ShortOnes
<1>4. 1 \in 1..2 /\ 2 \in 1..2
  BY ShortOnes
<1> HIDE DEF a, b, st
<1>0. PICK w : w = z \o a \o k \o b
  OBVIOUS
<1>5. PICK n, l, m : n \in Nat /\ l \in Nat /\ m \in Nat /\ n = Len(z) /\ l = n + 2 /\ m = Len(k)
  <2>1. Len(z) \in Nat /\ Len(k) \in Nat /\ \A n \in Nat : n + 2 \in Nat
    BY <1>1, LenProperties
  <2> QED BY <2>1
<1>6. /\ n + 1 \in Nat /\ (n + 1) + 1 = l /\ l + m \in Nat /\ l + m + 2 = (l + m) + 2
      /\ l + m + 2 # 1 /\ l + m + 2 # 0
  BY <1>5, QuotePlaces
<1>7. /\ w \in Seq(Chars) /\ Len(w) = l + m + 2
      /\ \A i \in 1..n : w[i] = z[i]
      /\ w[n + 1] = "[" /\ w[l] = q /\ Behind(w, l, k)
      /\ w[(l + m) + 1] = q /\ w[(l + m) + 2] = "]"
  <2>1. Around(Chars, z, a, k, b, l, w)
    BY <1>0, <1>1, <1>2, <1>3, <1>5 DEF Around
  <2>2. /\ w \in Seq(Chars) /\ Len(w) = l + Len(k) + Len(b)
        /\ \A i \in 1..Len(z) : w[i] = z[i]
        /\ \A i \in 1..Len(a) : w[Len(z) + i] = a[i]
        /\ Behind(w, l, k)
        /\ \A i \in 1..Len(b) : w[(l + Len(k)) + i] = b[i]
    BY <2>1, Bracketed
  <2>3. w[Len(z) + 1] = a[1] /\ w[Len(z) + 2] = a[2]
    BY <1>3, <1>4, <2>2
  <2>4. w[(l + Len(k)) + 1] = b[1] /\ w[(l + Len(k)) + 2] = b[2]
    BY <1>3, <1>4, <2>2
  <2> QED BY <1>3, <1>5, <2>2, <2>3, <2>4
<1>8. Extends(w, z, "[")
  BY <1>5, <1>7 DEF Extends
<1>9. Holding(w, n + 1, "BRACKET", <<>>, ns)
  BY <1>5, <1>8, Opened
<1>10. Goes("BRACKET", w[(n + 1) + 1], st)
  BY <1>6, <1>7 DEF Goes, Quotes, st
<1>11. Holding(w, l, st, <<>>, ns)
  BY <1>6, <1>9, <1>10, GoOne
<1>12. Holding(w, l + m, st, k, ns)
  <2>1. st \in {"DKEY", "SKEY"}
    BY DEF st
  <2> QED BY <1>5, <1>7, <1>11, <2>1, QuotedRead
<1>13. \/ st = "DKEY" /\ w[(l + m) + 1] = "\""
       \/ st = "SKEY" /\ w[(l + m) + 1] = "'"
  BY <1>7 DEF Quotes, st
<1>14. Holding(w, (l + m) + 2, "NULL", <<>>, Append(ns, KeyNode(k)))
  BY <1>6, <1>7, <1>12, <1>13, EndQuote
<1>15. w # <<".">> /\ w # <<>>
  <2>1. Len(<<".">>) = 1 /\ Len(<<>>) = 0
    OBVIOUS
  <2> QED BY <1>6, <1>7, <2>1
<1>16. Meant(w, Append(ns, KeyNode(k)))
  BY <1>6, <1>7, <1>14, <1>15 DEF Meant
<1> QED BY <1>0, <1>15, <1>16 DEF a, b

\* A number in brackets.
LEMMA IndexMeant ==
    ASSUME NEW z \in Seq(Chars), NEW ns, Meant(z, ns), NEW num \in Numbers
    PROVE  LET w == z \o <<"[">> \o num.text \o <<"]">>
           IN  Meant(w, Append(ns, IndexNode(num.value))) /\ w # <<>>
<1> DEFINE a == <<"[">>
           b == <<"]">>
           k == num.text
<1>1. k \in Seq(Chars) /\ ToInt(TokenNumber(k)) = num.value
  BY NumbersAre
<1>2. a \in Seq(Chars) /\ b \in Seq(Chars)
  <2>1. "[" \in Chars /\ "]" \in Chars
    BY DEF Chars, Marks
  <2> QED BY <2>1, ShortSeqs
<1>3. Len(a) = 1 /\ a[1] = "[" /\ Len(b) = 1 /\ b[1] = "]" /\ 1 \in 1..1
  BY ShortOnes
<1> HIDE DEF a, b, k
<1>0. PICK w : w = z \o a \o k \o b
  OBVIOUS
<1>4. PICK l, m : l \in Nat /\ m \in Nat /\ l = Len(z) + 1 /\ m = Len(k)
  BY <1>1
<1>5. /\ w \in Seq(Chars) /\ Len(w) = l + m + 1
      /\ \A i \in 1..Len(z) : w[i] = z[i]
      /\ w[l] = "[" /\ Behind(w, l, k) /\ w[(l + m) + 1] = "]"
  <2>1. Around(Chars, z, a, k, b, l, w)
    BY <1>0, <1>1, <1>2, <1>3, <1>4 DEF Around
  <2>2. /\ w \in Seq(Chars) /\ Len(w) = l + Len(k) + Len(b)
        /\ \A i \in 1..Len(z) : w[i] = z[i]
        /\ \A i \in 1..Len(a) : w[Len(z) + i] = a[i]
        /\ Behind(w, l, k)
        /\ \A i \in 1..Len(b) : w[(l + Len(k)) + i] = b[i]
    BY <2>1, Bracketed
  <2> QED BY <1>3, <1>4, <2>2
<1>6. Holding(w, l, "BRACKET", <<>>, ns)
  <2>1. Extends(w, z, "[")
    BY <1>4, <1>5 DEF Extends
  <2> QED BY <1>4, <2>1, Opened
<1>7. Holding(w, l + m, "NUMBER", k, ns)
  BY <1>4, <1>5, <1>6, NumberRead DEF k
<1>8. Ends("NUMBER", w[(l + m) + 1], "NULL") /\ l + m \in Nat
  BY <1>4, <1>5 DEF Ends
<1>9. Holding(w, (l + m) + 1, "NULL", <<>>, Append(ns, IndexNode(num.value)))
  <2>1. Meaning("NUMBER", k) = IndexNode(num.value)
    BY <1>1 DEF Meaning
  <2> QED BY <1>7, <1>8, <2>1, EndOne
<1>10. w # <<".">> /\ w # <<>>
  <2>1. Len(<<".">>) = 1 /\ Len(<<>>) = 0 /\ <<".">>[1] = "."
    OBVIOUS
  <2>2. Len(w) # 0
    BY <1>4, <1>5
  <2>3. CASE Len(w) = 1
    <3>1. l = 1
      <4>1. Len(z) \in Nat
        OBVIOUS
      <4> QED BY <1>4, <1>5, <2>3, <4>1
    <3> QED BY <1>5, <2>1, <2>2, <3>1
  <2> QED BY <2>1, <2>2, <2>3
<1>11. Meant(w, Append(ns, IndexNode(num.value)))
  BY <1>4, <1>5, <1>9, <1>10 DEF Meant
<1> QED BY <1>0, <1>10, <1>11 DEF a, b, k

\* A string that was written as a path has been read as that path.
WrittenRead ==
    nodes # Unknown => Meant(json, nodes) /\ (json = <<>> => nodes = <<>>)

\* Every path written in dotted, bracketed and quoted notation, of as many nodes
\* as there is room for, is accepted by the tokenizer and means the keys and
\* indexes it was written from, whatever follows a part of it.
THEOREM SpellingsAlwaysUnderstood == Spec => []SpellingsUnderstood
<1>0. Meant(<<>>, <<>>)
  <2>1. Len(<<>>) = 0 /\ <<>> # <<".">>
    OBVIOUS
  <2> QED BY <2>1, HoldingAtFirst DEF Meant
<1>1. Init => WrittenRead
  BY <1>0 DEF Init, WrittenRead
<1>2. ASSUME Typed, WrittenRead, [Next]_<<json, nodes>> PROVE WrittenRead'
  <2>1. ASSUME NEW c \in Alphabet, AddChar(c) PROVE WrittenRead'
    BY <2>1 DEF AddChar, WrittenRead
  <2>2. Written => json \in Seq(Chars) /\ Meant(json, nodes) /\ (json = <<>> => nodes = <<>>)
    BY <1>2 DEF Typed, WrittenRead, Written
  <2>3. ASSUME NEW k \in Names, NEW dot \in {<<>>, <<".">>}, AddDotted(k, dot) PROVE WrittenRead'
    BY <2>2, <2>3, DottedMeant DEF AddDotted, WrittenRead
  <2>4. ASSUME NEW k \in Names, NEW q \in {"\"", "'"}, AddQuoted(k, q) PROVE WrittenRead'
    BY <2>2, <2>4, QuotedMeant DEF Quotes, AddQuoted, WrittenRead
  <2>5. ASSUME NEW num \in Numbers, AddIndex(num) PROVE WrittenRead'
    BY <2>2, <2>5, IndexMeant DEF AddIndex, WrittenRead
  <2>6. CASE StartOver
    BY <1>0, <2>6 DEF StartOver, WrittenRead
  <2>7. CASE UNCHANGED <<json, nodes>>
    BY <1>2, <2>7 DEF WrittenRead
  <2> QED BY <1>2, <2>1, <2>3, <2>4, <2>5, <2>6, <2>7 DEF Next
<1>3. ASSUME Typed, WrittenRead PROVE SpellingsUnderstood
  BY <1>3, MeantParsed DEF Typed, WrittenRead, SpellingsUnderstood, Parsed
<1> QED BY <1>1, <1>2, <1>3, AlwaysTyped, PTL DEF Spec
=============================================================================
