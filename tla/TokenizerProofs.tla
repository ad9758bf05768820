--------------------------- MODULE TokenizerProofs --------------------------
(***************************************************************************)
(* Lemmas about the path tokenizer, for every string: the array of the     *)
(* search path has room for every node written to it, and the string by    *)
(* which the cache knows a path means what the path means.                 *)
(*                                                                         *)
(* Tokenize is a fold over the characters.  FoldLeftTrace turns it into    *)
(* the sequence of states the tokenizer goes through, and the proofs are   *)
(* inductions along it.                                                    *)
(***************************************************************************)
EXTENDS JsonPath, SequenceTheorems, FiniteSetTheorems, TLAPS

-----------------------------------------------------------------------------
(* The states of the tokenizer.                                            *)

Chars == STRING \cup Marks \cup Letters \cup {"$", "_"} \cup DOMAIN DigitValue

StateNames == {"NULL", "ROOT", "DOT", "BRACKET", "NUMBER", "MINUS", "IDENT", "DKEY", "SKEY"}

Nodes == {KeyNode(tok) : tok \in Seq(Chars)}
           \cup {IndexNode(ToInt(TokenNumber(tok))) : tok \in Seq(Chars)}
           \cup {RootNode}

States == [st : StateNames, tok : Seq(Chars), nodes : Seq(Nodes), cap : 0..CapLimit,
           hasLeadingDot : BOOLEAN, skip : BOOLEAN, err : BOOLEAN]

\* A sequence over a set is one over each larger set.
LEMMA WiderSeq ==
    ASSUME NEW S, NEW T, S \subseteq T, NEW s \in Seq(S)
    PROVE  s \in Seq(T)
  OBVIOUS

\* The nodes of a state are within its array.
Fits(s) == Len(s.nodes) <= CapLimit => Len(s.nodes) <= s.cap

\* Appending a node to an array with room for those it has.
LEMMA AppendCapFits ==
    ASSUME NEW n \in Nat, NEW cap \in 0..CapLimit
    PROVE  /\ AppendCap(n, cap) \in 0..CapLimit
           /\ n <= cap /\ n + 1 <= CapLimit => n + 1 <= AppendCap(n, cap)
  BY CapLimitAssumption DEF AppendCap

\* The changes a step makes to a state, but for the flag hasLeadingDot, keep
\* it in G.
Kept(G) ==
    \A s \in G :
        /\ Fail(s) \in G
        /\ \A st \in StateNames : Goto(s, st) \in G
        /\ \A st \in StateNames, c \in Chars : Take(s, c, st) \in G
        /\ \A st \in StateNames, node \in Nodes : EndToken(s, node, st) \in G
        /\ \A b \in BOOLEAN : [s EXCEPT !.skip = b] \in G

Dotted(s) == [Goto(s, "ROOT") EXCEPT !.hasLeadingDot = TRUE]

\* No mark of a path belongs to a name or a number.
LEMMA MarksApart ==
    ASSUME NEW c \in Marks
    PROVE  ~IdentFirst(c) /\ ~IdentChar(c) /\ ~isdigit(c)
<1>1. ~isdigit(c) /\ c \notin {"$", "_"}
  BY DEF Marks, isdigit, DigitValue
<1>2. c \notin Letters
  BY LettersAssumption
<1> QED BY <1>1, <1>2 DEF IdentFirst, IdentChar

\* A dot at the beginning of a path, and elsewhere.
LEMMA AtDot ==
    ASSUME NEW s \in States
    PROVE  AtNull(s, ".", TRUE) = Dotted(s) /\ AtNull(s, ".", FALSE) = Goto(s, "ROOT")
<1> DEFINE t == Goto(s, "ROOT")
<1>1. t.hasLeadingDot \in BOOLEAN /\ t = [t EXCEPT !.hasLeadingDot = t.hasLeadingDot]
  BY DEF States, Goto
<1>2. (t.hasLeadingDot \/ TRUE) = TRUE /\ (t.hasLeadingDot \/ FALSE) = t.hasLeadingDot
  BY <1>1
<1>3. AtNull(s, ".", TRUE) = [t EXCEPT !.hasLeadingDot = t.hasLeadingDot \/ TRUE]
  BY MarksApart DEF AtNull, Marks
<1>4. AtNull(s, ".", FALSE) = [t EXCEPT !.hasLeadingDot = t.hasLeadingDot \/ FALSE]
  BY MarksApart DEF AtNull, Marks
<1> QED BY <1>1, <1>2, <1>3, <1>4 DEF Dotted

\* So does a step, if the first dot does.
LEMMA StepKeeps ==
    ASSUME NEW G \in SUBSET States, Kept(G), NEW z \in Seq(Chars), NEW i \in 1..Len(z),
           NEW s \in G, i = 1 /\ z[1] = "." => Dotted(s) \in G
    PROVE  Step(z, s, i) \in G
<1>1. z[i] \in Chars
  OBVIOUS
<1>2. /\ RootNode \in Nodes
      /\ \A t \in States : KeyNode(t.tok) \in Nodes /\ IndexNode(ToInt(TokenNumber(t.tok))) \in Nodes
  BY DEF Nodes, States
<1>3. /\ Fail(s) \in G
      /\ \A st \in StateNames : Goto(s, st) \in G /\ Take(s, z[i], st) \in G
      /\ \A t \in G, st \in StateNames, node \in Nodes : EndToken(t, node, st) \in G
      /\ \A t \in G, b \in BOOLEAN : [t EXCEPT !.skip = b] \in G
  BY <1>1 DEF Kept
<1>4. s.st \in StateNames
  BY DEF States
<1>5. Transition(z, i, s) \in G
  <2> USE DEF StateNames
  <2>1. AtNull(s, z[i], i = 1) \in G
    <3>1. CASE z[i] # "."
      BY <1>3, <3>1 DEF AtNull
    <3>2. CASE z[i] = "." /\ i = 1
      <4>1. (i = 1) = TRUE
        BY <3>2
      <4> QED BY <3>2, <4>1, AtDot
    <3>3. CASE z[i] = "." /\ i # 1
      <4>1. (i = 1) = FALSE
        BY <3>3
      <4> QED BY <1>3, <3>3, <4>1, AtDot
    <3> QED BY <3>1, <3>2, <3>3
  <2>2. InBracket(s, z[i]) \in G
    BY <1>3 DEF InBracket
  <2>3. InNumber(s, z[i]) \in G
    BY <1>2, <1>3 DEF InNumber
  <2>4. InIdent(s, z[i]) \in G
    BY <1>2, <1>3 DEF InIdent
  <2>5. EndQuoted(z, i, s) \in G
    <3>1. EndToken(s, KeyNode(s.tok), "NULL") \in G
      BY <1>2, <1>3
    <3> QED BY <1>3, <3>1 DEF EndQuoted
  <2> QED BY <1>3, <1>4, <2>1, <2>2, <2>3, <2>4, <2>5 DEF Transition
<1>6. \A t \in G : AtEnd(z, i, t) \in G
  <2> SUFFICES ASSUME NEW t \in G PROVE AtEnd(z, i, t) \in G
    OBVIOUS
  <2>1. KeyOrRoot(z, t) \in Nodes
    BY <1>2 DEF KeyOrRoot
  <2>2. EndToken(t, KeyOrRoot(z, t), "NULL") \in G
    BY <1>3, <2>1 DEF StateNames
  <2> QED BY <2>2 DEF AtEnd
<1> QED BY <1>3, <1>5, <1>6 DEF Step

\* The fields of a state after each change.
LEMMA Fields ==
    ASSUME NEW s \in States, NEW st \in StateNames, NEW c \in Chars, NEW node \in Nodes,
           NEW b \in BOOLEAN
    PROVE  /\ Fail(s) \in States /\ Goto(s, st) \in States /\ Take(s, c, st) \in States
           /\ EndToken(s, node, st) \in States /\ [s EXCEPT !.skip = b] \in States
           /\ EndToken(s, node, st).nodes = Append(s.nodes, node)
           /\ EndToken(s, node, st).cap = AppendCap(Len(s.nodes), s.cap)
           /\ EndToken(s, node, st).hasLeadingDot = s.hasLeadingDot
<1>1. Append(s.tok, c) \in Seq(Chars)
  BY DEF States
<1>2. AppendCap(Len(s.nodes), s.cap) \in 0..CapLimit
  <2>1. Len(s.nodes) \in Nat /\ s.cap \in 0..CapLimit
    BY DEF States
  <2> QED BY <2>1, AppendCapFits
<1>3. Append(s.nodes, node) \in Seq(Nodes) /\ <<>> \in Seq(Chars)
  BY DEF States
<1>4. Fail(s) \in States /\ Goto(s, st) \in States /\ [s EXCEPT !.skip = b] \in States
  BY DEF States, Fail, Goto
<1>5. Take(s, c, st) \in States
  BY <1>1 DEF States, Take
<1>6. /\ EndToken(s, node, st) \in States
      /\ EndToken(s, node, st).nodes = Append(s.nodes, node)
      /\ EndToken(s, node, st).cap = AppendCap(Len(s.nodes), s.cap)
      /\ EndToken(s, node, st).hasLeadingDot = s.hasLeadingDot
  BY <1>2, <1>3 DEF States, EndToken
<1> QED BY <1>4, <1>5, <1>6

\* The states with room for their nodes: ending a token writes within the
\* array, and the other changes leave the array alone.
Fitting == {s \in States : Fits(s)}

\* Nothing that happens to a state writes behind the array.
LEMMA FittingKept == Kept(Fitting) /\ \A s \in Fitting : Dotted(s) \in Fitting
<1>1. ASSUME NEW s \in Fitting, NEW st \in StateNames, NEW node \in Nodes
      PROVE  EndToken(s, node, st) \in Fitting
  <2> DEFINE t == EndToken(s, node, st)
  <2>1. s \in States /\ Len(s.nodes) \in Nat /\ s.cap \in 0..CapLimit /\ Fits(s)
    BY DEF States, Fitting
  <2>2. "." \in Chars
    BY DEF Chars, Marks
  <2>3. /\ t \in States /\ t.nodes = Append(s.nodes, node)
        /\ t.cap = AppendCap(Len(s.nodes), s.cap)
    BY <2>1, <2>2, Fields
  <2>4. Len(t.nodes) = Len(s.nodes) + 1
    BY <2>1, <2>3 DEF States
  <2> HIDE DEF t
  <2>5. Fits(t)
    <3>1. CapLimit \in Nat
      BY CapLimitAssumption
    <3>2. SUFFICES ASSUME Len(s.nodes) + 1 <= CapLimit
                   PROVE  Len(s.nodes) + 1 <= AppendCap(Len(s.nodes), s.cap)
      BY <2>3, <2>4 DEF Fits
    <3>3. Len(s.nodes) <= s.cap
      BY <2>1, <3>1, <3>2 DEF Fits
    <3> QED BY <2>1, <3>2, <3>3, AppendCapFits
  <2> QED BY <2>3, <2>5 DEF Fitting, t
<1>2. ASSUME NEW s \in Fitting, NEW st \in StateNames, NEW c \in Chars, NEW b \in BOOLEAN
      PROVE  /\ Fail(s) \in Fitting /\ Goto(s, st) \in Fitting /\ Take(s, c, st) \in Fitting
             /\ [s EXCEPT !.skip = b] \in Fitting /\ Dotted(s) \in Fitting
  <2>1. Append(s.tok, c) \in Seq(Chars)
    BY DEF States, Fitting
  <2>2. s \in States /\ Fits(s)
    BY DEF Fitting
  <2> QED BY <2>1, <2>2 DEF Fitting, States, StateNames, Fits, Fail, Goto, Take, Dotted
<1>3. "NULL" \in StateNames /\ "." \in Chars
  BY DEF StateNames, Chars, Marks
<1> QED BY <1>1, <1>2, <1>3 DEF Kept

\* One character.
LEMMA StepFits ==
    ASSUME NEW z \in Seq(Chars), NEW i \in 1..Len(z), NEW s \in States, Fits(s)
    PROVE  Step(z, s, i) \in States /\ Fits(Step(z, s, i))
<1>1. Fitting \in SUBSET States /\ s \in Fitting
  BY DEF Fitting
<1>2. Step(z, s, i) \in Fitting
  BY <1>1, FittingKept, StepKeeps
<1> QED BY <1>2 DEF Fitting

-----------------------------------------------------------------------------
(* The states it goes through.                                             *)

Reading == INSTANCE Folding WITH op <- ReadAt

\* t holds the state before each character of z and after the last.
Reads(t, z) == t[0] = Start /\ \A i \in 1..Len(z) : t[i] = Step(z, t[i - 1], i)

\* The tokenizer goes through such states.
LEMMA ReadsAll ==
    ASSUME NEW z \in Seq(Chars)
    PROVE  \E t : Reads(t, z) /\ Tokenize(z) = t[Len(z)]
<1>1. Len(z) \in Nat /\ DOMAIN Places(z) = 1..Len(z)
  BY DEF Places
<1>2. PICK t : /\ Reading!Traces(Start, t, Places(z), Len(z))
               /\ Reading!FoldLeft(ReadAt, Start, Places(z)) = t[Len(z)]
  BY <1>1, Reading!FoldLeftTrace
<1>3. Reads(t, z)
  BY <1>2 DEF Reading!Traces, Reads, Places, ReadAt
<1>4. Tokenize(z) = t[Len(z)]
  BY <1>2 DEF Tokenize, FoldLeft, Reading!FoldLeft, MapThenFoldSet,
              Reading!MapThenFoldSet, Max, Reading!Max
<1> QED BY <1>3, <1>4

\* Every state it goes through has its type and room for its nodes.
LEMMA ReadsFit ==
    ASSUME NEW z \in Seq(Chars), NEW t, Reads(t, z)
    PROVE  \A i \in 0..Len(z) : t[i] \in States /\ Fits(t[i])
<1> DEFINE S == {i \in Nat : i \in 0..Len(z) => t[i] \in States /\ Fits(t[i])}
<1>1. 0 \in S
  <2>1. <<>> \in Seq(Chars) /\ <<>> \in Seq(Nodes) /\ Len(<<>>) = 0
    OBVIOUS
  <2>2. Start \in States /\ Fits(Start)
    BY <2>1, CapLimitAssumption DEF Start, States, StateNames, Fits
  <2> QED BY <2>2 DEF Reads
<1>2. ASSUME NEW i \in Nat, i \in S PROVE i + 1 \in S
  <2> SUFFICES ASSUME i + 1 \in 0..Len(z) PROVE t[i + 1] \in States /\ Fits(t[i + 1])
    OBVIOUS
  <2>1. i + 1 \in 1..Len(z) /\ i \in 0..Len(z) /\ (i + 1) - 1 = i
    OBVIOUS
  <2>2. t[i + 1] = Step(z, t[i], i + 1)
    BY <2>1 DEF Reads
  <2>3. t[i] \in States /\ Fits(t[i])
    BY <1>2, <2>1
  <2> QED BY <2>1, <2>2, <2>3, StepFits
<1> HIDE DEF S
<1>3. \A i \in Nat : i \in S
  BY <1>1, <1>2, Reading!NatSet
<1> QED BY <1>3 DEF S

-----------------------------------------------------------------------------
(* A path and the same path without its leading dot.                       *)

\* The flag is raised by a dot that is the first character.
LEMMA DotIsFirst ==
    ASSUME NEW z \in Seq(Chars), NEW i \in 1..Len(z), NEW s \in States,
           Step(z, s, i).hasLeadingDot
    PROVE  s.hasLeadingDot \/ (i = 1 /\ z[1] = ".")
<1> DEFINE G == {t \in States : t.hasLeadingDot = FALSE}
<1> SUFFICES ASSUME ~s.hasLeadingDot, ~(i = 1 /\ z[1] = ".") PROVE Step(z, s, i) \in G
  OBVIOUS
<1>1. Kept(G)
  <2>1. ASSUME NEW t \in G, NEW st \in StateNames, NEW c \in Chars, NEW node \in Nodes,
               NEW b \in BOOLEAN
        PROVE  /\ Fail(t) \in G /\ Goto(t, st) \in G /\ Take(t, c, st) \in G
               /\ EndToken(t, node, st) \in G /\ [t EXCEPT !.skip = b] \in G
    <3>1. /\ Fail(t) \in States /\ Goto(t, st) \in States /\ Take(t, c, st) \in States
          /\ EndToken(t, node, st) \in States /\ [t EXCEPT !.skip = b] \in States
          /\ EndToken(t, node, st).hasLeadingDot = t.hasLeadingDot
      BY Fields
    <3>2. /\ Fail(t).hasLeadingDot = FALSE /\ Goto(t, st).hasLeadingDot = FALSE
          /\ Take(t, c, st).hasLeadingDot = FALSE
          /\ [t EXCEPT !.skip = b].hasLeadingDot = FALSE
      BY DEF States, Fail, Goto, Take
    <3> QED BY <3>1, <3>2
  <2>2. "NULL" \in StateNames /\ "." \in Chars /\ RootNode \in Nodes
    BY DEF StateNames, Chars, Marks, Nodes
  <2> HIDE DEF G
  <2> QED BY <2>1, <2>2 DEF Kept
<1>2. s \in G /\ G \in SUBSET States
  BY DEF States
<1> HIDE DEF G
<1> QED BY <1>1, <1>2, StepKeeps

\* What the tokenizer of the whole path and that of the rest agree about.
Same(s, u) ==
    /\ s \in States /\ u \in States
    /\ s.st = u.st /\ s.tok = u.tok /\ s.nodes = u.nodes
    /\ s.skip = u.skip /\ s.err = u.err

Agree(s, u) == s.err \/ Same(s, u)

\* A change of state keeps the agreement.
LEMMA SameMove ==
    ASSUME NEW s, NEW u, Same(s, u)
    PROVE  /\ Fail(s).err
           /\ \A st \in StateNames : Same(Goto(s, st), Goto(u, st))
           /\ \A st \in StateNames, c \in Chars : Same(Take(s, c, st), Take(u, c, st))
           /\ \A b, d \in BOOLEAN : Same([s EXCEPT !.hasLeadingDot = b], [u EXCEPT !.hasLeadingDot = d])
           /\ \A b \in BOOLEAN : Same([s EXCEPT !.skip = b], [u EXCEPT !.skip = b])
           /\ \A st \in StateNames, node \in Nodes : Same(EndToken(s, node, st), EndToken(u, node, st))
<1>1. Fail(s).err
  BY DEF Same, States, Fail
<1>2. ASSUME NEW st \in StateNames PROVE Same(Goto(s, st), Goto(u, st))
  BY <1>2 DEF Same, States, Goto
<1>3. ASSUME NEW st \in StateNames, NEW c \in Chars PROVE Same(Take(s, c, st), Take(u, c, st))
  <2>1. Append(s.tok, c) \in Seq(Chars)
    BY DEF Same, States
  <2> QED BY <1>3, <2>1 DEF Same, States, Take
<1>4. ASSUME NEW b \in BOOLEAN, NEW d \in BOOLEAN
      PROVE  Same([s EXCEPT !.hasLeadingDot = b], [u EXCEPT !.hasLeadingDot = d])
  BY <1>4 DEF Same, States
<1>5. ASSUME NEW b \in BOOLEAN PROVE Same([s EXCEPT !.skip = b], [u EXCEPT !.skip = b])
  BY <1>5 DEF Same, States
<1>6. ASSUME NEW st \in StateNames, NEW node \in Nodes
      PROVE  Same(EndToken(s, node, st), EndToken(u, node, st))
  <2>1. s \in States /\ u \in States
    BY DEF Same
  <2>2. /\ AppendCap(Len(s.nodes), s.cap) \in 0..CapLimit
        /\ AppendCap(Len(u.nodes), u.cap) \in 0..CapLimit
    BY <2>1, AppendCapFits DEF States
  <2>3. <<>> \in Seq(Chars) /\ Append(s.nodes, node) \in Seq(Nodes)
    BY <2>1 DEF States
  <2> QED BY <2>1, <2>2, <2>3 DEF Same, States, EndToken
<1> QED BY <1>1, <1>2, <1>3, <1>4, <1>5, <1>6

\* Reading the same character keeps it, past the first two.
LEMMA StepSame ==
    ASSUME NEW z \in Seq(Chars), NEW i \in 3..Len(z), NEW s, NEW u, Agree(s, u)
    PROVE  Agree(Step(z, s, i), Step(Tail(z), u, i - 1))
<1> DEFINE r == Tail(z)
           j == i - 1
           c == z[i]
<1>1. /\ r \in Seq(Chars) /\ Len(r) = Len(z) - 1
      /\ j \in 2..Len(r) /\ i # 1 /\ j # 1
      /\ (i = Len(z)) = (j = Len(r)) /\ (i < Len(z)) = (j < Len(r))
      /\ r[j] = c /\ c \in Chars
  OBVIOUS
<1>2. i < Len(z) => r[j + 1] = z[i + 1]
  OBVIOUS
<1>3. Len(z) # 1 /\ Len(r) # 1
  BY <1>1
<1>4. z # <<".">> /\ r # <<".">>
  <2>1. Len(<<".">>) = 1
    OBVIOUS
  <2> QED BY <1>3, <2>1
<1>5. (i = 1) = FALSE /\ (j = 1) = FALSE
  BY <1>1
<1> HIDE DEF r, j, c
<1> SUFFICES ASSUME ~s.err PROVE Agree(Step(z, s, i), Step(r, u, j))
  BY DEF Agree, Step, r, j
<1>6. Same(s, u) /\ ~u.err
  BY DEF Agree, Same
<1>7. s.st \in StateNames /\ s.skip \in BOOLEAN /\ s.st = u.st /\ s.tok = u.tok /\ s.skip = u.skip
  BY <1>6 DEF Same, States
<1>8. /\ \A st \in StateNames : Agree(Goto(s, st), Goto(u, st)) /\ Agree(Take(s, c, st), Take(u, c, st))
      /\ \A st \in StateNames, node \in Nodes : Agree(EndToken(s, node, st), EndToken(u, node, st))
  BY <1>1, <1>6, SameMove DEF Agree
<1>9. KeyNode(s.tok) \in Nodes /\ IndexNode(ToInt(TokenNumber(s.tok))) \in Nodes
  BY <1>6 DEF Nodes, Same, States
<1>10. Agree(Transition(z, i, s), Transition(r, j, u))
  <2> USE DEF StateNames
  <2>8. c \in {"\"", "'", "-"} => ~isdigit(c)
    BY MarksApart DEF Marks
  <2>1. Agree(Fail(s), Fail(u))
    BY <1>6, SameMove DEF Agree
  <2>2. Agree(AtNull(s, c, FALSE), AtNull(u, c, FALSE))
    <3>1. CASE c = "."
      BY <1>6, <1>8, <3>1, AtDot DEF Same
    <3>2. CASE c # "."
      BY <1>8, <2>1, <3>2 DEF AtNull
    <3> QED BY <3>1, <3>2
  <2>3. Agree(InBracket(s, c), InBracket(u, c))
    <3>1. CASE isdigit(c)
      BY <1>8, <2>8, <3>1 DEF InBracket
    <3>2. CASE c = "-"
      BY <1>8, <2>8, <3>2 DEF InBracket
    <3>3. CASE c \in {"\"", "'"}
      BY <1>8, <2>8, <3>3 DEF InBracket
    <3>4. CASE ~isdigit(c) /\ c \notin {"\"", "'", "-"}
      BY <2>1, <3>4 DEF InBracket
    <3> QED BY <3>1, <3>2, <3>3, <3>4
  <2>4. Agree(InNumber(s, c), InNumber(u, c))
    BY <1>7, <1>8, <1>9, <2>1 DEF InNumber
  <2>5. Agree(InIdent(s, c), InIdent(u, c))
    BY <1>7, <1>8, <1>9, <2>1 DEF InIdent
  <2>6. Agree(EndQuoted(z, i, s), EndQuoted(r, j, u))
    <3>1. Same(EndToken(s, KeyNode(s.tok), "NULL"), EndToken(u, KeyNode(s.tok), "NULL"))
      BY <1>6, <1>9, SameMove
    <3>2. Agree([EndToken(s, KeyNode(s.tok), "NULL") EXCEPT !.skip = TRUE],
                [EndToken(u, KeyNode(s.tok), "NULL") EXCEPT !.skip = TRUE])
      BY <3>1, SameMove DEF Agree
    <3> QED BY <1>1, <1>2, <1>7, <2>1, <3>2 DEF EndQuoted
  <2>7. Transition(z, i, s) = Transition(z, i, s) /\ z[i] = c /\ r[j] = c
    BY <1>1 DEF c
  <2> QED BY <1>5, <1>7, <1>8, <2>1, <2>2, <2>3, <2>4, <2>5, <2>6, <2>7 DEF Transition
<1>11. \A x, y : Agree(x, y) => Agree(AtEnd(z, i, x), AtEnd(r, j, y))
  <2> SUFFICES ASSUME NEW x, NEW y, Agree(x, y) PROVE Agree(AtEnd(z, i, x), AtEnd(r, j, y))
    OBVIOUS
  <2>1. CASE x.err
    BY <2>1 DEF AtEnd, Agree
  <2>2. CASE ~x.err
    <3>1. Same(x, y)
      BY <2>2 DEF Agree
    <3>2. KeyOrRoot(z, x) = KeyNode(x.tok) /\ KeyOrRoot(r, y) = KeyNode(x.tok)
      BY <1>4, <3>1 DEF KeyOrRoot, Same
    <3>3. KeyNode(x.tok) \in Nodes
      BY <3>1 DEF Nodes, Same, States
    <3>4. Same(EndToken(x, KeyNode(x.tok), "NULL"), EndToken(y, KeyNode(x.tok), "NULL"))
      BY <3>1, <3>3, SameMove DEF StateNames
    <3>5. x.st = y.st /\ x.err = y.err
      BY <3>1 DEF Same
    <3> QED BY <1>1, <3>1, <3>2, <3>4, <3>5 DEF AtEnd, Agree
  <2> QED BY <2>1, <2>2
<1>12. Agree([s EXCEPT !.skip = FALSE], [u EXCEPT !.skip = FALSE])
  BY <1>6, SameMove DEF Agree
<1> QED BY <1>6, <1>7, <1>10, <1>11, <1>12 DEF Step

\* Nor can the first two characters tell a path with a leading dot from the
\* same path without: the name that must follow the dot may begin a path.
LEMMA StepSameAtStart ==
    ASSUME NEW z \in Seq(Chars), 2 \in 1..Len(z), z[1] = "."
    PROVE  Agree(Step(z, Step(z, Start, 1), 2), Step(Tail(z), Start, 1))
<1> DEFINE r == Tail(z)
           c == z[2]
           s == Dotted(Start)
<1>1. /\ r \in Seq(Chars) /\ Len(r) = Len(z) - 1 /\ 1 \in 1..Len(r)
      /\ (2 = Len(z)) = (1 = Len(r)) /\ Len(z) # 1
      /\ r[1] = c /\ c \in Chars
  OBVIOUS
<1>2. z # <<".">>
  <2>1. Len(<<".">>) = 1
    OBVIOUS
  <2> QED BY <1>1, <2>1
<1>3. Start \in States /\ Start.st = "NULL" /\ ~Start.err /\ ~Start.skip
  <2>1. <<>> \in Seq(Chars) /\ <<>> \in Seq(Nodes)
    OBVIOUS
  <2> QED BY <2>1, CapLimitAssumption DEF Start, States, StateNames
<1>4. Step(z, Start, 1) = s
  <2>1. AtNull(Start, ".", TRUE) = s
    BY <1>3, AtDot
  <2>2. (1 = 1) = TRUE
    OBVIOUS
  <2>3. Transition(z, 1, Start) = s
    BY <1>3, <2>1, <2>2 DEF Transition
  <2> HIDE DEF s
  <2>4. AtEnd(z, 1, s) = s
    BY <1>1 DEF AtEnd
  <2> QED BY <1>3, <2>3, <2>4 DEF Step
<1>5. s \in States /\ s.st = "ROOT" /\ ~s.err /\ ~s.skip /\ s.tok = Start.tok /\ s.nodes = Start.nodes
  BY <1>3 DEF Dotted, Goto, States, StateNames
<1> HIDE DEF s, r, c
<1>6. Step(z, s, 2) = AtEnd(z, 2, Transition(z, 2, s))
  BY <1>5 DEF Step
<1>7. Transition(z, 2, s) = IF IdentFirst(c) THEN Take(s, c, "IDENT") ELSE Fail(s)
  BY <1>5 DEF Transition, c
<1>8. CASE IdentFirst(c)
  <2>1. c \notin Marks
    BY <1>8, MarksApart
  <2>2. Transition(r, 1, Start) = Take(Start, c, "IDENT")
    BY <1>1, <1>3, <1>8, <2>1 DEF Transition, AtNull, Marks
  <2>3. Step(r, Start, 1) = AtEnd(r, 1, Take(Start, c, "IDENT"))
    BY <1>3, <2>2 DEF Step
  <2> DEFINE x == Take(s, c, "IDENT")
             y == Take(Start, c, "IDENT")
  <2>4. Same(x, y) /\ x.st = "IDENT" /\ ~x.err
    <3>1. Append(Start.tok, c) \in Seq(Chars)
      BY <1>1, <1>3 DEF States
    <3> QED BY <1>3, <1>5, <3>1 DEF Same, States, StateNames, Take
  <2> HIDE DEF x, y
  <2>5. r # <<".">>
    <3>1. <<".">>[1] = "."
      OBVIOUS
    <3> QED BY <1>1, <2>1, <3>1 DEF Marks
  <2>6. KeyOrRoot(z, x) = KeyNode(x.tok) /\ KeyOrRoot(r, y) = KeyNode(x.tok)
    BY <1>2, <2>4, <2>5 DEF KeyOrRoot, Same
  <2>7. KeyNode(x.tok) \in Nodes
    BY <2>4 DEF Nodes, Same, States
  <2>8. Same(EndToken(x, KeyNode(x.tok), "NULL"), EndToken(y, KeyNode(x.tok), "NULL"))
    BY <2>4, <2>7, SameMove DEF StateNames
  <2>9. y.st = "IDENT" /\ ~y.err
    BY <2>4 DEF Same
  <2>10. Agree(AtEnd(z, 2, x), AtEnd(r, 1, y))
    BY <1>1, <2>4, <2>6, <2>8, <2>9 DEF AtEnd, Agree
  <2> QED BY <1>4, <1>6, <1>7, <1>8, <2>3, <2>10 DEF x, y, r
<1>9. CASE ~IdentFirst(c)
  <2>1. Fail(s).err
    BY <1>5 DEF Fail, States
  <2>2. AtEnd(z, 2, Fail(s)) = Fail(s)
    BY <2>1 DEF AtEnd
  <2> QED BY <1>4, <1>6, <1>7, <1>9, <2>1, <2>2 DEF Agree
<1> QED BY <1>8, <1>9

\* Up to the end.
LEMMA ReadsAgree ==
    ASSUME NEW z \in Seq(Chars), 2 \in 1..Len(z), z[1] = ".", NEW t, Reads(t, z),
           NEW v, Reads(v, Tail(z))
    PROVE  Agree(t[Len(z)], v[Len(Tail(z))])
<1> DEFINE S == {k \in Nat : k + 2 \in 2..Len(z) => Agree(t[k + 2], v[k + 1])}
<1>1. Len(z) \in Nat /\ Len(z) >= 2 /\ Len(Tail(z)) = Len(z) - 1
  OBVIOUS
<1>2. 0 \in S
  <2>1. t[0] = Start /\ v[0] = Start
    BY DEF Reads
  <2>2. t[1] = Step(z, t[0], 1) /\ t[2] = Step(z, t[1], 2) /\ v[1] = Step(Tail(z), v[0], 1)
    <3>1. 1 \in 1..Len(z) /\ 1 \in 1..Len(Tail(z)) /\ 1 - 1 = 0 /\ 2 - 1 = 1
      BY <1>1
    <3> QED BY <3>1 DEF Reads
  <2>3. Agree(t[2], v[1])
    BY <2>1, <2>2, StepSameAtStart
  <2> QED BY <2>3
<1>3. ASSUME NEW k \in Nat, k \in S PROVE k + 1 \in S
  <2> SUFFICES ASSUME (k + 1) + 2 \in 2..Len(z) PROVE Agree(t[(k + 1) + 2], v[(k + 1) + 1])
    OBVIOUS
  <2>1. /\ k + 2 \in 2..Len(z) /\ k + 3 \in 3..Len(z) /\ k + 3 \in 1..Len(z)
        /\ (k + 3) - 1 = k + 2 /\ (k + 2) - 1 = k + 1 /\ k + 2 \in 1..Len(Tail(z))
        /\ (k + 1) + 2 = k + 3 /\ (k + 1) + 1 = k + 2
    BY <1>1
  <2>2. t[k + 3] = Step(z, t[k + 2], k + 3) /\ v[k + 2] = Step(Tail(z), v[k + 1], k + 2)
    BY <2>1 DEF Reads
  <2>3. Agree(t[k + 2], v[k + 1])
    BY <1>3, <2>1
  <2>4. Agree(Step(z, t[k + 2], k + 3), Step(Tail(z), v[k + 1], (k + 3) - 1))
    BY <2>1, <2>3, StepSame
  <2> QED BY <2>1, <2>2, <2>4
<1> HIDE DEF S
<1>4. \A k \in Nat : k \in S
  BY <1>2, <1>3, Reading!NatSet
<1>5. Len(z) - 2 \in S
  BY <1>1, <1>4
<1> QED BY <1>1, <1>5 DEF S

\* The flag is only raised on a path that begins with a dot.
LEMMA DotRead ==
    ASSUME NEW z \in Seq(Chars), NEW t, Reads(t, z), t[Len(z)].hasLeadingDot
    PROVE  1 \in 1..Len(z) /\ z[1] = "."
<1> DEFINE S == {i \in Nat : i \in 0..Len(z) =>
                   ~t[i].hasLeadingDot \/ (1 \in 1..Len(z) /\ z[1] = ".")}
<1>1. 0 \in S
  BY DEF Reads, Start
<1>2. ASSUME NEW i \in Nat, i \in S PROVE i + 1 \in S
  <2> SUFFICES ASSUME i + 1 \in 0..Len(z), t[i + 1].hasLeadingDot
               PROVE  1 \in 1..Len(z) /\ z[1] = "."
    OBVIOUS
  <2>1. i + 1 \in 1..Len(z) /\ i \in 0..Len(z) /\ (i + 1) - 1 = i /\ 1 \in 1..Len(z)
    OBVIOUS
  <2>2. t[i + 1] = Step(z, t[i], i + 1)
    BY <2>1 DEF Reads
  <2>3. t[i] \in States
    BY <2>1, ReadsFit
  <2>4. t[i].hasLeadingDot \/ z[1] = "."
    BY <2>1, <2>2, <2>3, DotIsFirst
  <2> QED BY <1>2, <2>1, <2>4
<1> HIDE DEF S
<1>3. \A i \in Nat : i \in S
  BY <1>1, <1>2, Reading!NatSet
<1>4. Len(z) \in Nat /\ Len(z) \in 0..Len(z)
  OBVIOUS
<1> QED BY <1>3, <1>4 DEF S

\* The string by which getSerializedJson and maybeClearPathCache know a path,
\* the path without a leading dot, is accepted, and has the nodes of the path
\* but for that of the root.
LEMMA CachePathReads ==
    ASSUME NEW z \in Seq(Chars), ParseJSONPath(z).ok
    PROVE  LET p == ParseJSONPath(z)
               q == ParseJSONPath(CachePath(z))
           IN  q.ok /\ (q.nodes = p.nodes \/ (SearchPath_IsRootPath(p.nodes) /\ q.nodes = <<>>))
<1> DEFINE r == Tail(z)
           p == ParseJSONPath(z)
           q == ParseJSONPath(r)
<1>1. PICK t : Reads(t, z) /\ Tokenize(z) = t[Len(z)]
  BY ReadsAll
<1>2. /\ p.ok = (~t[Len(z)].err /\ t[Len(z)].st = "NULL")
      /\ p.nodes = t[Len(z)].nodes
      /\ p.hasLeadingDot = t[Len(z)].hasLeadingDot
  BY <1>1 DEF ParseJSONPath
<1>3. CASE ~p.hasLeadingDot
  BY <1>3 DEF CachePath
<1>4. CASE p.hasLeadingDot
  <2>1. CachePath(z) = r
    BY <1>4 DEF CachePath
  <2>2. z \in Seq(Chars) /\ 1 \in 1..Len(z) /\ z[1] = "."
    BY <1>1, <1>2, <1>4, DotRead
  <2>3. r \in Seq(Chars) /\ Len(r) = Len(z) - 1 /\ Len(z) \in Nat
    BY <2>2
  <2>4. PICK v : Reads(v, r) /\ Tokenize(r) = v[Len(r)]
    BY <2>3, ReadsAll
  <2>5. /\ q.ok = (~v[Len(r)].err /\ v[Len(r)].st = "NULL")
        /\ q.nodes = v[Len(r)].nodes
    BY <2>4 DEF ParseJSONPath
  <2>6. CASE 2 \in 1..Len(z)
    <3>1. Agree(t[Len(z)], v[Len(r)])
      BY <1>1, <2>2, <2>4, <2>6, ReadsAgree
    <3>2. Same(t[Len(z)], v[Len(r)])
      BY <1>2, <3>1 DEF Agree
    <3>3. q.ok /\ q.nodes = p.nodes
      BY <1>2, <2>5, <3>2 DEF Same
    <3> QED BY <2>1, <3>3
  <2>7. CASE 2 \notin 1..Len(z)
    <3>1. Len(z) = 1 /\ Len(r) = 0 /\ z = <<".">>
      BY <2>2, <2>3, <2>7
    <3>2. v[Len(r)] = Start
      BY <2>4, <3>1 DEF Reads
    <3>3. q.ok /\ q.nodes = <<>>
      <4>1. ~Start.err /\ Start.st = "NULL" /\ Start.nodes = <<>>
        BY DEF Start
      <4> QED BY <2>5, <3>2, <4>1
    <3>4. t[0] = Start /\ t[Len(z)] = Step(z, Start, 1)
      <4>1. 1 \in 1..Len(z) /\ 1 - 1 = 0
        BY <2>2
      <4> QED BY <1>1, <3>1, <4>1 DEF Reads
    <3>5. Step(z, Start, 1) = EndToken(Dotted(Start), RootNode, "NULL")
      <4>1. Start \in States
        <5>1. 0 \in 0..Len(z)
          BY <2>3
        <5> QED BY <1>1, <2>2, <3>4, <5>1, ReadsFit
      <4>2. Start.st = "NULL" /\ ~Start.err /\ ~Start.skip
        BY DEF Start
      <4>3. Transition(z, 1, Start) = Dotted(Start)
        <5>1. (1 = 1) = TRUE /\ z[1] = "."
          BY <2>2
        <5> QED BY <4>1, <4>2, <5>1, AtDot DEF Transition
      <4>4. Dotted(Start).st = "ROOT" /\ ~Dotted(Start).err
        BY <4>1, <4>2 DEF Dotted, Goto, States
      <4>5. AtEnd(z, 1, Dotted(Start)) = EndToken(Dotted(Start), RootNode, "NULL")
        BY <3>1, <4>4 DEF AtEnd, KeyOrRoot
      <4> QED BY <4>2, <4>3, <4>5 DEF Step
    <3>6. p.nodes = <<RootNode>>
      <4>1. Dotted(Start) \in States /\ Dotted(Start).nodes = <<>>
        <5>1. <<>> \in Seq(Chars) /\ <<>> \in Seq(Nodes)
          OBVIOUS
        <5>2. Start \in States /\ Start.nodes = <<>>
          BY <5>1, CapLimitAssumption DEF Start, States, StateNames
        <5> QED BY <5>2 DEF Dotted, Goto, States, StateNames
      <4>2. EndToken(Dotted(Start), RootNode, "NULL").nodes = Append(<<>>, RootNode)
        <5>1. \A x \in States : EndToken(x, RootNode, "NULL").nodes = Append(x.nodes, RootNode)
          BY DEF EndToken, States
        <5> QED BY <4>1, <5>1
      <4>3. Append(<<>>, RootNode) = <<RootNode>>
        OBVIOUS
      <4> QED BY <1>2, <3>4, <3>5, <4>2, <4>3
    <3>7. SearchPath_IsRootPath(p.nodes)
      BY <3>6 DEF SearchPath_IsRootPath, RootNode
    <3> QED BY <2>1, <3>3, <3>7
  <2> QED BY <2>6, <2>7
<1> QED BY <1>3, <1>4

-----------------------------------------------------------------------------
(* The types of the nodes it makes.                                        *)

\* Only the nodes of indexes have an index.
PathNodes ==
    {pn \in [type : {"key", "index", "root"}, key : Seq(Chars), index : Int] :
        pn.type # "index" => pn.index = 0}

TypedStates == [st : StateNames, tok : Seq(Chars), nodes : Seq(PathNodes), cap : Int,
                hasLeadingDot : BOOLEAN, skip : BOOLEAN, err : BOOLEAN]

\* Outside a token, a node has been read.
Progress(s) == ~s.err /\ s.st = "NULL" => s.nodes # <<>>

\* A power of two is not zero, so that a number modulo it is one.
LEMMA Power ==
    ASSUME NEW n \in Nat
    PROVE  2^n \in Nat \ {0}
<1>1. IsFiniteSet(1..n) /\ Cardinality(1..n) = n
  BY FS_Interval
<1>2. IsFiniteSet(SUBSET (1..n)) /\ Cardinality(SUBSET (1..n)) = 2^n
  BY <1>1, FS_SUBSET
<1>3. Cardinality(SUBSET (1..n)) # 0
  BY <1>2, FS_EmptySet
<1>4. Cardinality(SUBSET (1..n)) \in Nat
  BY <1>2, FS_CardinalityType
<1> QED BY <1>2, <1>3, <1>4

\* The conversion to int gives an integer.
LEMMA ToIntType ==
    ASSUME NEW n \in Int
    PROVE  ToInt(n) \in Int
<1>1. IntBits \in Nat /\ IntBits - 1 \in Nat
  BY IntBitsAssumption
<1>2. 2^IntBits \in Nat \ {0} /\ 2^(IntBits - 1) \in Nat \ {0}
  BY <1>1, Power
<1> QED BY <1>2 DEF ToInt

Counting == INSTANCE Folding WITH op <- AddDigit

\* The number of an index token is a number.
LEMMA TokenNumberType ==
    ASSUME NEW tok \in Seq(Chars)
    PROVE  TokenNumber(tok) \in Int
<1>1. Len(tok) \in Nat /\ DOMAIN tok = 1..Len(tok)
  OBVIOUS
<1>2. PICK t : /\ Counting!Traces(0, t, tok, Len(tok))
               /\ Counting!FoldLeft(AddDigit, 0, tok) = t[Len(tok)]
  BY <1>1, Counting!FoldLeftTrace
<1>3. FoldLeft(AddDigit, 0, tok) = t[Len(tok)]
  BY <1>2 DEF FoldLeft, Counting!FoldLeft, MapThenFoldSet, Counting!MapThenFoldSet,
              Max, Counting!Max
<1> DEFINE S == {i \in Nat : i \in 0..Len(tok) => t[i] \in Int}
<1>4. 0 \in S
  BY <1>2 DEF Counting!Traces
<1>5. ASSUME NEW i \in Nat, i \in S PROVE i + 1 \in S
  <2> SUFFICES ASSUME i + 1 \in 0..Len(tok) PROVE t[i + 1] \in Int
    OBVIOUS
  <2>1. t[i] \in Int /\ i + 1 \in 1..Len(tok) /\ (i + 1) - 1 = i
    BY <1>1, <1>5
  <2>2. t[i + 1] = AddDigit(t[i], tok[i + 1])
    BY <1>2, <2>1 DEF Counting!Traces
  <2>3. \A c \in DOMAIN DigitValue : DigitValue[c] \in Int
    BY DEF DigitValue
  <2> QED BY <2>1, <2>2, <2>3 DEF AddDigit, isdigit
<1> HIDE DEF S
<1>6. Len(tok) \in S
  BY <1>1, <1>4, <1>5, Counting!NatSet
<1>7. t[Len(tok)] \in Int
  BY <1>1, <1>6 DEF S
<1> QED BY <1>3, <1>7 DEF TokenNumber

\* The changes of state.
LEMMA Changes ==
    ASSUME NEW s \in TypedStates, NEW st \in StateNames, NEW c \in Chars, NEW node \in PathNodes
    PROVE  /\ Fail(s) \in TypedStates /\ Fail(s).err
           /\ Goto(s, st) \in TypedStates /\ Goto(s, st).st = st
           /\ Take(s, c, st) \in TypedStates /\ Take(s, c, st).st = st
           /\ EndToken(s, node, st) \in TypedStates /\ EndToken(s, node, st).nodes # <<>>
<1>1. Append(s.tok, c) \in Seq(Chars)
  BY DEF TypedStates
<1>2. Append(s.nodes, node) \in Seq(PathNodes) /\ <<>> \in Seq(Chars)
  BY DEF TypedStates
<1>3. Append(s.nodes, node) # <<>>
  BY DEF TypedStates
<1>4. AppendCap(Len(s.nodes), s.cap) \in Int
  BY CapLimitAssumption DEF AppendCap, TypedStates
<1>5. Fail(s) \in TypedStates /\ Fail(s).err /\ Goto(s, st) \in TypedStates /\ Goto(s, st).st = st
  BY DEF TypedStates, Fail, Goto
<1>6. Take(s, c, st) \in TypedStates /\ Take(s, c, st).st = st
  BY <1>1 DEF TypedStates, Take
<1>7. EndToken(s, node, st) \in TypedStates /\ EndToken(s, node, st).nodes # <<>>
  BY <1>2, <1>3, <1>4 DEF TypedStates, EndToken
<1> QED BY <1>5, <1>6, <1>7

\* One character.
LEMMA StepTyped ==
    ASSUME NEW z \in Seq(Chars), NEW i \in 1..Len(z), NEW s \in TypedStates,
           Progress(s) \/ ~s.skip
    PROVE  Step(z, s, i) \in TypedStates /\ Progress(Step(z, s, i))
<1> DEFINE Good(t) == t \in TypedStates /\ Progress(t)
<1>1. z[i] \in Chars /\ s.st \in StateNames
  <2>1. z[i] \in Chars
    OBVIOUS
  <2> QED BY <2>1 DEF TypedStates
<1>2. /\ RootNode \in PathNodes
      /\ \A t \in TypedStates : KeyNode(t.tok) \in PathNodes /\ IndexNode(ToInt(TokenNumber(t.tok))) \in PathNodes
  <2>1. RootNode \in PathNodes
    <3>1. <<>> \in Seq(Chars)
      OBVIOUS
    <3> QED BY <3>1 DEF RootNode, PathNodes
  <2>2. ASSUME NEW t \in TypedStates
        PROVE  KeyNode(t.tok) \in PathNodes /\ IndexNode(ToInt(TokenNumber(t.tok))) \in PathNodes
    <3>1. t.tok \in Seq(Chars) /\ <<>> \in Seq(Chars)
      BY DEF TypedStates
    <3>2. ToInt(TokenNumber(t.tok)) \in Int
      BY <3>1, TokenNumberType, ToIntType
    <3> QED BY <3>1, <3>2 DEF KeyNode, IndexNode, PathNodes
  <2> QED BY <2>1, <2>2
<1>3. /\ Good(Fail(s))
      /\ \A st \in StateNames \ {"NULL"} : Good(Goto(s, st)) /\ Good(Take(s, z[i], st))
      /\ \A t \in TypedStates, st \in StateNames, node \in PathNodes : Good(EndToken(t, node, st))
  <2>1. RootNode \in PathNodes /\ "ROOT" \in StateNames
    BY <1>2 DEF StateNames
  <2>2. Good(Fail(s))
    BY <1>1, <2>1, Changes DEF Progress
  <2>3. ASSUME NEW st \in StateNames \ {"NULL"} PROVE Good(Goto(s, st)) /\ Good(Take(s, z[i], st))
    <3>1. /\ Goto(s, st) \in TypedStates /\ Goto(s, st).st = st
          /\ Take(s, z[i], st) \in TypedStates /\ Take(s, z[i], st).st = st
      BY <1>1, <2>1, Changes
    <3> QED BY <3>1 DEF Progress
  <2>4. ASSUME NEW t \in TypedStates, NEW st \in StateNames, NEW node \in PathNodes
        PROVE  Good(EndToken(t, node, st))
    <3>1. EndToken(t, node, st) \in TypedStates /\ EndToken(t, node, st).nodes # <<>>
      BY <1>1, Changes
    <3> QED BY <3>1 DEF Progress
  <2> QED BY <2>2, <2>3, <2>4
<1>4. EndToken(s, KeyNode(s.tok), "NULL") \in TypedStates /\ EndToken(s, KeyNode(s.tok), "NULL").nodes # <<>>
  <2>1. KeyNode(s.tok) \in PathNodes /\ "NULL" \in StateNames
    BY <1>2 DEF StateNames
  <2> QED BY <1>1, <2>1, Changes
<1>5. \A t \in TypedStates, b \in BOOLEAN : t.nodes # <<>> => Good([t EXCEPT !.skip = b])
  BY DEF TypedStates, Progress
<1> HIDE DEF Good
<1>6. Good(Transition(z, i, s))
  <2> USE DEF StateNames
  <2>1. Good(AtNull(s, z[i], i = 1))
    <3>1. CASE z[i] # "."
      <4>1. Good(IF z[i] = "[" THEN Goto(s, "BRACKET")
                 ELSE IF IdentFirst(z[i]) THEN Take(s, z[i], "IDENT") ELSE Fail(s))
        BY <1>3
      <4>2. z[i] = "[" => ~IdentFirst(z[i])
        BY LettersAssumption DEF IdentFirst, Marks
      <4> QED BY <1>3, <3>1, <4>1, <4>2 DEF AtNull
    <3>2. CASE z[i] = "."
      <4>1. ~IdentFirst(z[i])
        BY <3>2, LettersAssumption DEF IdentFirst, Marks
      <4>2. AtNull(s, z[i], i = 1) =
                [Goto(s, "ROOT") EXCEPT !.hasLeadingDot = Goto(s, "ROOT").hasLeadingDot \/ i = 1]
        BY <3>2, <4>1 DEF AtNull
      <4>3. (Goto(s, "ROOT").hasLeadingDot \/ i = 1) \in BOOLEAN
        OBVIOUS
      <4>4. Goto(s, "ROOT") \in TypedStates /\ Goto(s, "ROOT").st = "ROOT"
        BY <1>1, <1>2, Changes
      <4>5. \A t \in TypedStates, b \in BOOLEAN : t.st = "ROOT" => Good([t EXCEPT !.hasLeadingDot = b])
        BY DEF TypedStates, Progress, Good
      <4> QED BY <4>2, <4>3, <4>4, <4>5
    <3> QED BY <3>1, <3>2
  <2>2. Good(InBracket(s, z[i]))
    BY <1>3 DEF InBracket
  <2>3. Good(InNumber(s, z[i]))
    BY <1>2, <1>3 DEF InNumber
  <2>4. Good(InIdent(s, z[i]))
    BY <1>2, <1>3 DEF InIdent
  <2>5. Good(EndQuoted(z, i, s))
    <3>1. Good([EndToken(s, KeyNode(s.tok), "NULL") EXCEPT !.skip = TRUE])
      BY <1>5, <1>4
    <3> QED BY <1>3, <3>1 DEF EndQuoted
  <2> QED BY <1>1, <1>3, <2>1, <2>2, <2>3, <2>4, <2>5 DEF Transition
<1>7. Good(AtEnd(z, i, Transition(z, i, s)))
  <2> DEFINE t == Transition(z, i, s)
  <2>1. t \in TypedStates
    BY <1>6 DEF Good
  <2> HIDE DEF t
  <2>2. KeyOrRoot(z, t) \in PathNodes
    BY <1>2, <2>1 DEF KeyOrRoot
  <2>3. Good(EndToken(t, KeyOrRoot(z, t), "NULL"))
    BY <1>3, <2>1, <2>2 DEF StateNames
  <2>4. Good(t)
    BY <1>6 DEF t
  <2>5. Good(AtEnd(z, i, t))
    BY <2>3, <2>4 DEF AtEnd
  <2> QED BY <2>5 DEF t
<1>8. s.err => Good(s)
  BY DEF Good, Progress
<1>9. s.skip => Good([s EXCEPT !.skip = FALSE])
  BY DEF Good, Progress, TypedStates
<1>10. Good(Step(z, s, i))
  BY <1>7, <1>8, <1>9 DEF Step, TypedStates
<1> QED BY <1>10 DEF Good

\* What a path string is parsed to.
LEMMA ParsedTyped ==
    ASSUME NEW z \in Seq(Chars)
    PROVE  /\ ParseJSONPath(z).nodes \in Seq(PathNodes)
           /\ z # <<>> /\ ParseJSONPath(z).ok => ParseJSONPath(z).nodes # <<>>
<1>1. Len(z) \in Nat /\ DOMAIN Places(z) = 1..Len(z)
  BY DEF Places
<1>2. PICK t : /\ Reading!Traces(Start, t, Places(z), Len(z))
               /\ Reading!FoldLeft(ReadAt, Start, Places(z)) = t[Len(z)]
  BY <1>1, Reading!FoldLeftTrace
<1>3. t[0] = Start /\ \A i \in 1..Len(z) : t[i] = Step(z, t[i - 1], i)
  BY <1>2 DEF Reading!Traces, Places, ReadAt
<1>4. Tokenize(z) = t[Len(z)]
  BY <1>2 DEF Tokenize, FoldLeft, Reading!FoldLeft, MapThenFoldSet,
              Reading!MapThenFoldSet, Max, Reading!Max
<1> DEFINE S == {i \in Nat : i \in 0..Len(z) =>
                    t[i] \in TypedStates /\ (Progress(t[i]) \/ (i = 0 /\ ~t[i].skip))}
<1>5. 0 \in S
  <2>1. <<>> \in Seq(Chars) /\ <<>> \in Seq(PathNodes)
    OBVIOUS
  <2>2. "NULL" \in StateNames
    BY DEF StateNames
  <2>3. Start \in TypedStates /\ Start.skip = FALSE
    BY <2>1, <2>2 DEF Start, TypedStates
  <2> QED BY <1>3, <2>3
<1>6. ASSUME NEW i \in Nat, i \in S PROVE i + 1 \in S
  <2> SUFFICES ASSUME i + 1 \in 0..Len(z) PROVE t[i + 1] \in TypedStates /\ Progress(t[i + 1])
    OBVIOUS
  <2>1. i + 1 \in 1..Len(z) /\ i \in 0..Len(z) /\ (i + 1) - 1 = i
    BY <1>1
  <2>2. t[i + 1] = Step(z, t[i], i + 1)
    BY <1>3, <2>1
  <2>3. t[i] \in TypedStates /\ (Progress(t[i]) \/ ~t[i].skip)
    BY <1>6, <2>1
  <2> QED BY <2>1, <2>2, <2>3, StepTyped
<1> HIDE DEF S
<1>7. Len(z) \in S
  BY <1>1, <1>5, <1>6, Reading!NatSet
<1>8. t[Len(z)] \in TypedStates /\ (Len(z) # 0 => Progress(t[Len(z)]))
  BY <1>1, <1>7 DEF S
<1>9. z # <<>> => Len(z) # 0
  OBVIOUS
<1> QED BY <1>4, <1>8, <1>9 DEF ParseJSONPath, Progress, TypedStates
=============================================================================
