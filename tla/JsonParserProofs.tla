-------------------------- MODULE JsonParserProofs --------------------------
(***************************************************************************)
(* Proofs about JsonParser: the stack of nodes that the callbacks keep     *)
(* stays parallel to the stack of the lexer; and what the parser's state   *)
(* becomes over the tokens of a string, a number, a constant, an array and *)
(* an object as the serializer writes them.                                *)
(***************************************************************************)
EXTENDS JsonParser, SequenceTheorems, TLAPS

-----------------------------------------------------------------------------
(* Sequences of sequences, flattened.                                      *)

Joining == INSTANCE Folding WITH op <- LAMBDA a, b : a \o b

\* The values that the recursive function of FlattenSeq goes through.
Flattens(t, s, n) == t = [i \in 1..n |-> IF i = 1 THEN s[i] ELSE t[i - 1] \o s[i]]

\* There are such values for any number of sequences.
LEMMA FlattensExist ==
    ASSUME NEW s, NEW n \in Nat
    PROVE  \E t : Flattens(t, s, n)
<1> DEFINE S == {k \in Nat : \E t : Flattens(t, s, k)}
<1>1. 0 \in S
  <2>1. Flattens(<<>>, s, 0)
    BY DEF Flattens
  <2> QED BY <2>1
<1>2. ASSUME NEW k \in Nat, k \in S PROVE k + 1 \in S
  <2>1. PICK t : Flattens(t, s, k)
    BY <1>2
  <2> DEFINE u == [i \in 1..(k + 1) |->
                     IF i = k + 1 THEN (IF i = 1 THEN s[i] ELSE t[i - 1] \o s[i]) ELSE t[i]]
  <2>2. ASSUME NEW i \in 1..(k + 1) PROVE u[i] = IF i = 1 THEN s[i] ELSE u[i - 1] \o s[i]
    <3>1. CASE i = k + 1
      <4>1. i # 1 => i - 1 \in 1..(k + 1) /\ i - 1 # k + 1
        BY <3>1
      <4> QED BY <3>1, <4>1
    <3>2. CASE i # k + 1
      <4>1. i \in 1..k /\ (i # 1 => i - 1 \in 1..(k + 1) /\ i - 1 # k + 1)
        BY <3>2
      <4>2. t[i] = IF i = 1 THEN s[i] ELSE t[i - 1] \o s[i]
        BY <2>1, <4>1 DEF Flattens
      <4> QED BY <3>2, <4>1, <4>2
    <3> QED BY <3>1, <3>2
  <2>3. Flattens(u, s, k + 1)
    <3>1. DOMAIN u = 1..(k + 1) /\ u = [i \in 1..(k + 1) |-> u[i]]
      OBVIOUS
    <3> HIDE DEF u
    <3> QED BY <2>2, <3>1 DEF Flattens
  <2> QED BY <2>3
<1>3. n \in S
  <2> HIDE DEF S
  <2> QED BY <1>1, <1>2, Joining!NatSet
<1> QED BY <1>3

SameUpTo(s, r, k) == \A i \in 1..k : s[i] = r[i]

\* They depend on the sequences up to a place alone.
LEMMA FlattensAgree ==
    ASSUME NEW s, NEW r, NEW n \in Nat, NEW m \in Nat, NEW t, Flattens(t, s, n), NEW u, Flattens(u, r, m),
           NEW k \in Nat, k <= n, k <= m, SameUpTo(s, r, k)
    PROVE  SameUpTo(t, u, k)
<1> DEFINE S == {i \in Nat : i \in 1..k => t[i] = u[i]}
<1>1. 0 \in S
  OBVIOUS
<1>2. ASSUME NEW i \in Nat, i \in S PROVE i + 1 \in S
  <2> SUFFICES ASSUME i + 1 \in 1..k PROVE t[i + 1] = u[i + 1]
    OBVIOUS
  <2>1. /\ t[i + 1] = IF i + 1 = 1 THEN s[i + 1] ELSE t[i] \o s[i + 1]
        /\ u[i + 1] = IF i + 1 = 1 THEN r[i + 1] ELSE u[i] \o r[i + 1]
    <3>1. i + 1 \in 1..n /\ i + 1 \in 1..m /\ (i + 1) - 1 = i
      OBVIOUS
    <3> QED BY <3>1, ZenonT(40) DEF Flattens, SameUpTo
  <2>2. i + 1 # 1 => t[i] = u[i]
    BY <1>2
  <2> QED BY <2>1, <2>2 DEF SameUpTo
<1>3. \A i \in Nat : i \in S
  <2> HIDE DEF S
  <2> QED BY <1>1, <1>2, Joining!NatSet
<1> QED BY <1>3 DEF SameUpTo

\* The last of them is the flattened sequence.
LEMMA FlattenSeqIs ==
    ASSUME NEW s, NEW n \in Nat, n > 0, Len(s) = n, NEW t, Flattens(t, s, n)
    PROVE  FlattenSeq(s) = t[n]
<1> DEFINE g == CHOOSE g : g = [i \in 1..Len(s) |-> IF i = 1 THEN s[i] ELSE g[i - 1] \o s[i]]
<1>1. \E h : h = [i \in 1..Len(s) |-> IF i = 1 THEN s[i] ELSE h[i - 1] \o s[i]]
  BY DEF Flattens
<1>2. Flattens(g, s, n)
  BY <1>1 DEF Flattens
<1>3. FlattenSeq(s) = g[n]
  BY DEF FlattenSeq
<1> HIDE DEF g
<1>4. SameUpTo(s, s, n)
  BY DEF SameUpTo
<1>5. SameUpTo(t, g, n)
  BY <1>2, <1>4, FlattensAgree
<1> QED BY <1>3, <1>5 DEF SameUpTo

\* No sequences.
LEMMA FlattenNone == FlattenSeq(<<>>) = <<>>
BY DEF FlattenSeq

\* One more sequence, at the end.
LEMMA FlattenLast ==
    ASSUME NEW U, NEW n \in Nat, NEW s \in Seq(Seq(U)), Len(s) = n,
           NEW t \in Seq(Seq(U)), Len(t) = n + 1, \A i \in 1..n : t[i] = s[i]
    PROVE  FlattenSeq(t) = FlattenSeq(s) \o t[n + 1]
<1>0. n + 1 \in Nat /\ n <= n + 1 /\ n + 1 > 0 /\ t[n + 1] \in Seq(U)
  OBVIOUS
<1>1. PICK a : Flattens(a, t, n + 1)
  BY <1>0, FlattensExist
<1>2. FlattenSeq(t) = a[n + 1]
  BY <1>0, <1>1, FlattenSeqIs
<1>3. a[n + 1] = IF n + 1 = 1 THEN t[n + 1] ELSE a[n] \o t[n + 1]
  <2>1. n + 1 \in 1..(n + 1) /\ (n + 1) - 1 = n
    OBVIOUS
  <2> QED BY <1>1, <2>1 DEF Flattens
<1>4. CASE n = 0
  <2>1. s = <<>>
    BY <1>4
  <2>2. FlattenSeq(s) = <<>>
    BY <2>1, FlattenNone
  <2>3. <<>> \o t[n + 1] = t[n + 1]
    BY <1>0
  <2>4. n + 1 = 1
    BY <1>4
  <2> QED BY <1>2, <1>3, <2>2, <2>3, <2>4
<1>5. CASE n # 0
  <2>1. PICK b : Flattens(b, s, n)
    BY FlattensExist
  <2>2. n > 0 /\ n \in 1..n /\ n + 1 # 1 /\ n <= n
    BY <1>5
  <2>3. FlattenSeq(s) = b[n]
    BY <2>1, <2>2, FlattenSeqIs
  <2>4. SameUpTo(t, s, n)
    BY DEF SameUpTo
  <2>5. SameUpTo(a, b, n)
    BY <1>0, <1>1, <2>1, <2>2, <2>4, FlattensAgree
  <2> QED BY <1>2, <1>3, <2>2, <2>3, <2>5 DEF SameUpTo
<1> QED BY <1>4, <1>5

-----------------------------------------------------------------------------
(* The two stacks.                                                         *)

Fields == {"stack", "expecting", "tok_last", "can_insert", "err", "nodes", "chars", "escapes",
           "scalar", "outcome", "node"}
IsContext(p) == DOMAIN p = Fields

Slots == [type : {"none", "object", "list", "string", "hkey", "special"}, nelem : Nat]

\* The types of the nodes that wait for others.
Containing == {"array", "dict", "keyval"}

IsNode(n) == DOMAIN n = {"type", "num", "str", "keys", "entries"}
Stackable(nodes) == nodes \in Seq(Range(nodes)) /\ \A i \in DOMAIN nodes : IsNode(nodes[i])
TypesOf(nodes) == [i \in DOMAIN nodes |-> nodes[i].type]

\* What the slots below a place say of the nodes.
Slotted(stack) == [i \in DOMAIN stack |-> NodesOf(stack, i)]

\* Containers within containers, and on top perhaps a string, a key, a number
\* or a literal name.
Shape(stack) ==
    /\ stack \in Seq(Slots) /\ stack # <<>>
    /\ stack[1].type = "none" /\ stack[1].nelem >= 1
    /\ \A i \in 2..Len(stack) : stack[i].type # "none"
    /\ \A i \in 2..(Len(stack) - 1) : stack[i].type \in {"object", "list"}

\* In a text with one value: a key is being read, or a value, by the parity of
\* the object around it, and the nodes have the types of the slots.
Matched(stack, types) ==
    stack[1].nelem = 1 /\ Len(stack) > 1 =>
        /\ stack[2].type \in {"object", "list"}
        /\ stack[Len(stack)].type = "hkey" => stack[Len(stack) - 1].type = "object"
        /\ \A i \in 2..(Len(stack) - 1) : stack[i].type = "object" =>
                (stack[i].nelem % 2 = 1 <=> stack[i + 1].type = "hkey")
        /\ types = FlattenSeq(Slotted(stack))

Parallel(p) ==
    /\ Shape(p.stack)
    /\ p.stack[1].nelem = 1 /\ Len(p.stack) > 1 => Stackable(p.nodes)
    /\ Matched(p.stack, TypesOf(p.nodes))

Sound(p) ==
    /\ IsContext(p) /\ p.outcome = "parsing"
    /\ p.err = "none" => Parallel(p)

\* The values of NodesOf are sequences of types.
LEMMA NodesOfTypes ==
    ASSUME NEW stack, NEW i
    PROVE  NodesOf(stack, i) \in Seq(Containing)
<1> DEFINE s == stack[i]
           inKey == i < Len(stack) /\ stack[i + 1].type = "hkey"
           keyRead == IF i = Len(stack) THEN s.nelem % 2 = 1 ELSE ~inKey
<1>1. <<"array">> \in Seq(Containing) /\ <<"dict", "keyval">> \in Seq(Containing)
      /\ <<"dict">> \in Seq(Containing) /\ <<>> \in Seq(Containing)
  BY DEF Containing
<1>2. NodesOf(stack, i) =
        CASE s.type = "list" -> <<"array">>
          [] s.type = "object" /\ keyRead -> <<"dict", "keyval">>
          [] s.type = "object" /\ ~keyRead -> <<"dict">>
          [] OTHER -> <<>>
  BY DEF NodesOf
<1> HIDE DEF keyRead
<1> QED BY <1>1, <1>2

\* What the slots say is a sequence of sequences.
LEMMA SlottedIs ==
    ASSUME NEW stack \in Seq(Slots)
    PROVE  /\ Slotted(stack) \in Seq(Seq(Containing)) /\ Len(Slotted(stack)) = Len(stack)
           /\ \A i \in 1..Len(stack) : Slotted(stack)[i] = NodesOf(stack, i)
<1>1. DOMAIN stack = 1..Len(stack) /\ Len(stack) \in Nat
  OBVIOUS
<1>2. Slotted(stack) = [i \in 1..Len(stack) |-> NodesOf(stack, i)]
  BY <1>1 DEF Slotted
<1>3. \A i \in 1..Len(stack) : NodesOf(stack, i) \in Seq(Containing)
  BY NodesOfTypes
<1> QED BY <1>1, <1>2, <1>3

\* An element counted in the slot on top, and another slot pushed.
Bumped(stack) == [stack EXCEPT ![Len(stack)].nelem = @ + 1]

\* One more element is counted on top of the stack.
LEMMA BumpedIs ==
    ASSUME NEW stack \in Seq(Slots), stack # <<>>
    PROVE  /\ Bumped(stack) \in Seq(Slots) /\ Len(Bumped(stack)) = Len(stack)
           /\ \A i \in 1..(Len(stack) - 1) : Bumped(stack)[i] = stack[i]
           /\ Bumped(stack)[Len(stack)].type = stack[Len(stack)].type
           /\ Bumped(stack)[Len(stack)].nelem = stack[Len(stack)].nelem + 1
<1>1. PICK n \in Nat : n = Len(stack) /\ n > 0 /\ n \in 1..n /\ DOMAIN stack = 1..n
  OBVIOUS
<1>2. stack[n] \in Slots
  BY <1>1
<1>3. PICK e : e = [stack[n] EXCEPT !.nelem = @ + 1]
  OBVIOUS
<1>4. e \in Slots /\ e.type = stack[n].type /\ e.nelem = stack[n].nelem + 1
  BY <1>2, <1>3 DEF Slots
<1>5. Bumped(stack) = [stack EXCEPT ![n] = e]
  BY <1>1, <1>3 DEF Bumped
<1>6. [stack EXCEPT ![n] = e] \in Seq(Slots) /\ Len([stack EXCEPT ![n] = e]) = n
  BY <1>1, <1>4
<1>7. [stack EXCEPT ![n] = e][n] = e /\ \A i \in 1..(n - 1) : [stack EXCEPT ![n] = e][i] = stack[i]
  BY <1>1
<1> QED BY <1>1, <1>4, <1>5, <1>6, <1>7

\* What a slot that another is on says.
LEMMA NodesOfBelow ==
    ASSUME NEW s, NEW i, i < Len(s), i # Len(s)
    PROVE  /\ s[i].type = "list" => NodesOf(s, i) = <<"array">>
           /\ s[i].type = "object" /\ s[i + 1].type # "hkey" => NodesOf(s, i) = <<"dict", "keyval">>
           /\ s[i].type = "object" /\ s[i + 1].type = "hkey" => NodesOf(s, i) = <<"dict">>
           /\ s[i].type \notin {"list", "object"} => NodesOf(s, i) = <<>>
BY DEF NodesOf

\* What the slot on top says.
LEMMA NodesOfTop ==
    ASSUME NEW s, NEW i, i = Len(s)
    PROVE  /\ s[i].type = "list" => NodesOf(s, i) = <<"array">>
           /\ s[i].type = "object" /\ s[i].nelem % 2 = 1 => NodesOf(s, i) = <<"dict", "keyval">>
           /\ s[i].type = "object" /\ s[i].nelem % 2 # 1 => NodesOf(s, i) = <<"dict">>
           /\ s[i].type \notin {"list", "object"} => NodesOf(s, i) = <<>>
BY DEF NodesOf

\* Odd and even follow each other.
LEMMA Parity ==
    ASSUME NEW x \in Nat
    PROVE  x % 2 \in {0, 1} /\ ((x + 1) % 2 = 1 <=> x % 2 = 0)
OBVIOUS

\* The node that a container begins with.
Own(type) == CASE type = "list" -> <<"array">> [] type = "object" -> <<"dict">> [] OTHER -> <<>>

Pushable(stack, type) ==
    /\ type \in {"object", "list", "string", "hkey", "special"}
    /\ stack[Len(stack)].type \in {"none", "object", "list"}
    /\ stack[Len(stack)].type = "object" => (stack[Len(stack)].nelem % 2 = 0 <=> type = "hkey")
    /\ type = "hkey" => stack[Len(stack)].type = "object"

Pushed(stack, type) == Append(Bumped(stack), Slot(type))

\* A level is pushed.
LEMMA PushedIs ==
    ASSUME NEW stack \in Seq(Slots), stack # <<>>, NEW type, Pushable(stack, type)
    PROVE  /\ Pushed(stack, type) \in Seq(Slots) /\ Len(Pushed(stack, type)) = Len(stack) + 1
           /\ \A i \in 1..(Len(stack) - 1) : Pushed(stack, type)[i] = stack[i]
           /\ Pushed(stack, type)[Len(stack)].type = stack[Len(stack)].type
           /\ Pushed(stack, type)[Len(stack)].nelem = stack[Len(stack)].nelem + 1
           /\ Pushed(stack, type)[Len(stack) + 1] = [type |-> type, nelem |-> 0]
<1>1. PICK b : b = Bumped(stack)
  OBVIOUS
<1>2. b \in Seq(Slots) /\ Len(b) = Len(stack)
  BY <1>1, BumpedIs
<1>3. Slot(type) \in Slots /\ Slot(type) = [type |-> type, nelem |-> 0]
  BY DEF Slot, Slots, Pushable
<1>4. PICK e : e = Slot(type)
  OBVIOUS
<1>5. /\ Append(b, e) \in Seq(Slots) /\ Len(Append(b, e)) = Len(b) + 1
      /\ Append(b, e)[Len(b) + 1] = e
      /\ \A i \in 1..Len(b) : Append(b, e)[i] = b[i]
  BY <1>2, <1>3, <1>4
<1>6. Len(stack) \in 1..Len(stack)
  OBVIOUS
<1> QED BY <1>1, <1>2, <1>3, <1>4, <1>5, <1>6, BumpedIs DEF Pushed

\* A level that is pushed keeps the stacks matched.
LEMMA PushKeeps ==
    ASSUME NEW stack, NEW types, NEW type, Shape(stack), Matched(stack, types), Pushable(stack, type)
    PROVE  Shape(Pushed(stack, type)) /\ Matched(Pushed(stack, type), types \o Own(type))
<1>1. PICK n \in Nat : n = Len(stack) /\ n >= 1
  BY DEF Shape
<1>2. PICK s : s = Pushed(stack, type)
  OBVIOUS
<1>3. stack \in Seq(Slots) /\ stack # <<>> /\ \A i \in 1..n : stack[i] \in Slots /\ stack[i].nelem \in Nat
  <2>1. stack \in Seq(Slots) /\ stack # <<>>
    BY DEF Shape
  <2>2. \A i \in 1..n : stack[i] \in Slots
    BY <1>1, <2>1
  <2>3. \A e \in Slots : e.nelem \in Nat
    BY DEF Slots
  <2> QED BY <2>1, <2>2, <2>3
<1>4. /\ s \in Seq(Slots) /\ Len(s) = n + 1
      /\ \A i \in 1..(n - 1) : s[i] = stack[i]
      /\ s[n].type = stack[n].type /\ s[n].nelem = stack[n].nelem + 1
      /\ s[n + 1].type = type /\ s[n + 1].nelem = 0
  <2>1. /\ s \in Seq(Slots) /\ Len(s) = Len(stack) + 1
        /\ \A i \in 1..(Len(stack) - 1) : s[i] = stack[i]
        /\ s[Len(stack)].type = stack[Len(stack)].type
        /\ s[Len(stack)].nelem = stack[Len(stack)].nelem + 1
        /\ s[Len(stack) + 1] = [type |-> type, nelem |-> 0]
    BY <1>2, <1>3, PushedIs
  <2> QED BY <1>1, <2>1
<1>5. \A i \in 1..n : s[i].type = stack[i].type
  <2>1. \A i \in 1..n : i \in 1..(n - 1) \/ i = n
    BY <1>1
  <2> QED BY <1>4, <2>1
<1>6. Shape(s)
  <2>1. s[1].type = "none" /\ s[1].nelem >= 1
    <3>1. 1 \in 1..n /\ (n = 1 \/ 1 \in 1..(n - 1)) /\ stack[1].nelem \in Nat
      BY <1>1, <1>3
    <3>2. stack[1].type = "none" /\ stack[1].nelem >= 1
      BY DEF Shape
    <3>3. s[1].nelem = stack[1].nelem \/ s[1].nelem = stack[1].nelem + 1
      BY <1>4, <3>1
    <3> QED BY <1>5, <3>1, <3>2, <3>3
  <2>2. ASSUME NEW i \in 2..(n + 1) PROVE s[i].type # "none"
    <3>1. i = n + 1 \/ (i \in 2..n /\ i \in 1..n)
      <4>1. n \in Nat /\ i \in Nat /\ i <= n + 1 /\ 2 <= i
        BY <1>1
      <4> QED BY ONLY <4>1
    <3>2. i \in 2..n => stack[i].type # "none"
      BY <1>1 DEF Shape
    <3>3. type # "none"
      BY DEF Pushable
    <3> QED BY <1>4, <1>5, <3>1, <3>2, <3>3
  <2>3. ASSUME NEW i \in 2..n PROVE s[i].type \in {"object", "list"}
    <3>1. i \in 1..n /\ (i = n \/ i \in 2..(n - 1))
      BY <1>1
    <3>2. stack[n].type \in {"object", "list"} \/ stack[n].type = "none"
      BY <1>1 DEF Pushable
    <3> QED BY <1>1, <1>5, <3>1, <3>2 DEF Shape
  <2>4. s # <<>> /\ (n + 1) - 1 = n
    BY <1>1, <1>4
  <2> QED BY <1>4, <2>1, <2>2, <2>3, <2>4 DEF Shape
<1>7. Matched(s, types \o Own(type))
  <2> SUFFICES ASSUME s[1].nelem = 1
               PROVE  /\ s[2].type \in {"object", "list"}
                      /\ s[n + 1].type = "hkey" => s[n].type = "object"
                      /\ \A i \in 2..n : s[i].type = "object" =>
                            (s[i].nelem % 2 = 1 <=> s[i + 1].type = "hkey")
                      /\ types \o Own(type) = FlattenSeq(Slotted(s))
    <3>1. (n + 1) - 1 = n
      BY <1>1
    <3> QED BY <1>4, <3>1 DEF Matched
  <2>1. n > 1 /\ stack[1].nelem = 1
    <3>1. CASE n = 1
      <4>1. stack[1].nelem >= 1 /\ s[1].nelem = stack[1].nelem + 1 /\ stack[1].nelem \in Nat
        BY <1>1, <1>3, <1>4, <3>1 DEF Shape
      <4> QED BY <4>1
    <3>2. CASE n # 1
      <4>1. 1 \in 1..(n - 1)
        BY <1>1, <3>2
      <4> QED BY <1>1, <1>4, <3>2, <4>1
    <3> QED BY <3>1, <3>2
  <2>2. /\ stack[2].type \in {"object", "list"}
        /\ \A i \in 2..(n - 1) : stack[i].type = "object" =>
                (stack[i].nelem % 2 = 1 <=> stack[i + 1].type = "hkey")
        /\ types = FlattenSeq(Slotted(stack))
    BY <1>1, <2>1 DEF Matched
  <2>3. s[2].type \in {"object", "list"}
    BY <1>5, <2>1, <2>2
  <2>4. s[n + 1].type = "hkey" => s[n].type = "object"
    BY <1>1, <1>4 DEF Pushable
  <2>5. ASSUME NEW i \in 2..n, s[i].type = "object"
        PROVE  s[i].nelem % 2 = 1 <=> s[i + 1].type = "hkey"
    <3>1. CASE i = n
      <4>1. s[i].nelem % 2 = 1 <=> stack[n].nelem % 2 = 0
        <5>1. stack[n].nelem \in Nat /\ s[i].nelem = stack[n].nelem + 1
          BY <1>1, <1>3, <1>4, <3>1
        <5> QED BY <5>1, Parity
      <4> QED BY <1>1, <1>4, <2>5, <3>1, <4>1 DEF Pushable
    <3>2. CASE i # n
      <4>1. i \in 2..(n - 1) /\ i \in 1..(n - 1) /\ i + 1 \in 1..n
        BY <3>2
      <4> QED BY <1>4, <1>5, <2>2, <2>5, <4>1
    <3> QED BY <3>1, <3>2
  <2>6. types \o Own(type) = FlattenSeq(Slotted(s))
    <3>1. ASSUME NEW i \in 1..n PROVE NodesOf(s, i) = NodesOf(stack, i)
      <4>1. i < Len(s) /\ i # Len(s) /\ s[i].type = stack[i].type
        BY <1>1, <1>4, <1>5
      <4>2. CASE i = n
        <5>1. s[i + 1].type = type /\ stack[n].nelem % 2 \in {0, 1}
          BY <1>1, <1>3, <1>4, <4>2, Parity
        <5>2. stack[n].type = "object" => (stack[n].nelem % 2 # 1 <=> type = "hkey")
          BY <1>1, <5>1 DEF Pushable
        <5>3. i = Len(stack)
          BY <1>1, <4>2
        <5> QED BY <4>1, <4>2, <5>1, <5>2, <5>3, NodesOfBelow, NodesOfTop
      <4>3. CASE i # n
        <5>1. i < Len(stack) /\ i # Len(stack) /\ i + 1 \in 1..n
          BY <1>1, <4>3
        <5>2. s[i + 1].type = stack[i + 1].type
          BY <1>5, <5>1
        <5> QED BY <4>1, <5>1, <5>2, NodesOfBelow
      <4> QED BY <4>2, <4>3
    <3>2. NodesOf(s, n + 1) = Own(type)
      <4>1. n + 1 = Len(s) /\ s[n + 1].nelem % 2 # 1
        BY <1>1, <1>4
      <4> QED BY <1>4, <4>1, NodesOfTop DEF Own, Pushable
    <3>3. PICK a : a = Slotted(stack)
      OBVIOUS
    <3>4. PICK b : b = Slotted(s)
      OBVIOUS
    <3>5. /\ a \in Seq(Seq(Containing)) /\ Len(a) = n
          /\ b \in Seq(Seq(Containing)) /\ Len(b) = n + 1
          /\ \A i \in 1..n : b[i] = a[i]
          /\ b[n + 1] = Own(type)
      <4>1. \A i \in 1..n : i \in 1..(n + 1)
        BY <1>1
      <4>2. n + 1 \in 1..(n + 1)
        BY <1>1
      <4> QED BY <1>1, <1>3, <1>4, <3>1, <3>2, <3>3, <3>4, <4>1, <4>2, SlottedIs
    <3>6. FlattenSeq(b) = FlattenSeq(a) \o b[n + 1]
      BY <3>5, FlattenLast
    <3> QED BY <2>2, <3>3, <3>4, <3>5, <3>6
  <2> QED BY <2>3, <2>4, <2>5, <2>6
<1> QED BY <1>2, <1>6, <1>7

\* Flattening gives a sequence of what the sequences are of.
LEMMA FlattenTyped ==
    ASSUME NEW U, NEW s \in Seq(Seq(U))
    PROVE  FlattenSeq(s) \in Seq(U)
<1>1. PICK n \in Nat : n = Len(s)
  OBVIOUS
<1>2. CASE n = 0
  <2>1. s = <<>>
    BY <1>1, <1>2, EmptySeq
  <2>2. FlattenSeq(s) = <<>>
    BY <2>1, FlattenNone
  <2> QED BY <2>2
<1>3. CASE n # 0
  <2>1. PICK t : Flattens(t, s, n)
    BY FlattensExist
  <2>2. n > 0 /\ n \in 1..n /\ \A i \in 1..n : s[i] \in Seq(U)
    BY <1>1, <1>3
  <2>3. FlattenSeq(s) = t[n]
    BY <1>1, <2>1, <2>2, FlattenSeqIs
  <2> DEFINE S == {i \in Nat : i \in 1..n => t[i] \in Seq(U)}
  <2>4. 0 \in S
    OBVIOUS
  <2>5. ASSUME NEW i \in Nat, i \in S PROVE i + 1 \in S
    <3> SUFFICES ASSUME i + 1 \in 1..n PROVE t[i + 1] \in Seq(U)
      OBVIOUS
    <3>1. t[i + 1] = IF i + 1 = 1 THEN s[i + 1] ELSE t[i] \o s[i + 1]
      <4>1. (i + 1) - 1 = i
        OBVIOUS
      <4> QED BY <2>1, <4>1 DEF Flattens
    <3>2. s[i + 1] \in Seq(U)
      BY <2>2
    <3>3. i + 1 # 1 => t[i] \in Seq(U)
      BY <2>5
    <3> QED BY <3>1, <3>2, <3>3
  <2>6. \A i \in Nat : i \in S
    <3> HIDE DEF S
    <3> QED BY <2>4, <2>5, Joining!NatSet
  <2> QED BY <2>2, <2>3, <2>6
<1> QED BY <1>2, <1>3

\* A sequence without its last element.
LEMMA FrontIs ==
    ASSUME NEW U, NEW s \in Seq(U), NEW n \in Nat, Len(s) = n + 1
    PROVE  /\ Front(s) \in Seq(U) /\ Len(Front(s)) = n
           /\ \A i \in 1..n : Front(s)[i] = s[i]
<1>1. Front(s) = SubSeq(s, 1, n)
  BY DEF Front
<1>2. \A i \in 1..n : s[i] \in U
  OBVIOUS
<1>3. n <= Len(s)
  OBVIOUS
<1> QED BY <1>1, <1>2, <1>3, SubSeqProperties

\* What the two slots on top say, and the one below when it is on top.
LEMMA TwoOnTop ==
    ASSUME NEW stack \in Seq(Slots), NEW n \in Nat, Len(stack) = n + 2
    PROVE  \E X \in Seq(Containing) :
            /\ FlattenSeq(Slotted(stack)) = (X \o NodesOf(stack, n + 1)) \o NodesOf(stack, n + 2)
            /\ FlattenSeq(Slotted(Front(stack))) = X \o NodesOf(Front(stack), n + 1)
<1>1. PICK a : a = Slotted(stack)
  OBVIOUS
<1>2. PICK r : r = Front(stack)
  OBVIOUS
<1>3. PICK f : f = Slotted(r)
  OBVIOUS
<1>4. /\ a \in Seq(Seq(Containing)) /\ Len(a) = n + 2
      /\ \A i \in 1..(n + 2) : a[i] = NodesOf(stack, i)
  BY <1>1, SlottedIs
<1>5. r \in Seq(Slots) /\ Len(r) = n + 1 /\ \A i \in 1..(n + 1) : r[i] = stack[i]
  <2>1. n + 1 \in Nat /\ Len(stack) = (n + 1) + 1
    OBVIOUS
  <2> QED BY <1>2, <2>1, FrontIs
<1>6. /\ f \in Seq(Seq(Containing)) /\ Len(f) = n + 1
      /\ \A i \in 1..(n + 1) : f[i] = NodesOf(r, i)
  BY <1>3, <1>5, SlottedIs
<1>7. ASSUME NEW i \in 1..n PROVE f[i] = a[i]
  <2>1. /\ i < Len(stack) /\ i # Len(stack) /\ i < Len(r) /\ i # Len(r)
        /\ i \in 1..(n + 1) /\ i + 1 \in 1..(n + 1) /\ i \in 1..(n + 2)
    BY <1>5
  <2>2. r[i] = stack[i] /\ r[i + 1] = stack[i + 1]
    BY <1>5, <2>1
  <2>3. NodesOf(r, i) = NodesOf(stack, i)
    BY <2>1, <2>2, NodesOfBelow
  <2> QED BY <1>4, <1>6, <2>1, <2>3
<1>8. PICK c : c = [i \in 1..n |-> a[i]]
  OBVIOUS
<1>9. PICK d : d = [i \in 1..(n + 1) |-> a[i]]
  OBVIOUS
<1>10. \A i \in 1..(n + 2) : a[i] \in Seq(Containing)
  BY <1>4
<1>11. c \in Seq(Seq(Containing)) /\ Len(c) = n /\ \A i \in 1..n : c[i] = a[i]
  BY <1>8, <1>10
<1>12. d \in Seq(Seq(Containing)) /\ Len(d) = n + 1 /\ \A i \in 1..(n + 1) : d[i] = a[i]
  BY <1>9, <1>10
<1>13. FlattenSeq(a) = FlattenSeq(d) \o a[n + 2]
  <2>1. n + 1 \in Nat /\ (n + 1) + 1 = n + 2 /\ \A i \in 1..(n + 1) : a[i] = d[i]
    BY <1>12
  <2>2. FlattenSeq(a) = FlattenSeq(d) \o a[(n + 1) + 1]
    BY <1>4, <1>12, <2>1, FlattenLast
  <2> QED BY <2>1, <2>2
<1>14. FlattenSeq(d) = FlattenSeq(c) \o d[n + 1]
  <2>1. ASSUME NEW i \in 1..n PROVE d[i] = c[i]
    <3>1. i \in 1..(n + 1)
      OBVIOUS
    <3> QED BY <1>11, <1>12, <3>1
  <2> QED BY <1>11, <1>12, <2>1, FlattenLast, SMTT(40)
<1>15. FlattenSeq(f) = FlattenSeq(c) \o f[n + 1]
  <2>1. \A i \in 1..n : f[i] = c[i]
    BY <1>7, <1>11
  <2> QED BY <1>6, <1>11, <2>1, FlattenLast, ZenonT(40)
<1>16. FlattenSeq(c) \in Seq(Containing)
  BY <1>11, FlattenTyped
<1>17. d[n + 1] = NodesOf(stack, n + 1) /\ a[n + 2] = NodesOf(stack, n + 2) /\ f[n + 1] = NodesOf(r, n + 1)
  <2>1. n + 1 \in 1..(n + 1) /\ n + 1 \in 1..(n + 2) /\ n + 2 \in 1..(n + 2)
    OBVIOUS
  <2> QED BY <1>4, <1>6, <1>12, <2>1
<1> QED BY <1>1, <1>2, <1>3, <1>13, <1>14, <1>15, <1>16, <1>17

\* Without the slot on top.
LEMMA FrontShape ==
    ASSUME NEW stack, Shape(stack), NEW n \in Nat, Len(stack) = n + 2
    PROVE  /\ Shape(Front(stack)) /\ stack \in Seq(Slots)
           /\ Front(stack) \in Seq(Slots) /\ Len(Front(stack)) = n + 1
           /\ \A i \in 1..(n + 1) : Front(stack)[i] = stack[i]
<1>1. PICK r : r = Front(stack)
  OBVIOUS
<1>2. stack \in Seq(Slots)
  BY DEF Shape
<1>3. r \in Seq(Slots) /\ Len(r) = n + 1 /\ \A i \in 1..(n + 1) : r[i] = stack[i]
  <2>1. n + 1 \in Nat /\ Len(stack) = (n + 1) + 1
    OBVIOUS
  <2> QED BY <1>1, <1>2, <2>1, FrontIs
<1>4. Shape(r)
  <2>1. 1 \in 1..(n + 1) /\ r # <<>>
    BY <1>3
  <2>2. ASSUME NEW i \in 2..Len(r) PROVE r[i].type # "none"
    <3>1. i \in 2..Len(stack) /\ i \in 1..(n + 1)
      BY <1>3
    <3> QED BY <1>3, <3>1 DEF Shape
  <2>3. ASSUME NEW i \in 2..(Len(r) - 1) PROVE r[i].type \in {"object", "list"}
    <3>1. i \in 2..(Len(stack) - 1) /\ i \in 1..(n + 1)
      BY <1>3
    <3> QED BY <1>3, <3>1 DEF Shape
  <2> QED BY <1>3, <2>1, <2>2, <2>3 DEF Shape
<1> QED BY <1>1, <1>2, <1>3, <1>4

\* A key that has been read goes on the stack of nodes.
LEMMA PopKeyKeeps ==
    ASSUME NEW stack, NEW types, Shape(stack), Matched(stack, types), NEW n \in Nat, Len(stack) = n + 2,
           stack[n + 2].type = "hkey"
    PROVE  Matched(Front(stack), types \o <<"keyval">>)
<1>1. PICK r : r = Front(stack)
  OBVIOUS
<1>2. /\ Shape(r) /\ stack \in Seq(Slots) /\ r \in Seq(Slots) /\ Len(r) = n + 1
      /\ \A i \in 1..(n + 1) : r[i] = stack[i]
  BY <1>1, FrontShape
<1> SUFFICES ASSUME r[1].nelem = 1, n + 1 > 1
             PROVE  /\ r[2].type \in {"object", "list"}
                    /\ r[n + 1].type # "hkey"
                    /\ \A i \in 2..n : r[i].type = "object" => (r[i].nelem % 2 = 1 <=> r[i + 1].type = "hkey")
                    /\ types \o <<"keyval">> = FlattenSeq(Slotted(r))
  <2>1. (n + 1) - 1 = n
    OBVIOUS
  <2> QED BY <1>1, <1>2, <2>1 DEF Matched
<1>3. /\ 1 \in 1..(n + 1) /\ 2 \in 1..(n + 1) /\ n + 1 \in 1..(n + 1) /\ n + 1 \in 2..(n + 1)
      /\ (n + 2) - 1 = n + 1 /\ n + 2 > 1 /\ (n + 1) + 1 = n + 2
  OBVIOUS
<1>4. stack[1].nelem = 1
  BY <1>2, <1>3
<1>5. /\ stack[2].type \in {"object", "list"}
      /\ stack[n + 1].type = "object"
      /\ \A i \in 2..(n + 1) : stack[i].type = "object" =>
                (stack[i].nelem % 2 = 1 <=> stack[i + 1].type = "hkey")
      /\ types = FlattenSeq(Slotted(stack))
  BY <1>3, <1>4 DEF Matched
<1>6. r[2].type \in {"object", "list"} /\ r[n + 1].type # "hkey"
  BY <1>2, <1>3, <1>5
<1>7. ASSUME NEW i \in 2..n, r[i].type = "object"
      PROVE  r[i].nelem % 2 = 1 <=> r[i + 1].type = "hkey"
  <2>1. i \in 1..(n + 1) /\ i + 1 \in 1..(n + 1) /\ i \in 2..(n + 1)
    OBVIOUS
  <2> QED BY <1>2, <1>5, <1>7, <2>1
<1>8. PICK X \in Seq(Containing) :
        /\ FlattenSeq(Slotted(stack)) = (X \o NodesOf(stack, n + 1)) \o NodesOf(stack, n + 2)
        /\ FlattenSeq(Slotted(r)) = X \o NodesOf(r, n + 1)
  BY <1>1, <1>2, TwoOnTop
<1>9. NodesOf(stack, n + 2) = <<>>
  BY <1>3, NodesOfTop
<1>10. NodesOf(stack, n + 1) = <<"dict">>
  <2>1. n + 1 < Len(stack) /\ n + 1 # Len(stack) /\ stack[(n + 1) + 1].type = "hkey"
    BY <1>3
  <2> QED BY <1>5, <2>1, NodesOfBelow
<1>11. NodesOf(r, n + 1) = <<"dict", "keyval">>
  <2>1. stack[n + 1].nelem % 2 = 1
    BY <1>3, <1>5
  <2> QED BY <1>2, <1>3, <1>5, <2>1, NodesOfTop
<1>12. ((X \o <<"dict">>) \o <<>>) \o <<"keyval">> = X \o <<"dict", "keyval">>
  <2>1. <<"dict">> \in Seq(Containing) /\ <<"keyval">> \in Seq(Containing)
    BY DEF Containing
  <2>2. <<"dict">> \o <<"keyval">> = <<"dict", "keyval">>
    <3>1. PICK s : s = <<"dict">> \o <<"keyval">>
      OBVIOUS
    <3>2. s \in Seq(Containing) /\ Len(s) = 2 /\ s[1] = "dict" /\ s[2] = "keyval"
      BY <2>1, <3>1
    <3>3. PICK u : u = <<"dict", "keyval">>
      OBVIOUS
    <3>4. u \in Seq(Containing) /\ Len(u) = 2 /\ u[1] = "dict" /\ u[2] = "keyval"
      BY <3>3 DEF Containing
    <3>5. \A i \in 1..2 : i = 1 \/ i = 2
      OBVIOUS
    <3> QED BY <3>1, <3>2, <3>3, <3>4, <3>5, SeqEqual, ZenonT(40)
  <2>3. (X \o <<"dict">>) \o <<>> = X \o <<"dict">>
    BY <2>1
  <2>4. (X \o <<"dict">>) \o <<"keyval">> = X \o (<<"dict">> \o <<"keyval">>)
    BY <2>1, ConcatAssociative
  <2> QED BY <2>2, <2>3, <2>4
<1> QED BY <1>5, <1>6, <1>7, <1>8, <1>9, <1>10, <1>11, <1>12

\* Types of nodes that wait for a value, and those left when it is set in them.
Waiting(held, rest) ==
    \E X \in Seq(Containing) :
        \/ held = X \o <<"array">> /\ rest = X \o <<"array">>
        \/ held = X \o <<"dict", "keyval">> /\ rest = X \o <<"dict">>

\* A value that has been read is set in the container around it.
LEMMA PopValueKeeps ==
    ASSUME NEW stack, NEW types, Shape(stack), Matched(stack, types), NEW n \in Nat, Len(stack) = n + 2,
           stack[n + 2].type # "hkey", stack[n + 2].type = "object" => stack[n + 2].nelem % 2 # 1,
           stack[1].nelem = 1, n > 0 \/ stack[n + 2].type \notin {"object", "list"}
    PROVE  /\ n > 0
           /\ \E held, rest : /\ Waiting(held, rest)
                              /\ types = held \o Own(stack[n + 2].type)
                              /\ Matched(Front(stack), rest)
<1>1. PICK r : r = Front(stack)
  OBVIOUS
<1>2. /\ Shape(r) /\ stack \in Seq(Slots) /\ r \in Seq(Slots) /\ Len(r) = n + 1
      /\ \A i \in 1..(n + 1) : r[i] = stack[i]
  BY <1>1, FrontShape
<1>3. /\ 1 \in 1..(n + 1) /\ n + 1 \in 1..(n + 1)
      /\ (n + 2) - 1 = n + 1 /\ n + 2 > 1 /\ (n + 1) + 1 = n + 2
  OBVIOUS
<1>4. /\ stack[2].type \in {"object", "list"}
      /\ \A i \in 2..(n + 1) : stack[i].type = "object" =>
                (stack[i].nelem % 2 = 1 <=> stack[i + 1].type = "hkey")
      /\ types = FlattenSeq(Slotted(stack))
  BY <1>3 DEF Matched
<1>5. n > 0
  <2>1. n = 0 => n + 2 = 2
    OBVIOUS
  <2> QED BY <1>4, <2>1
<1>6. n + 1 \in 2..(n + 1) /\ 2 \in 1..(n + 1)
  BY <1>5
<1>7. stack[n + 1].type \in {"object", "list"}
  BY <1>2, <1>3, <1>6 DEF Shape
<1>8. PICK X \in Seq(Containing) :
        /\ FlattenSeq(Slotted(stack)) = (X \o NodesOf(stack, n + 1)) \o NodesOf(stack, n + 2)
        /\ FlattenSeq(Slotted(r)) = X \o NodesOf(r, n + 1)
  BY <1>1, <1>2, TwoOnTop
<1>9. NodesOf(stack, n + 2) = Own(stack[n + 2].type)
  BY <1>3, NodesOfTop DEF Own
<1>10. n + 1 < Len(stack) /\ n + 1 # Len(stack) /\ stack[(n + 1) + 1].type # "hkey"
  BY <1>3
<1>11. Matched(r, X \o NodesOf(r, n + 1))
  <2>1. (n + 1) - 1 = n
    OBVIOUS
  <2>2. r[2].type \in {"object", "list"} /\ r[n + 1].type # "hkey"
    BY <1>2, <1>3, <1>4, <1>6, <1>7
  <2>3. ASSUME NEW i \in 2..n, r[i].type = "object"
        PROVE  r[i].nelem % 2 = 1 <=> r[i + 1].type = "hkey"
    <3>1. i \in 1..(n + 1) /\ i + 1 \in 1..(n + 1) /\ i \in 2..(n + 1)
      OBVIOUS
    <3> QED BY <1>2, <1>4, <2>3, <3>1
  <2> QED BY <1>2, <1>8, <2>1, <2>2, <2>3 DEF Matched
<1>12. CASE stack[n + 1].type = "list"
  <2>1. NodesOf(stack, n + 1) = <<"array">> /\ NodesOf(r, n + 1) = <<"array">>
    BY <1>2, <1>3, <1>10, <1>12, NodesOfBelow, NodesOfTop
  <2>2. Waiting(X \o <<"array">>, X \o <<"array">>)
    BY DEF Waiting
  <2> QED BY <1>1, <1>4, <1>5, <1>8, <1>9, <1>11, <2>1, <2>2
<1>13. CASE stack[n + 1].type = "object"
  <2>1. NodesOf(stack, n + 1) = <<"dict", "keyval">>
    BY <1>10, <1>13, NodesOfBelow
  <2>2. NodesOf(r, n + 1) = <<"dict">>
    <3>1. stack[n + 1].nelem % 2 # 1
      BY <1>4, <1>6, <1>10, <1>13
    <3> QED BY <1>2, <1>3, <1>13, <3>1, NodesOfTop
  <2>3. Waiting(X \o <<"dict", "keyval">>, X \o <<"dict">>)
    BY DEF Waiting
  <2> QED BY <1>1, <1>4, <1>5, <1>8, <1>9, <1>11, <2>1, <2>2, <2>3
<1> QED BY <1>7, <1>12, <1>13

-----------------------------------------------------------------------------
(* The stack of nodes.                                                     *)

\* A sequence is one of its own elements.
LEMMA OfItsOwn ==
    ASSUME NEW U, NEW s \in Seq(U)
    PROVE  s \in Seq(Range(s))
<1>1. \A i \in DOMAIN s : s[i] \in Range(s)
  BY DEF Range
<1>2. DOMAIN s = 1..Len(s) /\ Len(s) \in Nat /\ s = [i \in 1..Len(s) |-> s[i]]
  OBVIOUS
<1> QED BY <1>1, <1>2

\* The types of nodes, one by one.
LEMMA TypesAre ==
    ASSUME NEW nodes, Stackable(nodes)
    PROVE  /\ DOMAIN TypesOf(nodes) = 1..Len(nodes)
           /\ \A i \in 1..Len(nodes) : TypesOf(nodes)[i] = nodes[i].type
<1>1. DOMAIN nodes = 1..Len(nodes)
  BY DEF Stackable
<1> QED BY <1>1 DEF TypesOf

\* What nodes wait for, one by one.
LEMMA WaitingParts ==
    ASSUME NEW nodes, Stackable(nodes), NEW rest, Waiting(TypesOf(nodes), rest)
    PROVE  \E m \in Nat :
            \/ Len(nodes) = m + 1 /\ nodes[m + 1].type = "array" /\ rest = TypesOf(nodes)
            \/ /\ Len(nodes) = m + 2 /\ nodes[m + 2].type = "keyval"
               /\ DOMAIN rest = 1..(m + 1) /\ rest = [i \in 1..(m + 1) |-> rest[i]]
               /\ \A i \in 1..(m + 1) : rest[i] = nodes[i].type
<1>1. PICK X \in Seq(Containing) :
        \/ TypesOf(nodes) = X \o <<"array">> /\ rest = X \o <<"array">>
        \/ TypesOf(nodes) = X \o <<"dict", "keyval">> /\ rest = X \o <<"dict">>
  BY DEF Waiting
<1>2. PICK m \in Nat : m = Len(X)
  OBVIOUS
<1>3. PICK t : t = TypesOf(nodes)
  OBVIOUS
<1>4. DOMAIN t = 1..Len(nodes) /\ Len(nodes) \in Nat /\ \A i \in 1..Len(nodes) : t[i] = nodes[i].type
  <2>1. Len(nodes) \in Nat
    BY DEF Stackable
  <2> QED BY <1>3, <2>1, TypesAre
<1>5. CASE t = X \o <<"array">> /\ rest = X \o <<"array">>
  <2>1. Len(t) = m + 1 /\ DOMAIN t = 1..(m + 1) /\ t[m + 1] = "array"
    BY <1>2, <1>5 DEF Containing
  <2>2. Len(nodes) = m + 1 /\ m + 1 \in 1..Len(nodes)
    BY <1>4, <2>1
  <2> QED BY <1>3, <1>4, <1>5, <2>1, <2>2
<1>6. CASE t = X \o <<"dict", "keyval">> /\ rest = X \o <<"dict">>
  <2>1. PICK u : u = <<"dict", "keyval">>
    OBVIOUS
  <2>2. u \in Seq(Containing) /\ Len(u) = 2 /\ u[1] = "dict" /\ u[2] = "keyval"
    BY <2>1 DEF Containing
  <2>3. PICK d : d = <<"dict">>
    OBVIOUS
  <2>4. d \in Seq(Containing) /\ Len(d) = 1 /\ d[1] = "dict"
    BY <2>3 DEF Containing
  <2>5. /\ Len(t) = m + 2 /\ DOMAIN t = 1..(m + 2) /\ t[m + 2] = "keyval" /\ t[m + 1] = "dict"
        /\ \A i \in 1..m : t[i] = X[i]
    BY <1>2, <1>6, <2>1, <2>2
  <2>6. /\ DOMAIN rest = 1..(m + 1) /\ rest[m + 1] = "dict" /\ rest = [i \in 1..(m + 1) |-> rest[i]]
        /\ \A i \in 1..m : rest[i] = X[i]
    BY <1>2, <1>6, <2>3, <2>4
  <2>7. Len(nodes) = m + 2 /\ m + 2 \in 1..Len(nodes)
    BY <1>4, <2>5
  <2>8. ASSUME NEW i \in 1..(m + 1) PROVE rest[i] = nodes[i].type
    <3>1. i \in 1..Len(nodes) /\ (i \in 1..m \/ i = m + 1)
      BY <2>7
    <3> QED BY <1>4, <2>5, <2>6, <3>1
  <2> QED BY <1>4, <2>5, <2>6, <2>7, <2>8
<1> QED BY <1>1, <1>3, <1>5, <1>6

\* The nodes up to a place, with another one on top.
LEMMA Topped ==
    ASSUME NEW nodes, Stackable(nodes), NEW e, NEW m \in Nat, m <= Len(nodes), NEW v, IsNode(v)
    PROVE  LET s == Append(SubSeq(Append(nodes, e), 1, m), v)
           IN  /\ Stackable(s) /\ Len(s) = m + 1 /\ s[m + 1] = v
               /\ \A i \in 1..m : s[i] = nodes[i]
<1>1. PICK a : a = Append(nodes, e)
  OBVIOUS
<1>2. PICK U : U = Range(nodes) \cup {e, v}
  OBVIOUS
<1>3. nodes \in Seq(U)
  BY <1>2 DEF Stackable
<1>4. a \in Seq(U) /\ Len(a) = Len(nodes) + 1 /\ \A i \in 1..Len(nodes) : a[i] = nodes[i]
  BY <1>1, <1>2, <1>3
<1>5. PICK b : b = SubSeq(a, 1, m)
  OBVIOUS
<1>6. b \in Seq(U) /\ Len(b) = m /\ \A i \in 1..m : b[i] = nodes[i]
  <2>1. m <= Len(a) /\ \A i \in 1..m : a[i] \in U /\ a[i] = nodes[i]
    <3>1. Len(nodes) \in Nat /\ \A i \in 1..m : i \in 1..Len(nodes) /\ i \in 1..Len(a)
      BY <1>3, <1>4
    <3> QED BY <1>4, <3>1
  <2> QED BY <1>5, <2>1, SubSeqProperties
<1>7. PICK s : s = Append(b, v)
  OBVIOUS
<1>8. /\ s \in Seq(U) /\ Len(s) = m + 1 /\ s[m + 1] = v /\ DOMAIN s = 1..(m + 1)
      /\ \A i \in 1..m : s[i] = b[i]
  BY <1>2, <1>6, <1>7
<1>9. Stackable(s)
  <2>1. s \in Seq(Range(s))
    BY <1>8, OfItsOwn
  <2>2. ASSUME NEW i \in DOMAIN s PROVE IsNode(s[i])
    <3>1. i \in 1..m \/ i = m + 1
      BY <1>8
    <3>2. i \in 1..m => i \in DOMAIN nodes
      BY <1>3
    <3> QED BY <1>6, <1>8, <3>1, <3>2 DEF Stackable
  <2> QED BY <2>1, <2>2 DEF Stackable
<1> QED BY <1>1, <1>5, <1>6, <1>7, <1>8, <1>9

\* Appending to an array or setting in a dictionary leaves the type of the node.
LEMMA ContainersKept ==
    ASSUME NEW d, IsNode(d), NEW n, NEW kv
    PROVE  /\ IsNode(Node_ArrayAppend(d, n)) /\ Node_ArrayAppend(d, n).type = d.type
           /\ IsNode(Node_DictSetKeyVal(d, kv)) /\ Node_DictSetKeyVal(d, kv).type = d.type
<1>1. IsNode(Node_ArrayAppend(d, n)) /\ Node_ArrayAppend(d, n).type = d.type
  BY DEF IsNode, Node_ArrayAppend
<1>2. ASSUME NEW key, NEW x
      PROVE  IsNode(Node_DictSet(d, key, x)) /\ Node_DictSet(d, key, x).type = d.type
  BY DEF IsNode, Node_DictSet
<1> QED BY <1>1, <1>2 DEF Node_DictSetKeyVal

\* popCallback changes the nodes and the error alone.
LEMMA AttachedFrame ==
    ASSUME NEW p, IsContext(p)
    PROVE  /\ IsContext(Attached(p)) /\ Attached(p).stack = p.stack /\ Attached(p).outcome = p.outcome
           /\ Attached(p).err = "none" => p.err = "none"
BY DEF Attached, SetInParent, Fail, IsContext, Fields

\* The node on top of the stack is set in the one below it, if that waits for
\* a value, and leaves the stack, with its key in a dictionary.
LEMMA AttachedWaiting ==
    ASSUME NEW p, IsContext(p), NEW nodes, Stackable(nodes), NEW e, p.nodes = Append(nodes, e),
           NEW rest, Waiting(TypesOf(nodes), rest)
    PROVE  Stackable(Attached(p).nodes) /\ TypesOf(Attached(p).nodes) = rest
<1>1. PICK k : k = Len(p.nodes)
  OBVIOUS
<1>2. nodes \in Seq(Range(nodes)) /\ Len(nodes) \in Nat
  BY DEF Stackable
<1>3. /\ k = Len(nodes) + 1 /\ p.nodes[k] = e
      /\ \A i \in 1..Len(nodes) : p.nodes[i] = nodes[i]
  BY <1>1, <1>2
<1>4. \A i \in 1..Len(nodes) : IsNode(nodes[i])
  BY <1>2 DEF Stackable
<1>5. PICK m \in Nat :
        \/ Len(nodes) = m + 1 /\ nodes[m + 1].type = "array" /\ rest = TypesOf(nodes)
        \/ /\ Len(nodes) = m + 2 /\ nodes[m + 2].type = "keyval"
           /\ DOMAIN rest = 1..(m + 1) /\ rest = [i \in 1..(m + 1) |-> rest[i]]
           /\ \A i \in 1..(m + 1) : rest[i] = nodes[i].type
  BY WaitingParts
<1>6. ASSUME NEW s, Stackable(s), Len(s) = m + 1, NEW r, DOMAIN r = 1..(m + 1),
             r = [i \in 1..(m + 1) |-> r[i]], \A i \in 1..(m + 1) : s[i].type = r[i]
      PROVE  TypesOf(s) = r
  <2>1. DOMAIN s = 1..(m + 1)
    BY <1>6 DEF Stackable
  <2> QED BY <1>6, <2>1 DEF TypesOf
<1>7. CASE Len(nodes) = m + 1 /\ nodes[m + 1].type = "array" /\ rest = TypesOf(nodes)
  <2>1. k = m + 2 /\ k - 1 = m + 1 /\ k - 2 = m /\ m <= Len(nodes) /\ m + 1 \in 1..Len(nodes) /\ k > 1
    BY <1>3, <1>7
  <2>2. PICK v : v = Node_ArrayAppend(nodes[m + 1], e)
    OBVIOUS
  <2>3. IsNode(v) /\ v.type = "array"
    BY <1>4, <1>7, <2>1, <2>2, ContainersKept
  <2>4. PICK s : s = Append(SubSeq(Append(nodes, e), 1, m), v)
    OBVIOUS
  <2>5. Attached(p).nodes = s
    <3>1. p.nodes[k - 1] = nodes[m + 1]
      BY <1>3, <2>1
    <3>2. Attached(p) = [p EXCEPT !.nodes = Append(SubSeq(@, 1, k - 2), Node_ArrayAppend(nodes[m + 1], e))]
      BY <1>1, <1>3, <1>7, <2>1, <3>1 DEF Attached, SetInParent
    <3> QED BY <2>1, <2>2, <2>4, <3>2 DEF IsContext, Fields
  <2>6. Stackable(s) /\ Len(s) = m + 1 /\ s[m + 1] = v /\ \A i \in 1..m : s[i] = nodes[i]
    BY <2>1, <2>3, <2>4, Topped
  <2>7. \A i \in 1..(m + 1) : s[i].type = nodes[i].type
    <3>1. \A i \in 1..(m + 1) : i \in 1..m \/ i = m + 1
      OBVIOUS
    <3> QED BY <1>7, <2>3, <2>6, <3>1
  <2>8. /\ DOMAIN rest = 1..(m + 1) /\ rest = [i \in 1..(m + 1) |-> rest[i]]
        /\ \A i \in 1..(m + 1) : rest[i] = nodes[i].type
    <3>1. DOMAIN nodes = 1..(m + 1)
      BY <1>2, <1>7
    <3> QED BY <1>7, <3>1 DEF TypesOf
  <2>9. \A i \in 1..(m + 1) : s[i].type = rest[i]
    BY <2>7, <2>8
  <2>10. TypesOf(s) = rest
    BY <1>6, <2>6, <2>8, <2>9
  <2> QED BY <2>5, <2>6, <2>10
<1>8. CASE /\ Len(nodes) = m + 2 /\ nodes[m + 2].type = "keyval"
           /\ DOMAIN rest = 1..(m + 1) /\ rest = [i \in 1..(m + 1) |-> rest[i]]
           /\ \A i \in 1..(m + 1) : rest[i] = nodes[i].type
  <2>1. /\ k = m + 3 /\ k - 1 = m + 2 /\ k - 2 = m + 1 /\ k - 3 = m /\ m <= Len(nodes)
        /\ m + 1 \in 1..Len(nodes) /\ m + 2 \in 1..Len(nodes) /\ k > 1
    BY <1>3, <1>8
  <2>2. PICK kv : kv = [nodes[m + 2] EXCEPT !.entries = <<e>>]
    OBVIOUS
  <2>3. PICK v : v = Node_DictSetKeyVal(nodes[m + 1], kv)
    OBVIOUS
  <2>4. IsNode(v) /\ v.type = nodes[m + 1].type
    BY <1>4, <2>1, <2>3, ContainersKept
  <2>5. PICK s : s = Append(SubSeq(Append(nodes, e), 1, m), v)
    OBVIOUS
  <2>6. Attached(p).nodes = s
    <3>1. p.nodes[k - 1] = nodes[m + 2] /\ p.nodes[k - 2] = nodes[m + 1]
      BY <1>3, <2>1
    <3>2. Attached(p) = [p EXCEPT !.nodes =
                    Append(SubSeq(@, 1, k - 3), Node_DictSetKeyVal(nodes[m + 1], kv))]
      BY <1>1, <1>3, <1>8, <2>1, <2>2, <3>1 DEF Attached, SetInParent
    <3> QED BY <2>1, <2>3, <2>5, <3>2 DEF IsContext, Fields
  <2>7. Stackable(s) /\ Len(s) = m + 1 /\ s[m + 1] = v /\ \A i \in 1..m : s[i] = nodes[i]
    BY <2>1, <2>4, <2>5, Topped
  <2>8. \A i \in 1..(m + 1) : s[i].type = rest[i]
    <3>1. \A i \in 1..(m + 1) : i \in 1..m \/ i = m + 1
      OBVIOUS
    <3> QED BY <1>8, <2>4, <2>7, <3>1
  <2>9. TypesOf(s) = rest
    BY <1>6, <1>8, <2>7, <2>8
  <2> QED BY <2>6, <2>7, <2>9
<1> QED BY <1>5, <1>7, <1>8


-----------------------------------------------------------------------------
(* The lexer's steps.                                                      *)

\* Most steps leave both stacks alone.
LEMMA StillSound ==
    ASSUME NEW p, Sound(p), p.err = "none",
           NEW q, IsContext(q), q.outcome = p.outcome, q.err = "none" => q.stack = p.stack /\ q.nodes = p.nodes
    PROVE  Sound(q)
BY DEF Sound, Parallel

\* An error keeps the context sound.
LEMMA FailSound ==
    ASSUME NEW p, IsContext(p), p.outcome = "parsing", NEW err, err # "none"
    PROVE  Sound(Fail(p, err))
BY DEF Sound, Fail, IsContext, Fields

\* The slot on top.
LEMMA StateIs ==
    ASSUME NEW p, Shape(p.stack)
    PROVE  State(p) = p.stack[Len(p.stack)] /\ State(p).nelem \in Nat /\ Len(p.stack) \in Nat \ {0}
<1>1. p.stack \in Seq(Slots) /\ Len(p.stack) \in 1..Len(p.stack) /\ Len(p.stack) \in Nat \ {0}
  BY DEF Shape
<1>2. p.stack[Len(p.stack)] \in Slots
  BY <1>1
<1> QED BY <1>1, <1>2 DEF State, Last, Slots

\* Counting an element changes nothing else.
LEMMA CountedIs ==
    ASSUME NEW p, IsContext(p)
    PROVE  /\ IsContext(Counted(p)) /\ Counted(p).stack = Bumped(p.stack)
           /\ Counted(p).nodes = p.nodes /\ Counted(p).outcome = p.outcome /\ Counted(p).err = p.err
BY DEF Counted, Bumped, IsContext, Fields

\* One more node.
LEMMA NodePushed ==
    ASSUME NEW nodes, Stackable(nodes), NEW v, IsNode(v)
    PROVE  Stackable(Append(nodes, v)) /\ TypesOf(Append(nodes, v)) = TypesOf(nodes) \o <<v.type>>
<1>1. PICK s : s = Append(nodes, v)
  OBVIOUS
<1>2. PICK U : U = Range(nodes) \cup {v}
  OBVIOUS
<1>3. PICK n \in Nat : n = Len(nodes)
  BY DEF Stackable
<1>4. nodes \in Seq(U)
  BY <1>2 DEF Stackable
<1>5. s \in Seq(U) /\ Len(s) = n + 1 /\ s[n + 1] = v /\ DOMAIN s = 1..(n + 1) /\ \A i \in 1..n : s[i] = nodes[i]
  BY <1>1, <1>2, <1>3, <1>4
<1>6. Stackable(s)
  <2>1. s \in Seq(Range(s))
    BY <1>5, OfItsOwn
  <2>2. ASSUME NEW i \in DOMAIN s PROVE IsNode(s[i])
    <3>1. i \in 1..n \/ i = n + 1
      BY <1>5
    <3>2. i \in 1..n => i \in DOMAIN nodes
      BY <1>3, <1>4
    <3> QED BY <1>5, <3>1, <3>2 DEF Stackable
  <2> QED BY <2>1, <2>2 DEF Stackable
<1>7. TypesOf(s) = TypesOf(nodes) \o <<v.type>>
  <2>1. PICK t : t = TypesOf(nodes)
    OBVIOUS
  <2>2. DOMAIN t = 1..n /\ \A i \in 1..n : t[i] = nodes[i].type
    BY <1>3, <2>1, TypesAre
  <2>3. PICK ty : ty = v.type
    OBVIOUS
  <2>4. t = [i \in 1..n |-> t[i]]
    BY <1>3, <1>4, <2>1 DEF TypesOf
  <2>5. PICK T : T = {t[i] : i \in 1..n} \cup {ty}
    OBVIOUS
  <2>6. t \in Seq(T) /\ Len(t) = n
    BY <2>4, <2>5
  <2>7. PICK u : u = t \o <<ty>>
    OBVIOUS
  <2>8. u \in Seq(T) /\ Len(u) = n + 1 /\ u[n + 1] = ty /\ \A i \in 1..n : u[i] = t[i]
    BY <2>5, <2>6, <2>7
  <2>9. PICK w : w = TypesOf(s)
    OBVIOUS
  <2>10. DOMAIN w = 1..(n + 1) /\ \A i \in 1..(n + 1) : w[i] = s[i].type
    BY <1>5, <1>6, <2>9, TypesAre
  <2>11. \A i \in 1..(n + 1) : w[i] = u[i]
    <3>1. \A i \in 1..(n + 1) : i \in 1..n \/ i = n + 1
      OBVIOUS
    <3> QED BY <1>5, <2>2, <2>3, <2>8, <2>10, <3>1
  <2>12. w = [i \in 1..(n + 1) |-> w[i]] /\ u = [i \in 1..(n + 1) |-> u[i]]
    BY <1>5, <2>8, <2>9 DEF TypesOf
  <2> QED BY <2>1, <2>3, <2>7, <2>9, <2>11, <2>12
<1> QED BY <1>1, <1>6, <1>7

\* A slot is pushed once an element is counted in the one below it, and a
\* container has its node pushed.
LEMMA PushSound ==
    ASSUME NEW p, Sound(p), p.err = "none", NEW type, Pushable(p.stack, type),
           NEW q, IsContext(q), q.outcome = p.outcome, q.stack = Bumped(p.stack), q.nodes = p.nodes
    PROVE  Sound(STACK_PUSH(q, type))
<1>1. CASE level(q) >= Levels - 1
  <2>1. STACK_PUSH(q, type) = Fail(q, "LEVELS_EXCEEDED")
    BY <1>1 DEF STACK_PUSH
  <2> QED BY <2>1, FailSound DEF Sound
<1>2. CASE ~(level(q) >= Levels - 1)
  <2>1. PICK r : r = [q EXCEPT !.stack = Append(@, Slot(type))]
    OBVIOUS
  <2>2. STACK_PUSH(q, type) = pushCallback(r, type)
    BY <1>2, <2>1 DEF STACK_PUSH
  <2>3. PICK v : v = IF type = "object" THEN NewDictNode(<<>>, <<>>) ELSE NewArrayNode(<<>>)
    OBVIOUS
  <2>4. IsNode(v) /\ v.type = IF type = "object" THEN "dict" ELSE "array"
    BY <2>3 DEF IsNode, NewDictNode, NewArrayNode, New
  <2>5. PICK z : z = pushCallback(r, type)
    OBVIOUS
  <2>6. /\ IsContext(z) /\ z.outcome = "parsing" /\ z.stack = Pushed(p.stack, type)
        /\ z.nodes = IF type \in {"object", "list"} THEN Append(p.nodes, v) ELSE p.nodes
    BY <2>1, <2>3, <2>5 DEF pushCallback, PushNode, Pushed, Sound, IsContext, Fields
  <2>7. Shape(z.stack) /\ Matched(z.stack, TypesOf(p.nodes) \o Own(type))
    BY <2>6, PushKeeps DEF Sound, Parallel
  <2>8. SUFFICES ASSUME z.stack[1].nelem = 1
                 PROVE  Stackable(z.nodes) /\ TypesOf(z.nodes) = TypesOf(p.nodes) \o Own(type)
    <3>1. z.stack[1].nelem # 1 => Matched(z.stack, TypesOf(z.nodes))
      BY DEF Matched
    <3>2. z.stack[1].nelem = 1 => Stackable(z.nodes) /\ TypesOf(z.nodes) = TypesOf(p.nodes) \o Own(type)
      BY <2>8
    <3> QED BY <2>2, <2>5, <2>6, <2>7, <3>1, <3>2 DEF Sound, Parallel
  <2>9. Stackable(p.nodes)
    <3>1. PICK s : s = p.stack
      OBVIOUS
    <3>2. PICK n \in Nat : n = Len(s) /\ n >= 1 /\ s \in Seq(Slots) /\ s # <<>> /\ s[1].nelem >= 1 /\ s[1].nelem \in Nat
      <4>1. s \in Seq(Slots) /\ s # <<>> /\ s[1].nelem >= 1
        BY <3>1 DEF Sound, Parallel, Shape
      <4>2. 1 \in 1..Len(s) /\ s[1] \in Slots
        BY <4>1
      <4> QED BY <4>1, <4>2 DEF Slots
    <3>3. /\ \A i \in 1..(Len(s) - 1) : Pushed(s, type)[i] = s[i]
          /\ Pushed(s, type)[Len(s)].nelem = s[Len(s)].nelem + 1
      BY <3>1, <3>2, PushedIs
    <3>4. CASE n = 1
      BY <2>6, <2>8, <3>1, <3>2, <3>3, <3>4
    <3>5. CASE n # 1
      <4>1. 1 \in 1..(n - 1) /\ n > 1
        BY <3>2, <3>5
      <4> QED BY <2>6, <2>8, <3>1, <3>2, <3>3, <4>1 DEF Sound, Parallel
    <3> QED BY <3>4, <3>5
  <2>10. CASE type \in {"object", "list"}
    <3>1. Own(type) = <<v.type>>
      BY <2>4, <2>10 DEF Own
    <3> QED BY <2>4, <2>6, <2>9, <2>10, <3>1, NodePushed
  <2>11. CASE type \notin {"object", "list"}
    <3>1. Own(type) = <<>>
      BY <2>11 DEF Own
    <3>2. PICK t : t = TypesOf(p.nodes)
      OBVIOUS
    <3>3. t \o <<>> = t
      <4>1. DOMAIN t = 1..Len(p.nodes) /\ t = [i \in 1..Len(p.nodes) |-> t[i]] /\ Len(p.nodes) \in Nat
        BY <2>9, <3>2 DEF TypesOf, Stackable
      <4>2. t \in Seq(Range(t))
        BY <4>1 DEF Range
      <4> QED BY <4>2
    <3> QED BY <2>6, <2>9, <2>11, <3>1, <3>2, <3>3
  <2> QED BY <2>10, <2>11
<1> QED BY <1>1, <1>2

\* Where a value may begin.
LEMMA ValuePushable ==
    ASSUME NEW p, Shape(p.stack), State(p).type \in {"none", "object", "list"}, ~KeyExpected(p),
           NEW type, type \in {"object", "list", "string", "special"}
    PROVE  Pushable(p.stack, type)
<1>1. State(p) = p.stack[Len(p.stack)] /\ State(p).nelem \in Nat
  BY StateIs
<1>2. State(p).type = "object" => State(p).nelem % 2 # 0
  BY DEF KeyExpected
<1> QED BY <1>1, <1>2 DEF Pushable

\* { and [
LEMMA OpenSound ==
    ASSUME NEW p, Sound(p), p.err = "none", State(p).type \in {"none", "object", "list"},
           NEW type \in {"object", "list"}
    PROVE  Sound(Open(p, type))
<1>1. CASE ~p.can_insert \/ KeyExpected(p)
  <2>1. \E err : err # "none" /\ Open(p, type) = Fail(p, err)
    BY <1>1 DEF Open
  <2> QED BY <2>1, FailSound DEF Sound
<1>2. CASE p.can_insert /\ ~KeyExpected(p)
  <2>1. PICK q : q = [Counted(p) EXCEPT !.tok_last = "", !.expecting = IF type = "object" THEN "\"" ELSE @]
    OBVIOUS
  <2>2. Open(p, type) = STACK_PUSH(q, type)
    BY <1>2, <2>1 DEF Open
  <2>3. IsContext(q) /\ q.outcome = p.outcome /\ q.stack = Bumped(p.stack) /\ q.nodes = p.nodes
    <3>1. PICK r : r = Counted(p)
      OBVIOUS
    <3>2. IsContext(r) /\ r.outcome = p.outcome /\ r.stack = Bumped(p.stack) /\ r.nodes = p.nodes
      BY <3>1, CountedIs DEF Sound
    <3> QED BY <2>1, <3>1, <3>2 DEF IsContext, Fields
  <2>4. Pushable(p.stack, type)
    BY <1>2, ValuePushable DEF Sound, Parallel
  <2> QED BY <2>2, <2>3, <2>4, PushSound
<1> QED BY <1>1, <1>2

\* A quote that begins a string or a key.
LEMMA QuoteSound ==
    ASSUME NEW p, Sound(p), p.err = "none", State(p).type \in {"none", "object", "list"}
    PROVE  Sound(Quote(p))
<1>1. PICK s : s = State(p)
  OBVIOUS
<1>2. PICK q : q = [Counted(p) EXCEPT !.can_insert = FALSE, !.tok_last = ""]
  OBVIOUS
<1>3. IsContext(q) /\ q.outcome = p.outcome /\ q.stack = Bumped(p.stack) /\ q.nodes = p.nodes
  <2>1. PICK r : r = Counted(p)
    OBVIOUS
  <2>2. IsContext(r) /\ r.outcome = p.outcome /\ r.stack = Bumped(p.stack) /\ r.nodes = p.nodes
    BY <2>1, CountedIs DEF Sound
  <2> QED BY <1>2, <2>1, <2>2 DEF IsContext, Fields
<1>4. s = p.stack[Len(p.stack)] /\ s.nelem \in Nat /\ s.nelem % 2 \in {0, 1}
  BY <1>1, StateIs, Parity DEF Sound, Parallel
<1>5. ASSUME NEW x PROVE \A t \in {"string", "hkey"} : Pushable(p.stack, t) => Sound(STACK_PUSH([q EXCEPT !.expecting = x], t))
  <2> TAKE t \in {"string", "hkey"}
  <2> HAVE Pushable(p.stack, t)
  <2>1. PICK r : r = [q EXCEPT !.expecting = x]
    OBVIOUS
  <2>2. IsContext(r) /\ r.outcome = p.outcome /\ r.stack = Bumped(p.stack) /\ r.nodes = p.nodes
    BY <1>3, <2>1 DEF IsContext, Fields
  <2> QED BY <2>1, <2>2, PushSound
<1>6. Quote(p) =
        CASE s.type = "object" /\ s.nelem % 2 = 1 ->
                IF p.tok_last # ":" THEN Fail(p, "MISSING_TOKEN")
                ELSE STACK_PUSH([q EXCEPT !.expecting = ","], "string")
          [] s.type = "object" /\ s.nelem % 2 = 0 ->
                IF p.expecting # "\"" THEN Fail(p, "STRAY_TOKEN")
                ELSE STACK_PUSH([q EXCEPT !.expecting = ":"], "hkey")
          [] s.type = "list" -> STACK_PUSH([q EXCEPT !.expecting = ","], "string")
          [] OTHER -> Fail(p, "STRING_OUTSIDE_CONTAINER")
  BY <1>1, <1>2 DEF Quote
<1>7. \A err : err # "none" => Sound(Fail(p, err))
  BY FailSound DEF Sound
<1>8. CASE s.type = "object" /\ s.nelem % 2 = 1
  <2>1. Pushable(p.stack, "string")
    BY <1>4, <1>8 DEF Pushable
  <2>0. s.nelem % 2 # 0 /\ s.type # "list" /\ s.type # "none"
    BY <1>8
  <2>2. CASE p.tok_last # ":"
    <3>1. Quote(p) = Fail(p, "MISSING_TOKEN")
      BY <1>6, <1>8, <2>0, <2>2
    <3> QED BY <1>7, <3>1
  <2>3. CASE ~(p.tok_last # ":")
    <3>1. Quote(p) = STACK_PUSH([q EXCEPT !.expecting = ","], "string")
      BY <1>6, <1>8, <2>0, <2>3
    <3> QED BY <1>5, <2>1, <3>1
  <2> QED BY <2>2, <2>3
<1>9. CASE s.type = "object" /\ s.nelem % 2 = 0
  <2>1. Pushable(p.stack, "hkey")
    BY <1>4, <1>9 DEF Pushable
  <2>0. s.nelem % 2 # 1 /\ s.type # "list" /\ s.type # "none"
    BY <1>9
  <2>2. CASE p.expecting # "\""
    <3>1. Quote(p) = Fail(p, "STRAY_TOKEN")
      BY <1>6, <1>9, <2>0, <2>2
    <3> QED BY <1>7, <3>1
  <2>3. CASE ~(p.expecting # "\"")
    <3>1. Quote(p) = STACK_PUSH([q EXCEPT !.expecting = ":"], "hkey")
      BY <1>6, <1>9, <2>0, <2>3
    <3> QED BY <1>5, <2>1, <3>1
  <2> QED BY <2>2, <2>3
<1>10. CASE s.type = "list"
  <2>1. Pushable(p.stack, "string")
    BY <1>4, <1>10 DEF Pushable
  <2>2. Quote(p) = STACK_PUSH([q EXCEPT !.expecting = ","], "string")
    BY <1>6, <1>10
  <2> QED BY <1>5, <2>1, <2>2
<1>11. CASE s.type = "none"
  BY <1>6, <1>7, <1>11
<1> QED BY <1>1, <1>4, <1>8, <1>9, <1>10, <1>11

\* A number or literal name begins.
LEMMA BeginSpecialSound ==
    ASSUME NEW p, Sound(p), p.err = "none", State(p).type \in {"none", "object", "list"}, NEW c
    PROVE  Sound(BeginSpecial(p, c))
<1>1. CASE KeyExpected(p) \/ ~p.can_insert
  <2>1. \E err : err # "none" /\ BeginSpecial(p, c) = Fail(p, err)
    BY <1>1 DEF BeginSpecial
  <2> QED BY <2>1, FailSound DEF Sound
<1>2. CASE ~KeyExpected(p) /\ p.can_insert
  <2>1. PICK q : q = STACK_PUSH(Counted(p), "special")
    OBVIOUS
  <2>2. Sound(q)
    <3>1. Pushable(p.stack, "special")
      BY <1>2, ValuePushable DEF Sound, Parallel
    <3>2. PICK r : r = Counted(p)
      OBVIOUS
    <3>3. IsContext(r) /\ r.outcome = p.outcome /\ r.stack = Bumped(p.stack) /\ r.nodes = p.nodes
      BY <3>2, CountedIs DEF Sound
    <3> QED BY <2>1, <3>1, <3>2, <3>3, PushSound
  <2>3. BeginSpecial(p, c) = IF q.err # "none" THEN q ELSE [q EXCEPT !.escapes[level(q)] = TRUE, !.chars = <<c>>]
    BY <1>2, <2>1 DEF BeginSpecial
  <2>4. CASE q.err # "none"
    BY <2>2, <2>3, <2>4
  <2>5. CASE q.err = "none"
    <3>1. PICK r : r = [q EXCEPT !.escapes[level(q)] = TRUE, !.chars = <<c>>]
      OBVIOUS
    <3>2. IsContext(r) /\ r.outcome = q.outcome /\ r.stack = q.stack /\ r.nodes = q.nodes
      BY <2>2, <3>1 DEF IsContext, Fields, Sound
    <3> QED BY <2>2, <2>3, <2>5, <3>1, <3>2, StillSound
  <2> QED BY <2>4, <2>5
<1> QED BY <1>1, <1>2

\* : and ,
LEMMA ColonCommaSound ==
    ASSUME NEW p, Sound(p), p.err = "none"
    PROVE  Sound(Colon(p)) /\ Sound(Comma(p))
<1>1. IsContext(p)
  BY DEF Sound
<1>2. \A q : IsContext(q) /\ q.outcome = p.outcome /\ (q.err = "none" => q.stack = p.stack /\ q.nodes = p.nodes) => Sound(q)
  BY StillSound
<1>3. /\ IsContext(Colon(p)) /\ Colon(p).outcome = p.outcome
      /\ Colon(p).stack = p.stack /\ Colon(p).nodes = p.nodes
  BY <1>1 DEF Colon, Fail, IsContext, Fields
<1>4. /\ IsContext(Comma(p)) /\ Comma(p).outcome = p.outcome
      /\ Comma(p).stack = p.stack /\ Comma(p).nodes = p.nodes
  BY <1>1 DEF Comma, Fail, IsContext, Fields
<1> QED BY <1>2, <1>3, <1>4

\* A value that has been read leaves the lexer's stack, and its node is set in
\* the container around it.
LEMMA PopSound ==
    ASSUME NEW p, Sound(p), p.err = "none",
           NEW n \in Nat, Len(p.stack) = n + 2, p.stack[n + 2].type # "hkey",
           p.stack[n + 2].type = "object" => p.stack[n + 2].nelem % 2 # 1,
           NEW q, IsContext(q), q.outcome = p.outcome, q.err = "none" => q.stack = Front(p.stack),
           \A held : /\ p.stack[1].nelem = 1
                     /\ n > 0 \/ p.stack[n + 2].type \notin {"object", "list"}
                     /\ Stackable(p.nodes) /\ TypesOf(p.nodes) = held \o Own(p.stack[n + 2].type)
                     /\ held \in Seq(Containing) /\ q.err = "none"
                     => \A rest : Waiting(held, rest) => Stackable(q.nodes) /\ TypesOf(q.nodes) = rest
    PROVE  Sound(q)
<1> SUFFICES ASSUME q.err = "none" PROVE Parallel(q)
  BY DEF Sound
<1>1. Shape(p.stack) /\ Matched(p.stack, TypesOf(p.nodes)) /\ q.stack = Front(p.stack)
  BY DEF Sound, Parallel
<1>2. /\ Shape(q.stack) /\ Len(q.stack) = n + 1
      /\ \A i \in 1..(n + 1) : q.stack[i] = p.stack[i]
  BY <1>1, FrontShape
<1>3. 1 \in 1..(n + 1) /\ n + 2 > 1 /\ (n + 1 > 1 <=> n > 0)
  OBVIOUS
<1>4. CASE ~(p.stack[1].nelem = 1 /\ n > 0)
  <2>1. ~(q.stack[1].nelem = 1 /\ Len(q.stack) > 1)
    BY <1>2, <1>3, <1>4
  <2> QED BY <1>2, <2>1 DEF Parallel, Matched
<1>5. CASE p.stack[1].nelem = 1 /\ n > 0
  <2>1. Stackable(p.nodes)
    BY <1>3, <1>5 DEF Sound, Parallel
  <2>2. PICK held, rest : /\ Waiting(held, rest)
                          /\ TypesOf(p.nodes) = held \o Own(p.stack[n + 2].type)
                          /\ Matched(Front(p.stack), rest)
    BY <1>1, <1>5, PopValueKeeps, ZenonT(40)
  <2>3. held \in Seq(Containing)
    <3>1. <<"array">> \in Seq(Containing) /\ <<"dict", "keyval">> \in Seq(Containing)
      BY DEF Containing
    <3>2. PICK X \in Seq(Containing) : held = X \o <<"array">> \/ held = X \o <<"dict", "keyval">>
      BY <2>2 DEF Waiting
    <3>3. X \o <<"array">> \in Seq(Containing) /\ X \o <<"dict", "keyval">> \in Seq(Containing)
      BY <3>1
    <3> QED BY <3>2, <3>3
  <2>4. Stackable(q.nodes) /\ TypesOf(q.nodes) = rest
    BY <1>5, <2>1, <2>2, <2>3
  <2> QED BY <1>1, <1>2, <2>2, <2>4 DEF Parallel
<1> QED BY <1>4, <1>5

\* A slot on the first one.
LEMMA TopIs ==
    ASSUME NEW p, Shape(p.stack), State(p).type # "none"
    PROVE  \E n \in Nat : Len(p.stack) = n + 2 /\ State(p) = p.stack[n + 2]
<1>1. PICK k \in Nat \ {0} : k = Len(p.stack) /\ State(p) = p.stack[k]
  BY StateIs
<1>2. k # 1
  BY <1>1 DEF Shape
<1>3. k - 2 \in Nat /\ k = (k - 2) + 2
  BY <1>2
<1> QED BY <1>1, <1>3

\* A key that has been read.
LEMMA KeySound ==
    ASSUME NEW p, Sound(p), p.err = "none", State(p).type = "hkey",
           NEW q, IsContext(q), q.outcome = p.outcome, q.err = "none" => q.stack = Front(p.stack),
           NEW kv, IsNode(kv), kv.type = "keyval", q.err = "none" => q.nodes = Append(p.nodes, kv)
    PROVE  Sound(q)
<1> SUFFICES ASSUME q.err = "none" PROVE Parallel(q)
  BY DEF Sound
<1>1. Shape(p.stack) /\ Matched(p.stack, TypesOf(p.nodes)) /\ q.stack = Front(p.stack) /\ q.nodes = Append(p.nodes, kv)
  BY DEF Sound, Parallel
<1>2. PICK n \in Nat : Len(p.stack) = n + 2 /\ State(p) = p.stack[n + 2]
  BY <1>1, TopIs
<1>3. /\ Shape(q.stack) /\ Len(q.stack) = n + 1
      /\ \A i \in 1..(n + 1) : q.stack[i] = p.stack[i]
  BY <1>1, <1>2, FrontShape
<1>4. Matched(q.stack, TypesOf(p.nodes) \o <<"keyval">>)
  BY <1>1, <1>2, PopKeyKeeps
<1>5. CASE q.stack[1].nelem = 1 /\ Len(q.stack) > 1
  <2>1. 1 \in 1..(n + 1) /\ n + 2 > 1
    OBVIOUS
  <2>2. Stackable(p.nodes)
    BY <1>2, <1>3, <1>5, <2>1 DEF Sound, Parallel
  <2>3. Stackable(q.nodes) /\ TypesOf(q.nodes) = TypesOf(p.nodes) \o <<"keyval">>
    BY <1>1, <2>2, NodePushed
  <2> QED BY <1>3, <1>4, <2>3 DEF Parallel
<1>6. CASE ~(q.stack[1].nelem = 1 /\ Len(q.stack) > 1)
  BY <1>3, <1>6 DEF Parallel, Matched
<1> QED BY <1>5, <1>6

\* A value of one node that has been read.
LEMMA ScalarSound ==
    ASSUME NEW p, Sound(p), p.err = "none", State(p).type \in {"string", "special"},
           NEW e, NEW z, IsContext(z), z.stack = p.stack, z.outcome = p.outcome, z.nodes = Append(p.nodes, e),
           NEW q, IsContext(q), q.outcome = p.outcome,
           q.err = "none" => q.stack = Front(p.stack) /\ q.nodes = Attached(z).nodes
    PROVE  Sound(q)
<1>1. PICK n \in Nat : Len(p.stack) = n + 2 /\ State(p) = p.stack[n + 2]
  <2>1. (p.err = "none" => Shape(p.stack)) /\ State(p).type # "none"
    BY DEF Sound, Parallel
  <2> QED BY <2>1, TopIs
<1>2. ASSUME NEW held, Stackable(p.nodes), TypesOf(p.nodes) = held \o Own(p.stack[n + 2].type),
             held \in Seq(Containing), q.err = "none", NEW rest, Waiting(held, rest)
      PROVE  Stackable(q.nodes) /\ TypesOf(q.nodes) = rest
  <2>1. Own(p.stack[n + 2].type) = <<>>
    BY <1>1 DEF Own
  <2>2. held \o <<>> = held
    BY <1>2
  <2>3. Waiting(TypesOf(p.nodes), rest)
    BY <1>2, <2>1, <2>2
  <2> QED BY <1>2, <2>3, AttachedWaiting, ZenonT(40)
<1>3. p.stack[n + 2].type # "hkey" /\ p.stack[n + 2].type # "object"
  BY <1>1
<1> QED BY <1>1, <1>2, <1>3, PopSound

\* What popping leaves.
LEMMA PopSlotIs ==
    ASSUME NEW p, IsContext(p)
    PROVE  /\ IsContext(PopSlot(p)) /\ PopSlot(p).outcome = p.outcome /\ PopSlot(p).err = p.err
           /\ p.err = "none" => PopSlot(p).stack = Front(p.stack) /\ PopSlot(p).nodes = p.nodes
BY DEF PopSlot, IsContext, Fields

\* The tokens of the escapes.
LEMMA EscapesAre == Range(twoCharEscape) = {"\\n", "\\\""}
<1>1. PICK f : f = twoCharEscape
  OBVIOUS
<1>2. DOMAIN f = {"newline", "quote"} /\ f["newline"] = "\\n" /\ f["quote"] = "\\\""
  BY <1>1 DEF twoCharEscape
<1> QED BY <1>1, <1>2 DEF Range

\* A token within a string or key.
LEMMA InStringSound ==
    ASSUME NEW p, Sound(p), p.err = "none", State(p).type \in {"string", "hkey"}, NEW c
    PROVE  Sound(InString(p, c))
<1>1. IsContext(p) /\ p.outcome = "parsing"
  BY DEF Sound
<1>2. CASE c = "\""
  <2>1. PICK r : r = [p EXCEPT !.can_insert = FALSE]
    OBVIOUS
  <2>2. /\ IsContext(r) /\ r.stack = p.stack /\ r.outcome = p.outcome
        /\ r.nodes = p.nodes /\ r.err = "none" /\ r.chars = p.chars
    BY <1>1, <2>1 DEF IsContext, Fields
  <2>3. PICK z : z = popString(r)
    OBVIOUS
  <2>4. PICK q : q = PopSlot(z)
    OBVIOUS
  <2>5. InString(p, c) = q
    BY <1>2, <2>1, <2>3, <2>4, EscapesAre DEF InString
  <2>6. State(r) = State(p)
    BY <2>2 DEF State
  <2>7. PICK escaped : escaped = r.escapes[level(r)]
    OBVIOUS
  <2>8. PICK str : str = IF escaped THEN [i \in DOMAIN r.chars |-> Unescape(r.chars[i])] ELSE r.chars
    OBVIOUS
  <2>9. z = CASE escaped /\ str = <<>> -> Fail(r, "UNESCAPE")
              [] ~(escaped /\ str = <<>>) /\ State(r).type = "string" ->
                    Attached(PushNode(r, NewStringNode(str)))
              [] ~(escaped /\ str = <<>>) /\ State(r).type = "hkey" ->
                    PushNode(r, KeyVal(str, NullNode))
    BY <2>3, <2>7, <2>8 DEF popString
  <2>10. CASE escaped /\ str = <<>>
    <3>1. z = Fail(r, "UNESCAPE")
      BY <2>9, <2>10
    <3>2. q = z /\ IsContext(z) /\ z.outcome = "parsing" /\ z.err # "none"
      BY <1>1, <2>2, <2>4, <3>1 DEF Fail, PopSlot, IsContext, Fields
    <3> QED BY <2>5, <3>2 DEF Sound
  <2>11. CASE ~(escaped /\ str = <<>>) /\ State(r).type = "string"
    <3>1. PICK e : e = NewStringNode(str)
      OBVIOUS
    <3>2. PICK w : w = PushNode(r, e)
      OBVIOUS
    <3>3. z = Attached(w)
      BY <2>9, <2>11, <3>1, <3>2
    <3>4. /\ IsContext(w) /\ w.stack = p.stack /\ w.outcome = p.outcome /\ w.nodes = Append(p.nodes, e)
      BY <2>2, <3>2 DEF PushNode, IsContext, Fields
    <3>5. IsContext(z) /\ z.stack = p.stack /\ z.outcome = p.outcome
      BY <3>3, <3>4, AttachedFrame
    <3>6. /\ IsContext(q) /\ q.outcome = p.outcome
          /\ q.err = "none" => q.stack = Front(p.stack) /\ q.nodes = Attached(w).nodes
      BY <2>4, <3>3, <3>5, PopSlotIs
    <3>7. State(p).type \in {"string", "special"}
      BY <2>6, <2>11
    <3> QED BY <2>5, <3>4, <3>6, <3>7, ScalarSound
  <2>12. CASE ~(escaped /\ str = <<>>) /\ State(r).type = "hkey"
    <3>1. PICK e : e = KeyVal(str, NullNode)
      OBVIOUS
    <3>2. IsNode(e) /\ e.type = "keyval"
      BY <3>1 DEF KeyVal, New, IsNode
    <3>3. z = PushNode(r, e)
      BY <2>9, <2>12, <3>1
    <3>4. IsContext(z) /\ z.stack = p.stack /\ z.outcome = p.outcome /\ z.nodes = Append(p.nodes, e)
      BY <2>2, <3>3 DEF PushNode, IsContext, Fields
    <3>5. /\ IsContext(q) /\ q.outcome = p.outcome
          /\ q.err = "none" => q.stack = Front(p.stack) /\ q.nodes = Append(p.nodes, e)
      BY <2>4, <3>4, PopSlotIs
    <3>6. State(p).type = "hkey"
      BY <2>6, <2>12
    <3> QED BY <2>5, <3>2, <3>5, <3>6, KeySound
  <2> QED BY <2>6, <2>10, <2>11, <2>12
<1>3. CASE c # "\""
  <2>1. PICK q : q = InString(p, c)
    OBVIOUS
  <2>2. IsContext(q) /\ q.outcome = p.outcome /\ (q.err = "none" => q.stack = p.stack /\ q.nodes = p.nodes)
    <3>1. \/ \E err : q = Fail(p, err)
          \/ q = Fail([p EXCEPT !.escapes[level(p)] = TRUE], "ESCAPE_INVALID")
          \/ q = [p EXCEPT !.escapes[level(p)] = TRUE, !.chars = Append(@, c)]
          \/ q = [p EXCEPT !.chars = Append(@, c)]
      BY <1>3, <2>1, EscapesAre DEF InString
    <3>2. CASE \E err : q = Fail(p, err)
      BY <1>1, <3>2 DEF Fail, IsContext, Fields
    <3>3. CASE q = Fail([p EXCEPT !.escapes[level(p)] = TRUE], "ESCAPE_INVALID")
      BY <1>1, <3>3 DEF Fail, IsContext, Fields
    <3>4. CASE q = [p EXCEPT !.escapes[level(p)] = TRUE, !.chars = Append(@, c)]
      BY <1>1, <3>4 DEF IsContext, Fields
    <3>5. CASE q = [p EXCEPT !.chars = Append(@, c)]
      BY <1>1, <3>5 DEF IsContext, Fields
    <3> QED BY <3>1, <3>2, <3>3, <3>4, <3>5
  <2> QED BY <2>1, <2>2, StillSound
<1> QED BY <1>2, <1>3

\* The node on top of the stack.
LEMMA NodesSplit ==
    ASSUME NEW nodes, Stackable(nodes), NEW held \in Seq(Containing), NEW t, TypesOf(nodes) = held \o <<t>>
    PROVE  \E base, e : Stackable(base) /\ TypesOf(base) = held /\ nodes = Append(base, e)
<1>1. PICK T : T = Containing \cup {t}
  OBVIOUS
<1>2. PICK m \in Nat : m = Len(held)
  OBVIOUS
<1>3. PICK w : w = TypesOf(nodes)
  OBVIOUS
<1>4. Len(w) = m + 1 /\ DOMAIN w = 1..(m + 1) /\ \A i \in 1..m : w[i] = held[i]
  <2>1. held \in Seq(T) /\ <<t>> \in Seq(T) /\ Len(<<t>>) = 1
    BY <1>1
  <2> QED BY <1>2, <1>3, <2>1
<1>5. PICK U : U = Range(nodes)
  OBVIOUS
<1>6. PICK k \in Nat : k = Len(nodes) /\ nodes \in Seq(U) /\ DOMAIN nodes = 1..k
  BY <1>5 DEF Stackable
<1>7. Len(nodes) = m + 1 /\ \A i \in 1..(m + 1) : w[i] = nodes[i].type
  <2>1. DOMAIN w = 1..k /\ \A i \in 1..k : w[i] = nodes[i].type
    BY <1>3, <1>6, TypesAre
  <2>2. 1..k = 1..(m + 1)
    BY <1>4, <2>1
  <2>3. k = m + 1
    BY <2>2
  <2> QED BY <1>6, <2>1, <2>3
<1>8. PICK b : b = Front(nodes)
  OBVIOUS
<1>9. b \in Seq(U) /\ Len(b) = m /\ DOMAIN b = 1..m /\ \A i \in 1..m : b[i] = nodes[i]
  <2>1. nodes \in Seq(U) /\ Len(nodes) = m + 1
    BY <1>6, <1>7
  <2>2. Front(nodes) \in Seq(U) /\ Len(Front(nodes)) = m /\ \A i \in 1..m : Front(nodes)[i] = nodes[i]
    BY <2>1, FrontIs
  <2>3. b \in Seq(U) => DOMAIN b = 1..Len(b)
    OBVIOUS
  <2> QED BY <1>8, <2>2, <2>3
<1>10. Stackable(b)
  <2>1. b \in Seq(Range(b))
    BY <1>9, OfItsOwn
  <2>2. \A i \in 1..m : i \in DOMAIN nodes
    BY <1>6, <1>7
  <2> QED BY <1>9, <2>1, <2>2 DEF Stackable
<1>11. TypesOf(b) = held
  <2>1. PICK u : u = TypesOf(b)
    OBVIOUS
  <2>2. DOMAIN u = 1..m /\ u = [i \in 1..m |-> u[i]] /\ \A i \in 1..m : u[i] = b[i].type
    BY <1>9, <2>1 DEF TypesOf
  <2>3. \A i \in 1..m : i \in 1..(m + 1)
    OBVIOUS
  <2>4. \A i \in 1..m : u[i] = held[i]
    BY <1>4, <1>7, <1>9, <2>2, <2>3, ZenonT(60)
  <2>5. held = [i \in 1..m |-> held[i]]
    BY <1>2
  <2> QED BY <2>1, <2>2, <2>4, <2>5
<1>12. nodes = Append(b, nodes[m + 1])
  <2>1. PICK e : e = nodes[m + 1]
    OBVIOUS
  <2>2. PICK s : s = Append(b, e)
    OBVIOUS
  <2>3. e \in U
    BY <1>6, <1>7, <2>1
  <2>4. s \in Seq(U) /\ Len(s) = m + 1 /\ s[m + 1] = e /\ \A i \in 1..m : s[i] = b[i]
    <3>1. b \in Seq(U) /\ Len(b) = m
      BY <1>9
    <3> QED BY ONLY <2>2, <2>3, <3>1
  <2>5. \A i \in 1..(m + 1) : s[i] = nodes[i]
    <3>1. \A i \in 1..(m + 1) : i \in 1..m \/ i = m + 1
      OBVIOUS
    <3> QED BY <1>9, <2>1, <2>4, <3>1
  <2> QED BY <1>6, <1>7, <2>1, <2>2, <2>4, <2>5, SeqEqual
<1> QED BY <1>10, <1>11, <1>12

\* } and ]
LEMMA CloseSound ==
    ASSUME NEW p, Sound(p), p.err = "none", NEW type \in {"object", "list"}
    PROVE  Sound(Close(p, type))
<1>0. IsContext(p) /\ p.outcome = "parsing" /\ Shape(p.stack)
  BY DEF Sound, Parallel
<1>1. CASE \E err : err # "none" /\ Close(p, type) = Fail(p, err)
  BY <1>0, <1>1, FailSound
<1>2. CASE ~\E err : err # "none" /\ Close(p, type) = Fail(p, err)
  <2>1. PICK z : z = [p EXCEPT !.can_insert = FALSE, !.expecting = ",", !.tok_last = "", !.stack = Front(@)]
    OBVIOUS
  <2>2. PICK odd : odd = (State(p).nelem % 2 = 1)
    OBVIOUS
  <2>3. /\ Close(p, type) = Attached(z)
        /\ State(p).type = type /\ (type = "object" => ~odd)
    <3>1. Close(p, type) =
            CASE p.tok_last = "," -> Fail(p, "TRAILING_COMMA")
              [] p.tok_last # "," /\ State(p).type # type -> Fail(p, "BRACKET_MISMATCH")
              [] p.tok_last # "," /\ State(p).type = type /\ type = "object" /\ State(p).nelem % 2 = 1 ->
                    Fail(p, "VALUE_EXPECTED")
              [] OTHER -> Attached(z)
      BY <2>1 DEF Close
    <3>2. "TRAILING_COMMA" # "none" /\ "BRACKET_MISMATCH" # "none" /\ "VALUE_EXPECTED" # "none"
      OBVIOUS
    <3> QED BY <1>2, <2>2, <3>1, <3>2
  <2>4. IsContext(z) /\ z.outcome = p.outcome /\ z.stack = Front(p.stack) /\ z.nodes = p.nodes
    BY <1>0, <2>1 DEF IsContext, Fields
  <2>5. PICK n \in Nat : Len(p.stack) = n + 2 /\ State(p) = p.stack[n + 2]
    BY <1>0, <2>3, TopIs
  <2>6. PICK q : q = Attached(z)
    OBVIOUS
  <2>7. IsContext(q) /\ q.outcome = p.outcome /\ q.stack = Front(p.stack)
    BY <2>4, <2>6, AttachedFrame
  <2>8. ASSUME NEW held, Stackable(p.nodes), TypesOf(p.nodes) = held \o Own(p.stack[n + 2].type),
               held \in Seq(Containing), NEW rest, Waiting(held, rest)
        PROVE  Stackable(q.nodes) /\ TypesOf(q.nodes) = rest
    <3>1. PICK t : Own(p.stack[n + 2].type) = <<t>>
      BY <2>3, <2>5 DEF Own
    <3>2. PICK nodes : nodes = p.nodes
      OBVIOUS
    <3>3. Stackable(nodes) /\ TypesOf(nodes) = held \o <<t>>
      BY <2>8, <3>1, <3>2
    <3>4. \E base, e : Stackable(base) /\ TypesOf(base) = held /\ nodes = Append(base, e)
      BY <2>8, <3>3, NodesSplit
    <3>5. PICK base, e : Stackable(base) /\ TypesOf(base) = held /\ nodes = Append(base, e)
      BY <3>4
    <3> QED BY <2>4, <2>6, <2>8, <3>2, <3>5, AttachedWaiting
  <2>9. p.stack[n + 2].type # "hkey" /\ (p.stack[n + 2].type = "object" => p.stack[n + 2].nelem % 2 # 1)
    BY <2>2, <2>3, <2>5
  <2>10. Sound(q)
    BY <2>5, <2>7, <2>8, <2>9, PopSound
  <2> QED BY <2>3, <2>6, <2>10
<1> QED BY <1>1, <1>2

\* A token outside of strings, numbers and literal names.
LEMMA StructuralSound ==
    ASSUME NEW p, Sound(p), p.err = "none", State(p).type \in {"none", "object", "list"}, NEW c
    PROVE  Sound(Structural(p, c))
<1>1. \/ Structural(p, c) = Colon(p) \/ Structural(p, c) = Comma(p)
      \/ Structural(p, c) = Open(p, "object") \/ Structural(p, c) = Open(p, "list")
      \/ Structural(p, c) = Close(p, "object") \/ Structural(p, c) = Close(p, "list")
      \/ Structural(p, c) = Fail(p, "SPECIAL_EXPECTED")
  BY DEF Structural
<1>2. Sound(Colon(p)) /\ Sound(Comma(p))
  BY ColonCommaSound
<1>3. Sound(Open(p, "object")) /\ Sound(Open(p, "list"))
  BY OpenSound
<1>4. Sound(Close(p, "object")) /\ Sound(Close(p, "list"))
  BY CloseSound
<1>5. Sound(Fail(p, "SPECIAL_EXPECTED"))
  BY FailSound DEF Sound
<1> QED BY <1>1, <1>2, <1>3, <1>4, <1>5

\* The token after a number or literal name.
LEMMA EndSpecialSound ==
    ASSUME NEW p, Sound(p), p.err = "none", State(p).type = "special", NEW c
    PROVE  Sound(EndSpecial(p, c))
<1>1. IsContext(p) /\ p.outcome = "parsing" /\ Shape(p.stack)
  BY DEF Sound, Parallel
<1>2. PICK z : z = popSpecial(p)
  OBVIOUS
<1>3. PICK q : q = PopSlot(z)
  OBVIOUS
<1>4. PICK d : d = [q EXCEPT !.can_insert = FALSE, !.tok_last = "", !.expecting = ","]
  OBVIOUS
<1>5. EndSpecial(p, c) = CASE q.err # "none" -> q
          [] q.err = "none" /\ c \in Whitespace -> d
          [] q.err = "none" /\ c \notin Whitespace -> Structural(d, c)
  BY <1>2, <1>3, <1>4 DEF EndSpecial
<1>6. CASE p.chars[1] \in OutOfRange
  <2>1. z = Fail(p, "INVALID_NUMBER")
    BY <1>2, <1>6 DEF popSpecial
  <2>2. IsContext(z) /\ z.outcome = "parsing" /\ z.err # "none"
    BY <1>1, <2>1 DEF Fail, IsContext, Fields
  <2>3. IsContext(q) /\ q.outcome = "parsing" /\ q.err # "none"
    BY <1>3, <2>2, PopSlotIs
  <2> QED BY <1>5, <2>3 DEF Sound
<1>7. CASE p.chars[1] \notin OutOfRange
  <2>1. PICK e : e = Literals[p.chars[1]]
    OBVIOUS
  <2>2. PICK w : w = PushNode(p, e)
    OBVIOUS
  <2>3. z = Attached(w)
    BY <1>2, <1>7, <2>1, <2>2 DEF popSpecial
  <2>4. IsContext(w) /\ w.stack = p.stack /\ w.outcome = p.outcome /\ w.nodes = Append(p.nodes, e)
    BY <1>1, <2>2 DEF PushNode, IsContext, Fields
  <2>5. IsContext(z) /\ z.stack = p.stack /\ z.outcome = p.outcome
    BY <2>3, <2>4, AttachedFrame
  <2>6. /\ IsContext(q) /\ q.outcome = p.outcome
        /\ q.err = "none" => q.stack = Front(p.stack) /\ q.nodes = Attached(w).nodes
    BY <1>3, <2>3, <2>5, PopSlotIs
  <2>7. CASE q.err # "none"
    BY <1>1, <1>5, <2>6, <2>7 DEF Sound
  <2>8. CASE q.err = "none"
    <3>1. /\ IsContext(d) /\ d.outcome = p.outcome /\ d.err = "none"
          /\ d.stack = Front(p.stack) /\ d.nodes = Attached(w).nodes
      BY <1>4, <2>6, <2>8 DEF IsContext, Fields
    <3>2. Sound(d)
      BY <2>4, <3>1, ScalarSound
    <3>3. State(d).type \in {"none", "object", "list"}
      <4>1. PICK n \in Nat : Len(p.stack) = n + 2
        BY <1>1, TopIs
      <4>2. Len(d.stack) = n + 1 /\ \A i \in 1..(n + 1) : d.stack[i] = p.stack[i]
        BY <1>1, <3>1, <4>1, FrontShape
      <4>3. State(d) = d.stack[n + 1] /\ n + 1 \in 1..(n + 1)
        BY <3>1, <3>2, <4>2, StateIs DEF Sound, Parallel
      <4>4. n + 1 = 1 \/ n + 1 \in 2..((n + 2) - 1)
        OBVIOUS
      <4> QED BY <1>1, <4>1, <4>2, <4>3, <4>4 DEF Shape
    <3>4. Sound(Structural(d, c))
      BY <3>1, <3>2, <3>3, StructuralSound
    <3> QED BY <1>5, <2>8, <3>2, <3>4
  <2> QED BY <2>7, <2>8
<1> QED BY <1>6, <1>7

\* Every token keeps the two stacks parallel.
LEMMA LexSound ==
    ASSUME NEW p, Sound(p), NEW c
    PROVE  Sound(Lex(p, c))
<1>1. CASE p.err # "none"
  BY <1>1 DEF Lex
<1>2. CASE p.err = "none"
  <2>1. State(p).type \in {"none", "object", "list", "string", "hkey", "special"}
    <3>1. Shape(p.stack)
      BY <1>2 DEF Sound, Parallel
    <3>2. State(p) = p.stack[Len(p.stack)] /\ Len(p.stack) \in 1..Len(p.stack)
      BY <3>1, StateIs
    <3>3. State(p) \in Slots
      BY <3>1, <3>2 DEF Shape
    <3> QED BY <3>3 DEF Slots
  <2>2. CASE State(p).type \in {"string", "hkey"}
    <3>1. Lex(p, c) = InString(p, c)
      BY <1>2, <2>2 DEF Lex
    <3> QED BY <1>2, <2>2, <3>1, InStringSound
  <2>3. CASE State(p).type = "special"
    <3>1. Lex(p, c) = Fail(p, "SPECIAL_EXPECTED") \/ Lex(p, c) = EndSpecial(p, c)
      BY <1>2, <2>3 DEF Lex
    <3>2. Sound(Fail(p, "SPECIAL_EXPECTED"))
      BY FailSound DEF Sound
    <3> QED BY <1>2, <2>3, <3>1, <3>2, EndSpecialSound
  <2>4. CASE State(p).type \in {"none", "object", "list"}
    <3>1. \/ Lex(p, c) = p \/ Lex(p, c) = BeginSpecial(p, c)
          \/ Lex(p, c) = Quote(p) \/ Lex(p, c) = Structural(p, c)
      BY <1>2, <2>4 DEF Lex
    <3> QED BY <1>2, <2>4, <3>1, BeginSpecialSound, QuoteSound, StructuralSound
  <2> QED BY <2>1, <2>2, <2>3, <2>4
<1> QED BY <1>1, <1>2

-----------------------------------------------------------------------------
(* The beginning of a text.                                                *)

\* A context after it was reset.
Fresh(p) ==
    /\ IsContext(p) /\ p.err = "none"
    /\ p.stack = <<Slot("none")>> /\ p.nodes = <<>>

\* The brackets are no numbers and no literal names.
LEMMA BracketsAre ==
    \A c \in {"{", "["} : c \notin Whitespace /\ c \notin DOMAIN Literals \cup OutOfRange
<1>1. (DOMAIN Literals \cup OutOfRange) \cap (Whitespace \cup {"{", "}", "[", "]", ",", ":", "\""}) = {}
  BY ParserAssumption
<1>2. PICK W : W = Whitespace \cup {"{", "}", "[", "]", ",", ":", "\""}
  OBVIOUS
<1>3. \A c \in {"{", "["} : c \in W /\ c \notin Whitespace
  BY <1>2 DEF Whitespace
<1> QED BY <1>1, <1>2, <1>3

\* Two slots, the first of which says nothing.
LEMMA FlattenTwo ==
    ASSUME NEW s \in Seq(Slots), Len(s) = 2, s[1].type = "none", NEW type, s[2].type = type, s[2].nelem = 0
    PROVE  FlattenSeq(Slotted(s)) = Own(type)
<1>1. PICK a : a = Slotted(s)
  OBVIOUS
<1>2. a \in Seq(Seq(Containing)) /\ Len(a) = 2 /\ a[1] = NodesOf(s, 1) /\ a[2] = NodesOf(s, 2)
  <2>1. 1 \in 1..2 /\ 2 \in 1..2
    OBVIOUS
  <2> QED BY <1>1, <2>1, SlottedIs
<1>3. a[1] = <<>>
  <2>1. 1 < Len(s) /\ 1 # Len(s)
    OBVIOUS
  <2> QED BY <1>2, <2>1, NodesOfBelow
<1>4. a[2] = Own(type)
  <2>1. s[2].nelem % 2 # 1
    OBVIOUS
  <2> QED BY <1>2, <2>1, NodesOfTop DEF Own
<1>5. PICK b : b = <<a[1]>>
  OBVIOUS
<1>6. a[1] \in Seq(Containing)
  BY <1>2, NodesOfTypes
<1>7. b \in Seq(Seq(Containing)) /\ Len(b) = 1 /\ b[1] = a[1]
  BY <1>5, <1>6
<1>8. FlattenSeq(a) = FlattenSeq(b) \o a[2]
  <2>1. PICK n \in Nat : n = 1
    OBVIOUS
  <2>2. Len(b) = n /\ Len(a) = n + 1 /\ \A i \in 1..n : a[i] = b[i]
    BY <1>2, <1>7, <2>1
  <2>3. FlattenSeq(a) = FlattenSeq(b) \o a[n + 1]
    BY <1>2, <1>7, <2>2, FlattenLast, ZenonT(40)
  <2>4. n + 1 = 2
    BY <2>1
  <2> QED BY <2>3, <2>4
<1>9. FlattenSeq(b) = <<>> \o b[1]
  <2>1. PICK e : e = <<>>
    OBVIOUS
  <2>2. PICK n \in Nat : n = 0
    OBVIOUS
  <2>3. e \in Seq(Seq(Containing)) /\ Len(e) = n /\ Len(b) = n + 1 /\ \A i \in 1..n : b[i] = e[i]
    BY <1>7, <2>1, <2>2, EmptySeq
  <2>4. FlattenSeq(b) = FlattenSeq(e) \o b[n + 1]
    BY <1>7, <2>3, FlattenLast, ZenonT(40)
  <2>5. n + 1 = 1
    BY <2>2
  <2> QED BY <2>1, <2>4, <2>5, FlattenNone
<1>10. (<<>> \o <<>>) \o Own(type) = Own(type)
  <2>1. Own(type) \in Seq(Containing)
    BY <1>2, <1>4, NodesOfTypes
  <2> QED BY <2>1
<1> QED BY <1>1, <1>3, <1>4, <1>7, <1>8, <1>9, <1>10

\* No nodes.
LEMMA NoNodes == Stackable(<<>>) /\ TypesOf(<<>>) = <<>>
<1>1. PICK e : e = <<>>
  OBVIOUS
<1>2. e \in Seq({}) /\ Len(e) = 0
  BY <1>1, EmptySeq
<1>3. e \in Seq(Range(e)) /\ DOMAIN e = {}
  BY <1>2, OfItsOwn
<1>4. PICK t : t = TypesOf(e)
  OBVIOUS
<1>5. t = [i \in {} |-> e[i].type]
  BY <1>3, <1>4 DEF TypesOf
<1>6. t = <<>>
  BY <1>5
<1> QED BY <1>1, <1>3, <1>4, <1>6 DEF Stackable

\* The only slot.
LEMMA TopOfOne ==
    ASSUME NEW e
    PROVE  Last(<<e>>) = e
BY DEF Last

\* The first bracket of a text.
LEMMA FirstOpenSound ==
    ASSUME NEW p, Fresh(p), p.outcome = "parsing", NEW type \in {"object", "list"}
    PROVE  Sound(Open(p, type))
<1>2. PICK s : s = p.stack
  OBVIOUS
<1>3. s \in Seq(Slots) /\ Len(s) = 1 /\ s # <<>> /\ s[1].type = "none" /\ s[1].nelem = 0
  <2>1. PICK e : e = Slot("none")
    OBVIOUS
  <2>2. e \in Slots /\ e.type = "none" /\ e.nelem = 0
    BY <2>1 DEF Slot, Slots
  <2>3. s = <<e>>
    BY <1>2, <2>1 DEF Fresh
  <2>4. s \in Seq(Slots) /\ Len(s) = 1 /\ s[1] = e
    BY ONLY <2>2, <2>3
  <2>5. s # <<>>
    BY <2>3
  <2> QED BY <2>2, <2>4, <2>5
<1>4. State(p) = s[1]
  BY <1>2, <1>3 DEF State, Last
<1>7. ~KeyExpected(p)
  BY <1>3, <1>4 DEF KeyExpected
<1>8. CASE ~p.can_insert
  <2>1. Open(p, type) = Fail(p, "CANT_INSERT")
    BY <1>7, <1>8 DEF Open
  <2> QED BY <2>1, FailSound DEF Fresh
<1>9. CASE p.can_insert
  <2>1. PICK q : q = [Counted(p) EXCEPT !.tok_last = "", !.expecting = IF type = "object" THEN "\"" ELSE @]
    OBVIOUS
  <2>2. Open(p, type) = STACK_PUSH(q, type)
    BY <1>7, <1>9, <2>1 DEF Open
  <2>3. IsContext(q) /\ q.outcome = "parsing" /\ q.stack = Bumped(s) /\ q.nodes = <<>>
    <3>1. PICK r : r = Counted(p)
      OBVIOUS
    <3>2. IsContext(r) /\ r.outcome = p.outcome /\ r.stack = Bumped(p.stack) /\ r.nodes = p.nodes
      BY <3>1, CountedIs DEF Fresh
    <3> QED BY <1>2, <2>1, <3>1, <3>2 DEF IsContext, Fields, Fresh
  <2>4. CASE level(q) >= Levels - 1
    <3>1. STACK_PUSH(q, type) = Fail(q, "LEVELS_EXCEEDED")
      BY <2>4 DEF STACK_PUSH
    <3> QED BY <2>2, <2>3, <3>1, FailSound
  <2>5. CASE ~(level(q) >= Levels - 1)
    <3>1. PICK r : r = [q EXCEPT !.stack = Append(@, Slot(type))]
      OBVIOUS
    <3>2. STACK_PUSH(q, type) = pushCallback(r, type)
      BY <2>5, <3>1 DEF STACK_PUSH
    <3>3. PICK v : v = IF type = "object" THEN NewDictNode(<<>>, <<>>) ELSE NewArrayNode(<<>>)
      OBVIOUS
    <3>4. IsNode(v) /\ Own(type) = <<v.type>>
      BY <3>3 DEF IsNode, NewDictNode, NewArrayNode, New, Own
    <3>5. PICK z : z = pushCallback(r, type)
      OBVIOUS
    <3>6. /\ IsContext(z) /\ z.outcome = "parsing" /\ z.stack = Pushed(s, type)
          /\ z.nodes = Append(<<>>, v)
      BY <2>3, <3>1, <3>3, <3>5 DEF pushCallback, PushNode, Pushed, IsContext, Fields
    <3>7. /\ z.stack \in Seq(Slots) /\ Len(z.stack) = 2 /\ z.stack[1].type = "none" /\ z.stack[1].nelem = 1
          /\ z.stack[2].type = type /\ z.stack[2].nelem = 0
      <4>1. Pushable(s, type)
        BY <1>3 DEF Pushable
      <4>2. /\ Pushed(s, type) \in Seq(Slots) /\ Len(Pushed(s, type)) = Len(s) + 1
            /\ Pushed(s, type)[Len(s)].type = s[Len(s)].type
            /\ Pushed(s, type)[Len(s)].nelem = s[Len(s)].nelem + 1
            /\ Pushed(s, type)[Len(s) + 1] = [type |-> type, nelem |-> 0]
        BY <1>3, <4>1, PushedIs
      <4>3. PICK k : k = Len(s)
        OBVIOUS
      <4>4. k = 1 /\ k + 1 = 2
        BY <1>3, <4>3
      <4>5. [type |-> type, nelem |-> 0].type = type /\ [type |-> type, nelem |-> 0].nelem = 0
        OBVIOUS
      <4>6. PICK t : t = Pushed(s, type)
        OBVIOUS
      <4>7. /\ t \in Seq(Slots) /\ Len(t) = k + 1 /\ t[k].type = s[k].type /\ t[k].nelem = s[k].nelem + 1
            /\ t[k + 1].type = type /\ t[k + 1].nelem = 0
        BY <4>2, <4>3, <4>5, <4>6
      <4>8. z.stack = t
        BY <3>6, <4>6
      <4>9. /\ t \in Seq(Slots) /\ Len(t) = 2 /\ t[1].type = "none" /\ t[1].nelem = 1
            /\ t[2].type = type /\ t[2].nelem = 0
        BY <1>3, <4>4, <4>7
      <4> QED BY <4>8, <4>9
    <3>8. Stackable(z.nodes) /\ TypesOf(z.nodes) = <<v.type>>
      <4>1. Stackable(<<>>)
        BY NoNodes
      <4>2. Stackable(Append(<<>>, v)) /\ TypesOf(Append(<<>>, v)) = TypesOf(<<>>) \o <<v.type>>
        BY <3>4, <4>1, NodePushed
      <4>3. TypesOf(<<>>) = <<>>
        BY NoNodes
      <4>4. <<>> \o <<v.type>> = <<v.type>>
        <5>1. PICK ty : ty = v.type
          OBVIOUS
        <5>2. <<ty>> \in Seq({ty})
          OBVIOUS
        <5>3. <<>> \o <<ty>> = <<ty>>
          BY <5>2, ConcatEmptySeq
        <5> QED BY <5>1, <5>3
      <4> QED BY <3>6, <4>2, <4>3, <4>4
    <3>9. PICK t : t = z.stack
      OBVIOUS
    <3>10. PICK m \in Nat : m = 2 /\ Len(t) = m
      BY <3>7, <3>9
    <3>11. t # <<>> /\ type \in {"object", "list"} /\ type # "none"
      <4>1. t \in Seq(Slots) /\ t[2].type = type
        BY <3>7, <3>9
      <4>2. t # <<>>
        BY <3>10, <4>1, EmptySeq
      <4> QED BY <4>2
    <3>12. m > 1 /\ (\A i \in 2..m : i = 2) /\ (\A i \in 2..(m - 1) : FALSE) /\ 1 <= 1
      BY <3>10
    <3>13. Shape(t)
      BY <3>7, <3>9, <3>10, <3>11, <3>12 DEF Shape
    <3>14. Matched(t, TypesOf(z.nodes))
      <4>1. TypesOf(z.nodes) = FlattenSeq(Slotted(t))
        BY <3>4, <3>7, <3>8, <3>9, FlattenTwo
      <4>2. t[Len(t)].type # "hkey" /\ t[2].type \in {"object", "list"}
        BY <3>7, <3>9, <3>10, <3>11
      <4> QED BY <3>10, <3>12, <4>1, <4>2 DEF Matched
    <3> QED BY <2>2, <3>2, <3>5, <3>6, <3>8, <3>9, <3>13, <3>14 DEF Sound, Parallel
  <2> QED BY <2>4, <2>5
<1> QED BY <1>8, <1>9

\* The first bracket, as a token.
LEMMA FirstSound ==
    ASSUME NEW p, Fresh(p), p.outcome = "parsing", NEW c \in {"{", "["}
    PROVE  Sound(Lex(p, c))
<1>1. p.err = "none" /\ State(p).type = "none"
  <2>1. p.err = "none" /\ p.stack = <<Slot("none")>>
    BY DEF Fresh
  <2>2. PICK e : e = Slot("none")
    OBVIOUS
  <2>3. Last(<<e>>) = e
    BY TopOfOne
  <2>4. e.type = "none"
    BY <2>2 DEF Slot
  <2> QED BY <2>1, <2>2, <2>3, <2>4 DEF State
<1>2. Lex(p, c) = Structural(p, c)
  BY <1>1, BracketsAre DEF Lex
<1>3. Structural(p, c) = Open(p, "object") \/ Structural(p, c) = Open(p, "list")
  BY DEF Structural
<1>4. Sound(Open(p, "object")) /\ Sound(Open(p, "list"))
  BY FirstOpenSound
<1> QED BY <1>2, <1>3, <1>4

\* The first token of a text that is not whitespace.
LEMMA LeadingSound ==
    ASSUME NEW p, Fresh(p), NEW c
    PROVE  Sound(Lex(Embedded(p, c), c))
<1>1. CASE c \in {"{", "["}
  <2>1. PICK q : q = [p EXCEPT !.outcome = "parsing"]
    OBVIOUS
  <2>2. Fresh(q) /\ q.outcome = "parsing"
    BY <2>1 DEF Fresh, IsContext, Fields
  <2>3. Embedded(p, c) = q
    BY <1>1, <2>1 DEF Embedded
  <2> QED BY <1>1, <2>2, <2>3, FirstSound
<1>2. CASE c \notin {"{", "["}
  <2>1. PICK q : q = [p EXCEPT !.outcome = "parsing", !.scalar = TRUE]
    OBVIOUS
  <2>2. Fresh(q) /\ q.outcome = "parsing"
    BY <2>1 DEF Fresh, IsContext, Fields
  <2>3. Embedded(p, c) = Lex(q, "[")
    BY <1>2, <2>1 DEF Embedded
  <2>4. Sound(Lex(q, "["))
    BY <2>2, FirstSound
  <2> QED BY <2>3, <2>4, LexSound
<1> QED BY <1>1, <1>2

-----------------------------------------------------------------------------
(* What single tokens do, in a context without an error.                   *)

\* The escapes that a value leaves behind in its slot.
Unescaped == [k \in 1..(Levels - 1) |-> FALSE]

Ctx(stack, expecting, tok_last, can_insert, nodes, chars, escapes, scalar) ==
    [stack |-> stack, expecting |-> expecting, tok_last |-> tok_last, can_insert |-> can_insert,
     err |-> "none", nodes |-> nodes, chars |-> chars, escapes |-> escapes, scalar |-> scalar,
     outcome |-> "parsing", node |-> NullNode]

Topmost(s) == s[Len(s)]
Outer(s) == s \in Seq(Slots) /\ s # <<>> /\ Topmost(s).type \in {"none", "object", "list"}
Inner(s) == s \in Seq(Slots) /\ s # <<>> /\ Topmost(s).type \in {"string", "hkey"}

\* The fields of a context.
LEMMA CtxIs ==
    ASSUME NEW s, NEW ex, NEW tl, NEW ci, NEW ns, NEW ch, NEW es, NEW sc
    PROVE  LET p == Ctx(s, ex, tl, ci, ns, ch, es, sc)
           IN  /\ p.stack = s /\ p.expecting = ex /\ p.tok_last = tl /\ p.can_insert = ci
               /\ p.err = "none" /\ p.nodes = ns /\ p.chars = ch /\ p.escapes = es /\ p.scalar = sc
               /\ p.outcome = "parsing" /\ p.node = NullNode
BY DEF Ctx

\* A context in which nothing has gone wrong.
Live(p) == p = Ctx(p.stack, p.expecting, p.tok_last, p.can_insert, p.nodes, p.chars, p.escapes, p.scalar)

\* A context put together from its fields is one.
LEMMA CtxLives ==
    ASSUME NEW s, NEW ex, NEW tl, NEW ci, NEW ns, NEW ch, NEW es, NEW sc
    PROVE  Live(Ctx(s, ex, tl, ci, ns, ch, es, sc))
BY DEF Ctx, Live

\* Changing one of its fields.
LEMMA FieldSet ==
    ASSUME NEW p, Live(p), NEW x
    PROVE  LET s == p.stack  ex == p.expecting  tl == p.tok_last  ci == p.can_insert
               ns == p.nodes  ch == p.chars  es == p.escapes  sc == p.scalar
           IN  /\ [p EXCEPT !.stack = x] = Ctx(x, ex, tl, ci, ns, ch, es, sc)
               /\ [p EXCEPT !.expecting = x] = Ctx(s, x, tl, ci, ns, ch, es, sc)
               /\ [p EXCEPT !.tok_last = x] = Ctx(s, ex, x, ci, ns, ch, es, sc)
               /\ [p EXCEPT !.can_insert = x] = Ctx(s, ex, tl, x, ns, ch, es, sc)
               /\ [p EXCEPT !.nodes = x] = Ctx(s, ex, tl, ci, x, ch, es, sc)
               /\ [p EXCEPT !.chars = x] = Ctx(s, ex, tl, ci, ns, x, es, sc)
               /\ [p EXCEPT !.escapes = x] = Ctx(s, ex, tl, ci, ns, ch, x, sc)
<1>1. PICK s, ex, tl, ci, ns, ch, es, sc :
        /\ s = p.stack /\ ex = p.expecting /\ tl = p.tok_last /\ ci = p.can_insert
        /\ ns = p.nodes /\ ch = p.chars /\ es = p.escapes /\ sc = p.scalar
  OBVIOUS
<1>2. p = Ctx(s, ex, tl, ci, ns, ch, es, sc)
  BY <1>1 DEF Live
<1>3. [p EXCEPT !.stack = x] = Ctx(x, ex, tl, ci, ns, ch, es, sc)
  BY <1>2 DEF Ctx
<1>4. [p EXCEPT !.expecting = x] = Ctx(s, x, tl, ci, ns, ch, es, sc)
  BY <1>2 DEF Ctx
<1>5. [p EXCEPT !.tok_last = x] = Ctx(s, ex, x, ci, ns, ch, es, sc)
  BY <1>2 DEF Ctx
<1>6. [p EXCEPT !.can_insert = x] = Ctx(s, ex, tl, x, ns, ch, es, sc)
  BY <1>2 DEF Ctx
<1>7. [p EXCEPT !.nodes = x] = Ctx(s, ex, tl, ci, x, ch, es, sc)
  BY <1>2 DEF Ctx
<1>8. [p EXCEPT !.chars = x] = Ctx(s, ex, tl, ci, ns, x, es, sc)
  BY <1>2 DEF Ctx
<1>9. [p EXCEPT !.escapes = x] = Ctx(s, ex, tl, ci, ns, ch, x, sc)
  BY <1>2 DEF Ctx
<1> QED BY <1>1, <1>3, <1>4, <1>5, <1>6, <1>7, <1>8, <1>9

\* Changing several of them: the token before and what is expected,
LEMMA Marked ==
    ASSUME NEW p, Live(p), NEW x, NEW y
    PROVE  [p EXCEPT !.tok_last = x, !.expecting = y]
             = Ctx(p.stack, y, x, p.can_insert, p.nodes, p.chars, p.escapes, p.scalar)
<1>1. PICK s, ex, tl, ci, ns, ch, es, sc :
        /\ s = p.stack /\ ex = p.expecting /\ tl = p.tok_last /\ ci = p.can_insert
        /\ ns = p.nodes /\ ch = p.chars /\ es = p.escapes /\ sc = p.scalar
  OBVIOUS
<1>2. p = Ctx(s, ex, tl, ci, ns, ch, es, sc)
  BY <1>1 DEF Live
<1>3. PICK a : a = [p EXCEPT !.tok_last = x]
  OBVIOUS
<1>4. a = Ctx(s, ex, x, ci, ns, ch, es, sc)
  BY <1>2, <1>3 DEF Ctx
<1>5. PICK b : b = [a EXCEPT !.expecting = y]
  OBVIOUS
<1>6. b = Ctx(s, y, x, ci, ns, ch, es, sc)
  BY <1>4, <1>5 DEF Ctx
<1>7. [p EXCEPT !.tok_last = x, !.expecting = y]
        = [[p EXCEPT !.tok_last = x] EXCEPT !.expecting = y]
  OBVIOUS
<1> QED BY <1>1, <1>3, <1>5, <1>6, <1>7

\* whether a value may come, and the token before,
LEMMA Barred ==
    ASSUME NEW p, Live(p), NEW x, NEW y
    PROVE  [p EXCEPT !.can_insert = x, !.tok_last = y]
             = Ctx(p.stack, p.expecting, y, x, p.nodes, p.chars, p.escapes, p.scalar)
<1>1. PICK s, ex, tl, ci, ns, ch, es, sc :
        /\ s = p.stack /\ ex = p.expecting /\ tl = p.tok_last /\ ci = p.can_insert
        /\ ns = p.nodes /\ ch = p.chars /\ es = p.escapes /\ sc = p.scalar
  OBVIOUS
<1>2. p = Ctx(s, ex, tl, ci, ns, ch, es, sc)
  BY <1>1 DEF Live
<1>3. PICK a : a = [p EXCEPT !.can_insert = x]
  OBVIOUS
<1>4. a = Ctx(s, ex, tl, x, ns, ch, es, sc)
  BY <1>2, <1>3 DEF Ctx
<1>5. PICK b : b = [a EXCEPT !.tok_last = y]
  OBVIOUS
<1>6. b = Ctx(s, ex, y, x, ns, ch, es, sc)
  BY <1>4, <1>5 DEF Ctx
<1>7. [p EXCEPT !.can_insert = x, !.tok_last = y]
        = [[p EXCEPT !.can_insert = x] EXCEPT !.tok_last = y]
  OBVIOUS
<1> QED BY <1>1, <1>3, <1>5, <1>6, <1>7

SetEnd(p, x, y, z) ==
    [p EXCEPT !.can_insert = x, !.tok_last = y, !.expecting = z]

\* what the end of a value changes,
LEMMA Ended ==
    ASSUME NEW p, Live(p), NEW x, NEW y, NEW z
    PROVE  SetEnd(p, x, y, z)
             = Ctx(p.stack, z, y, x, p.nodes, p.chars, p.escapes, p.scalar)
<1>1. PICK s, ex, tl, ci, ns, ch, es, sc :
        /\ s = p.stack /\ ex = p.expecting /\ tl = p.tok_last /\ ci = p.can_insert
        /\ ns = p.nodes /\ ch = p.chars /\ es = p.escapes /\ sc = p.scalar
  OBVIOUS
<1>2. p = Ctx(s, ex, tl, ci, ns, ch, es, sc)
  BY <1>1 DEF Live
<1>3. PICK a : a = [p EXCEPT !.can_insert = x]
  OBVIOUS
<1>4. a = Ctx(s, ex, tl, x, ns, ch, es, sc)
  BY <1>2, <1>3 DEF Ctx
<1>5. PICK b : b = [a EXCEPT !.tok_last = y]
  OBVIOUS
<1>6. b = Ctx(s, ex, y, x, ns, ch, es, sc)
  BY <1>4, <1>5 DEF Ctx
<1>7. PICK c : c = [b EXCEPT !.expecting = z]
  OBVIOUS
<1>8. c = Ctx(s, z, y, x, ns, ch, es, sc)
  BY <1>6, <1>7 DEF Ctx
<1>9. [p EXCEPT !.can_insert = x, !.tok_last = y, !.expecting = z]
        = [[[p EXCEPT !.can_insert = x] EXCEPT !.tok_last = y] EXCEPT !.expecting = z]
  OBVIOUS
<1> QED BY <1>1, <1>3, <1>5, <1>7, <1>8, <1>9 DEF SetEnd

SetColon(p, x, y, z) ==
    [p EXCEPT !.tok_last = x, !.can_insert = y, !.expecting = z]

\* what a colon changes,
LEMMA Coloned ==
    ASSUME NEW p, Live(p), NEW x, NEW y, NEW z
    PROVE  SetColon(p, x, y, z)
             = Ctx(p.stack, z, x, y, p.nodes, p.chars, p.escapes, p.scalar)
<1>1. PICK s, ex, tl, ci, ns, ch, es, sc :
        /\ s = p.stack /\ ex = p.expecting /\ tl = p.tok_last /\ ci = p.can_insert
        /\ ns = p.nodes /\ ch = p.chars /\ es = p.escapes /\ sc = p.scalar
  OBVIOUS
<1>2. p = Ctx(s, ex, tl, ci, ns, ch, es, sc)
  BY <1>1 DEF Live
<1>3. PICK a : a = [p EXCEPT !.tok_last = x]
  OBVIOUS
<1>4. a = Ctx(s, ex, x, ci, ns, ch, es, sc)
  BY <1>2, <1>3 DEF Ctx
<1>5. PICK b : b = [a EXCEPT !.can_insert = y]
  OBVIOUS
<1>6. b = Ctx(s, ex, x, y, ns, ch, es, sc)
  BY <1>4, <1>5 DEF Ctx
<1>7. PICK c : c = [b EXCEPT !.expecting = z]
  OBVIOUS
<1>8. c = Ctx(s, z, x, y, ns, ch, es, sc)
  BY <1>6, <1>7 DEF Ctx
<1>9. [p EXCEPT !.tok_last = x, !.can_insert = y, !.expecting = z]
        = [[[p EXCEPT !.tok_last = x] EXCEPT !.can_insert = y] EXCEPT !.expecting = z]
  OBVIOUS
<1> QED BY <1>1, <1>3, <1>5, <1>7, <1>8, <1>9 DEF SetColon

SetComma(p, x, y, z) ==
    [p EXCEPT !.tok_last = x, !.expecting = y, !.can_insert = z]

\* what a comma changes,
LEMMA Separated ==
    ASSUME NEW p, Live(p), NEW x, NEW y, NEW z
    PROVE  SetComma(p, x, y, z)
             = Ctx(p.stack, y, x, z, p.nodes, p.chars, p.escapes, p.scalar)
<1>1. PICK s, ex, tl, ci, ns, ch, es, sc :
        /\ s = p.stack /\ ex = p.expecting /\ tl = p.tok_last /\ ci = p.can_insert
        /\ ns = p.nodes /\ ch = p.chars /\ es = p.escapes /\ sc = p.scalar
  OBVIOUS
<1>2. p = Ctx(s, ex, tl, ci, ns, ch, es, sc)
  BY <1>1 DEF Live
<1>3. PICK a : a = [p EXCEPT !.tok_last = x]
  OBVIOUS
<1>4. a = Ctx(s, ex, x, ci, ns, ch, es, sc)
  BY <1>2, <1>3 DEF Ctx
<1>5. PICK b : b = [a EXCEPT !.expecting = y]
  OBVIOUS
<1>6. b = Ctx(s, y, x, ci, ns, ch, es, sc)
  BY <1>4, <1>5 DEF Ctx
<1>7. PICK c : c = [b EXCEPT !.can_insert = z]
  OBVIOUS
<1>8. c = Ctx(s, y, x, z, ns, ch, es, sc)
  BY <1>6, <1>7 DEF Ctx
<1>9. [p EXCEPT !.tok_last = x, !.expecting = y, !.can_insert = z]
        = [[[p EXCEPT !.tok_last = x] EXCEPT !.expecting = y] EXCEPT !.can_insert = z]
  OBVIOUS
<1> QED BY <1>1, <1>3, <1>5, <1>7, <1>8, <1>9 DEF SetComma

SetClosed(p, x, y, z, w) ==
    [p EXCEPT !.can_insert = x, !.expecting = y, !.tok_last = z, !.stack = w]

\* what a closing bracket changes,
LEMMA Closed ==
    ASSUME NEW p, Live(p), NEW x, NEW y, NEW z, NEW w
    PROVE  SetClosed(p, x, y, z, w)
             = Ctx(w, y, z, x, p.nodes, p.chars, p.escapes, p.scalar)
<1>1. PICK s, ex, tl, ci, ns, ch, es, sc :
        /\ s = p.stack /\ ex = p.expecting /\ tl = p.tok_last /\ ci = p.can_insert
        /\ ns = p.nodes /\ ch = p.chars /\ es = p.escapes /\ sc = p.scalar
  OBVIOUS
<1>2. p = Ctx(s, ex, tl, ci, ns, ch, es, sc)
  BY <1>1 DEF Live
<1>3. PICK a : a = [p EXCEPT !.can_insert = x]
  OBVIOUS
<1>4. a = Ctx(s, ex, tl, x, ns, ch, es, sc)
  BY <1>2, <1>3 DEF Ctx
<1>5. PICK b : b = [a EXCEPT !.expecting = y]
  OBVIOUS
<1>6. b = Ctx(s, y, tl, x, ns, ch, es, sc)
  BY <1>4, <1>5 DEF Ctx
<1>7. PICK c : c = [b EXCEPT !.tok_last = z]
  OBVIOUS
<1>8. c = Ctx(s, y, z, x, ns, ch, es, sc)
  BY <1>6, <1>7 DEF Ctx
<1>9. PICK d : d = [c EXCEPT !.stack = w]
  OBVIOUS
<1>10. d = Ctx(w, y, z, x, ns, ch, es, sc)
  BY <1>8, <1>9 DEF Ctx
<1>11. [p EXCEPT !.can_insert = x, !.expecting = y, !.tok_last = z, !.stack = w]
        = [[[[p EXCEPT !.can_insert = x] EXCEPT !.expecting = y] EXCEPT !.tok_last = z] EXCEPT !.stack = w]
  OBVIOUS
<1> QED BY <1>1, <1>3, <1>5, <1>7, <1>9, <1>10, <1>11 DEF SetClosed

SetTidy(p, x, y, z) ==
    [p EXCEPT !.stack = x, !.escapes = y, !.chars = z]

\* what is tidied with a slot,
LEMMA Tidied ==
    ASSUME NEW p, Live(p), NEW x, NEW y, NEW z
    PROVE  SetTidy(p, x, y, z)
             = Ctx(x, p.expecting, p.tok_last, p.can_insert, p.nodes, z, y, p.scalar)
<1>1. PICK s, ex, tl, ci, ns, ch, es, sc :
        /\ s = p.stack /\ ex = p.expecting /\ tl = p.tok_last /\ ci = p.can_insert
        /\ ns = p.nodes /\ ch = p.chars /\ es = p.escapes /\ sc = p.scalar
  OBVIOUS
<1>2. p = Ctx(s, ex, tl, ci, ns, ch, es, sc)
  BY <1>1 DEF Live
<1>3. PICK a : a = [p EXCEPT !.stack = x]
  OBVIOUS
<1>4. a = Ctx(x, ex, tl, ci, ns, ch, es, sc)
  BY <1>2, <1>3 DEF Ctx
<1>5. PICK b : b = [a EXCEPT !.escapes = y]
  OBVIOUS
<1>6. b = Ctx(x, ex, tl, ci, ns, ch, y, sc)
  BY <1>4, <1>5 DEF Ctx
<1>7. PICK c : c = [b EXCEPT !.chars = z]
  OBVIOUS
<1>8. c = Ctx(x, ex, tl, ci, ns, z, y, sc)
  BY <1>6, <1>7 DEF Ctx
<1>9. [p EXCEPT !.stack = x, !.escapes = y, !.chars = z]
        = [[[p EXCEPT !.stack = x] EXCEPT !.escapes = y] EXCEPT !.chars = z]
  OBVIOUS
<1> QED BY <1>1, <1>3, <1>5, <1>7, <1>8, <1>9 DEF SetTidy

SetLetter(p, x, y) ==
    [p EXCEPT !.escapes = x, !.chars = y]

\* and what a character changes.
LEMMA Lettered ==
    ASSUME NEW p, Live(p), NEW x, NEW y
    PROVE  SetLetter(p, x, y)
             = Ctx(p.stack, p.expecting, p.tok_last, p.can_insert, p.nodes, y, x, p.scalar)
<1>1. PICK s, ex, tl, ci, ns, ch, es, sc :
        /\ s = p.stack /\ ex = p.expecting /\ tl = p.tok_last /\ ci = p.can_insert
        /\ ns = p.nodes /\ ch = p.chars /\ es = p.escapes /\ sc = p.scalar
  OBVIOUS
<1>2. p = Ctx(s, ex, tl, ci, ns, ch, es, sc)
  BY <1>1 DEF Live
<1>3. PICK a : a = [p EXCEPT !.escapes = x]
  OBVIOUS
<1>4. a = Ctx(s, ex, tl, ci, ns, ch, x, sc)
  BY <1>2, <1>3 DEF Ctx
<1>5. PICK b : b = [a EXCEPT !.chars = y]
  OBVIOUS
<1>6. b = Ctx(s, ex, tl, ci, ns, y, x, sc)
  BY <1>4, <1>5 DEF Ctx
<1>7. [p EXCEPT !.escapes = x, !.chars = y]
        = [[p EXCEPT !.escapes = x] EXCEPT !.chars = y]
  OBVIOUS
<1> QED BY <1>1, <1>3, <1>5, <1>6, <1>7 DEF SetLetter

\* The nodes once a value is set in the one on top.
With(ns, m) ==
    LET k == Len(ns)
    IN  IF ns = <<>> THEN <<m>>
        ELSE IF ns[k].type = "array" THEN Append(SubSeq(ns, 1, k - 1), Node_ArrayAppend(ns[k], m))
        ELSE Append(SubSeq(ns, 1, k - 2), Node_DictSetKeyVal(ns[k - 1], [ns[k] EXCEPT !.entries = <<m>>]))

\* The one on top waits for a value.
Takes(ns) ==
    /\ ns \in Seq(Range(ns))
    /\ ns # <<>> => \/ ns[Len(ns)].type = "array"
                    \/ Len(ns) > 1 /\ ns[Len(ns)].type = "keyval"

\* One node on the others.
LEMMA AppendIs ==
    ASSUME NEW ns, ns \in Seq(Range(ns)), NEW m, NEW xs, xs = Append(ns, m)
    PROVE  /\ xs \in Seq(Range(xs)) /\ xs # <<>> /\ Len(xs) = Len(ns) + 1 /\ xs[Len(xs)] = m
           /\ \A i \in 1..Len(ns) : xs[i] = ns[i]
           /\ \A k \in Nat : k <= Len(ns) => SubSeq(xs, 1, k) = SubSeq(ns, 1, k)
           /\ SubSeq(xs, 1, Len(ns)) = ns /\ Len(ns) \in Nat
<1>1. PICK U : U = Range(ns) \cup {m}
  OBVIOUS
<1>2. ns \in Seq(U) /\ m \in U
  BY <1>1
<1>3. PICK n \in Nat : n = Len(ns)
  OBVIOUS
<1>4. xs \in Seq(U) /\ Len(xs) = n + 1 /\ xs[n + 1] = m /\ \A i \in 1..n : xs[i] = ns[i]
  BY <1>2, <1>3
<1>5. xs # <<>> /\ DOMAIN xs = 1..(n + 1)
  BY <1>4
<1>6. xs \in Seq(Range(xs))
  BY <1>4, <1>5, OfItsOwn
<1>7. ASSUME NEW k \in Nat, k <= n PROVE SubSeq(xs, 1, k) = SubSeq(ns, 1, k)
  BY <1>2, <1>3, <1>4, <1>7
<1>8. SubSeq(xs, 1, n) = ns
  BY <1>2, <1>3, <1>4
<1> QED BY <1>3, <1>4, <1>5, <1>6, <1>7, <1>8

\* popCallback sets the value that was pushed.
LEMMA AttachedIs ==
    ASSUME NEW p, Live(p), NEW ns, Takes(ns), NEW m, p.nodes = Append(ns, m)
    PROVE  Attached(p) = [p EXCEPT !.nodes = With(ns, m)]
<1>0. ns \in Seq(Range(ns))
  BY DEF Takes
<1>1. PICK xs : xs = Append(ns, m)
  OBVIOUS
<1>3. /\ xs # <<>> /\ Len(xs) = Len(ns) + 1 /\ xs[Len(xs)] = m
      /\ \A i \in 1..Len(ns) : xs[i] = ns[i]
      /\ \A k \in Nat : k <= Len(ns) => SubSeq(xs, 1, k) = SubSeq(ns, 1, k)
      /\ Len(ns) \in Nat
  BY ONLY <1>0, <1>1, AppendIs
<1>4. PICK k \in Nat : k = Len(ns)
  BY <1>3
<1>5. p.nodes = xs /\ Len(p.nodes) = k + 1
  BY <1>1, <1>3, <1>4
<1>6. [p EXCEPT !.nodes = xs] = p
  BY <1>5 DEF Live, Ctx
<1>7. CASE ns = <<>>
  <2>1. k = 0
    BY <1>4, <1>7
  <2>2. Attached(p) = p
    BY <1>5, <2>1 DEF Attached
  <2>3. xs = <<m>> /\ With(ns, m) = <<m>>
    BY <1>1, <1>7 DEF With
  <2> QED BY <1>1, <1>6, <2>2, <2>3
<1>8. CASE ns # <<>> /\ ns[k].type = "array"
  <2>1. k > 0 /\ (k + 1) - 1 = k /\ (k + 1) - 2 = k - 1 /\ k \in 1..k /\ k - 1 \in Nat /\ k - 1 <= k
    BY <1>4, <1>8, EmptySeq DEF Takes
  <2>2. xs[k] = ns[k] /\ xs[k + 1] = m /\ SubSeq(xs, 1, k - 1) = SubSeq(ns, 1, k - 1)
    BY <1>3, <1>4, <2>1
  <2>3. Attached(p) = SetInParent(p)
    BY <1>5, <2>1 DEF Attached
  <2>4. PICK ms : ms = Append(SubSeq(ns, 1, k - 1), Node_ArrayAppend(ns[k], m))
    OBVIOUS
  <2>5. SetInParent(p) = [p EXCEPT !.nodes = ms]
    <3>1. p.nodes[k + 1] = m /\ p.nodes[k] = ns[k] /\ SubSeq(p.nodes, 1, k - 1) = SubSeq(ns, 1, k - 1)
      BY <1>5, <2>2
    <3>2. SetInParent(p) = [p EXCEPT !.nodes = Append(SubSeq(@, 1, k - 1), Node_ArrayAppend(ns[k], m))]
      BY <1>5, <1>8, <2>1, <3>1 DEF SetInParent
    <3> QED BY <2>4, <3>1, <3>2
  <2>6. With(ns, m) = ms
    BY <1>4, <1>8, <2>4 DEF With
  <2> QED BY <2>3, <2>5, <2>6
<1>9. CASE ns # <<>> /\ ns[k].type # "array"
  <2>1. /\ k > 1 /\ ns[k].type = "keyval" /\ (k + 1) - 1 = k /\ (k + 1) - 2 = k - 1 /\ (k + 1) - 3 = k - 2
        /\ k \in 1..k /\ k - 1 \in 1..k /\ k - 2 \in Nat /\ k - 2 <= k
    BY <1>4, <1>9 DEF Takes
  <2>2. xs[k] = ns[k] /\ xs[k - 1] = ns[k - 1] /\ xs[k + 1] = m /\ SubSeq(xs, 1, k - 2) = SubSeq(ns, 1, k - 2)
    BY <1>3, <1>4, <2>1
  <2>3. Attached(p) = SetInParent(p)
    BY <1>5, <2>1 DEF Attached
  <2>4. PICK kv : kv = [ns[k] EXCEPT !.entries = <<m>>]
    OBVIOUS
  <2>5. PICK ms : ms = Append(SubSeq(ns, 1, k - 2), Node_DictSetKeyVal(ns[k - 1], kv))
    OBVIOUS
  <2>6. SetInParent(p) = [p EXCEPT !.nodes = ms]
    <3>1. /\ p.nodes[k + 1] = m /\ p.nodes[k] = ns[k] /\ p.nodes[k - 1] = ns[k - 1]
          /\ SubSeq(p.nodes, 1, k - 2) = SubSeq(ns, 1, k - 2)
      BY <1>5, <2>2
    <3>2. SetInParent(p) = [p EXCEPT !.nodes = Append(SubSeq(@, 1, k - 2), Node_DictSetKeyVal(ns[k - 1], kv))]
      BY <1>5, <2>1, <2>4, <3>1 DEF SetInParent
    <3> QED BY <2>5, <3>1, <3>2
  <2>7. With(ns, m) = ms
    BY <1>4, <1>9, <2>4, <2>5 DEF With
  <2> QED BY <2>3, <2>6, <2>7
<1> QED BY <1>7, <1>8, <1>9

\* The structural tokens are no numbers, no literal names and no whitespace.
LEMMA MarksAre ==
    \A c \in {"{", "}", "[", "]", ",", ":", "\""} : c \notin Whitespace /\ c \notin DOMAIN Literals \cup OutOfRange
<1>1. PICK M : M = {"{", "}", "[", "]", ",", ":", "\""}
  OBVIOUS
<1>2. (DOMAIN Literals \cup OutOfRange) \cap (Whitespace \cup M) = {}
  BY <1>1, ParserAssumption
<1>3. ASSUME NEW c \in M PROVE c \notin Whitespace
  BY <1>1, <1>3, Zenon DEF Whitespace
<1> QED BY <1>1, <1>2, <1>3

\* Each of them has its own handler.
LEMMA HandlersAre ==
    ASSUME NEW p
    PROVE  /\ Structural(p, ":") = Colon(p) /\ Structural(p, ",") = Comma(p)
           /\ Structural(p, "{") = Open(p, "object") /\ Structural(p, "[") = Open(p, "list")
           /\ Structural(p, "}") = Close(p, "object") /\ Structural(p, "]") = Close(p, "list")
BY Zenon DEF Structural

\* Between values a structural token is handled, and whitespace skipped.
LEMMA LexOuter ==
    ASSUME NEW p, Live(p), Outer(p.stack)
    PROVE  /\ \A c \in {"{", "}", "[", "]", ",", ":"} : Lex(p, c) = Structural(p, c)
           /\ Lex(p, "\"") = Quote(p)
           /\ \A c \in Whitespace : Lex(p, c) = p
           /\ \A c \in DOMAIN Literals \cup OutOfRange : Lex(p, c) = BeginSpecial(p, c)
<1>1. p.err = "none" /\ State(p).type \in {"none", "object", "list"} /\ State(p).type \notin {"string", "hkey", "special"}
  <2>1. p.err = "none" /\ State(p) = Topmost(p.stack)
    BY DEF Live, Ctx, State, Last, Topmost
  <2> QED BY <2>1 DEF Outer
<1>2. ASSUME NEW c
      PROVE  Lex(p, c) = CASE c \in Whitespace -> p
                           [] c \in DOMAIN Literals \cup OutOfRange -> BeginSpecial(p, c)
                           [] c = "\"" -> Quote(p)
                           [] OTHER -> Structural(p, c)
  BY <1>1 DEF Lex
<1>3. ASSUME NEW c, c \in {"{", "}", "[", "]", ",", ":"}
      PROVE  c # "\"" /\ c \notin Whitespace /\ c \notin DOMAIN Literals \cup OutOfRange
  <2>1. c # "\""
    BY <1>3, Zenon
  <2> QED BY <1>3, <2>1, MarksAre, Zenon
<1>4. ASSUME NEW c, c \in {"{", "}", "[", "]", ",", ":"} PROVE Lex(p, c) = Structural(p, c)
  <2>1. c # "\"" /\ c \notin Whitespace /\ c \notin DOMAIN Literals \cup OutOfRange
    BY <1>3, <1>4
  <2> QED BY <1>2, <2>1
<1>5. Lex(p, "\"") = Quote(p)
  <2>1. "\"" \notin Whitespace /\ "\"" \notin DOMAIN Literals \cup OutOfRange
    BY MarksAre, Zenon
  <2> QED BY <1>2, <2>1, Zenon
<1>6. ASSUME NEW c \in DOMAIN Literals \cup OutOfRange PROVE c \notin Whitespace /\ c # "\""
  <2>1. (DOMAIN Literals \cup OutOfRange) \cap Whitespace = {}
    BY ParserAssumption
  <2> QED BY <1>6, <2>1, MarksAre, Zenon
<1>7. \A c \in Whitespace : Lex(p, c) = p
  <2>1. \A c \in Whitespace : c \notin DOMAIN Literals \cup OutOfRange /\ c # "\""
    BY <1>6, MarksAre, Zenon
  <2> QED BY <1>2, <2>1
<1>8. \A c \in DOMAIN Literals \cup OutOfRange : Lex(p, c) = BeginSpecial(p, c)
  BY <1>2, <1>6
<1> QED BY <1>4, <1>5, <1>7, <1>8, Zenon

\* The nodes when a container has begun.
Begun(ns, type) ==
    CASE type = "object" -> Append(ns, NewDictNode(<<>>, <<>>))
      [] type = "list" -> Append(ns, NewArrayNode(<<>>))
      [] OTHER -> ns

Room(s) == Levels \in Nat /\ s \in Seq(Slots) /\ s # <<>> /\ Len(s) < Levels

\* The array of nodes has a slot left.
Free(ns) == Len(ns) < Levels

\* A node pushed into one changes nothing else.
LEMMA PushNodeIs ==
    ASSUME NEW p, Live(p), Free(p.nodes), NEW n, NEW ns, ns = Append(p.nodes, n)
    PROVE  PushNode(p, n) = [p EXCEPT !.nodes = ns]
<1>1. PICK e : e = p.err
  OBVIOUS
<1>2. PushNode(p, n) = [p EXCEPT !.nodes = ns, !.err = e]
  BY <1>1 DEF PushNode, Free
<1>3. [p EXCEPT !.err = e] = p
  BY <1>1 DEF Live, Ctx
<1>4. [p EXCEPT !.nodes = ns, !.err = e] = [[p EXCEPT !.err = e] EXCEPT !.nodes = ns]
  BY DEF Live, Ctx
<1> QED BY <1>2, <1>3, <1>4

\* A slot is pushed once an element is counted.
LEMMA PushIs ==
    ASSUME NEW p, Live(p), NEW s, Room(s), p.stack = Bumped(s), NEW type,
           type \in {"object", "list"} => Free(p.nodes)
    PROVE  STACK_PUSH(p, type)
             = Ctx(Pushed(s, type), p.expecting, p.tok_last, p.can_insert, Begun(p.nodes, type),
                   p.chars, p.escapes, p.scalar)
<1>1. Len(Bumped(s)) = Len(s) /\ Len(s) \in Nat
  BY BumpedIs DEF Room
<1>2. ~(level(p) >= Levels - 1)
  BY <1>1 DEF Room, level
<1>3. PICK q : q = [p EXCEPT !.stack = Append(@, Slot(type))]
  OBVIOUS
<1>4. STACK_PUSH(p, type) = pushCallback(q, type)
  BY <1>2, <1>3 DEF STACK_PUSH
<1>5. q = Ctx(Pushed(s, type), p.expecting, p.tok_last, p.can_insert, p.nodes, p.chars, p.escapes, p.scalar)
  <2>1. PICK t : t = Pushed(s, type)
    OBVIOUS
  <2>2. q = [p EXCEPT !.stack = t]
    BY <1>3, <2>1 DEF Pushed
  <2> QED BY <2>1, <2>2, FieldSet
<1>6. Live(q) /\ q.stack = Pushed(s, type) /\ q.nodes = p.nodes
  BY <1>5, CtxLives, CtxIs
<1>7. ASSUME NEW n, Free(p.nodes)
      PROVE  PushNode(q, n) = Ctx(Pushed(s, type), p.expecting, p.tok_last, p.can_insert, Append(p.nodes, n),
                                  p.chars, p.escapes, p.scalar)
  <2>1. PICK ns : ns = Append(p.nodes, n)
    OBVIOUS
  <2>2. PushNode(q, n) = [q EXCEPT !.nodes = ns]
    BY <1>6, <1>7, <2>1, PushNodeIs
  <2>3. /\ q.expecting = p.expecting /\ q.tok_last = p.tok_last /\ q.can_insert = p.can_insert
        /\ q.chars = p.chars /\ q.escapes = p.escapes /\ q.scalar = p.scalar
    BY <1>5, CtxIs
  <2> QED BY <1>5, <2>1, <2>2 DEF Ctx
<1>8. CASE type = "object"
  BY <1>4, <1>7, <1>8 DEF pushCallback, Begun
<1>9. CASE type = "list"
  BY <1>4, <1>7, <1>9 DEF pushCallback, Begun
<1>10. CASE type \notin {"object", "list"}
  BY <1>4, <1>5, <1>10 DEF pushCallback, Begun
<1> QED BY <1>8, <1>9, <1>10

\* Where the lexer takes a value.
ValueDue(s) == Outer(s) /\ (Topmost(s).type = "object" => Topmost(s).nelem % 2 = 1)

\* A context and its fields.
Has(p, stack, expecting, tok_last, can_insert, nodes, chars, escapes, scalar) ==
    /\ Live(p) /\ p.stack = stack /\ p.expecting = expecting /\ p.tok_last = tok_last
    /\ p.can_insert = can_insert /\ p.nodes = nodes /\ p.chars = chars
    /\ p.escapes = escapes /\ p.scalar = scalar

\* The fields are all that there is of a context.
LEMMA HasAll ==
    ASSUME NEW p, NEW s, NEW ex, NEW tl, NEW ci, NEW ns, NEW ch, NEW es, NEW sc
    PROVE  Has(p, s, ex, tl, ci, ns, ch, es, sc) <=> p = Ctx(s, ex, tl, ci, ns, ch, es, sc)
<1>1. p = Ctx(s, ex, tl, ci, ns, ch, es, sc) => Has(p, s, ex, tl, ci, ns, ch, es, sc)
  BY CtxLives, CtxIs DEF Has
<1>2. Has(p, s, ex, tl, ci, ns, ch, es, sc) => p = Ctx(s, ex, tl, ci, ns, ch, es, sc)
  BY DEF Has, Live
<1> QED BY <1>1, <1>2

\* An element is counted.
LEMMA CountedCtx ==
    ASSUME NEW p, Live(p)
    PROVE  /\ Has(Counted(p), Bumped(p.stack), p.expecting, p.tok_last, p.can_insert, p.nodes,
                  p.chars, p.escapes, p.scalar)
           /\ State(p) = Topmost(p.stack) /\ p.err = "none"
<1>1. PICK s : s = p.stack
  OBVIOUS
<1>2. PICK b : b = Bumped(s)
  OBVIOUS
<1>3. Counted(p) = [p EXCEPT !.stack = b]
  BY <1>1, <1>2 DEF Counted, Bumped, Live, Ctx
<1>4. p.err = "none"
  BY DEF Live, Ctx
<1>5. Counted(p) = Ctx(b, p.expecting, p.tok_last, p.can_insert, p.nodes, p.chars, p.escapes, p.scalar)
  BY <1>3, FieldSet
<1>6. Has(Counted(p), b, p.expecting, p.tok_last, p.can_insert, p.nodes, p.chars, p.escapes, p.scalar)
  BY <1>5, HasAll
<1> QED BY <1>1, <1>2, <1>4, <1>6 DEF State, Last, Topmost

\* An opening bracket begins a container.
LEMMA OpenIs ==
    ASSUME NEW p, Live(p), ValueDue(p.stack), Room(p.stack), p.can_insert = TRUE, Free(p.nodes)
    PROVE  /\ Lex(p, "[") = Ctx(Pushed(p.stack, "list"), p.expecting, "", TRUE, Append(p.nodes, NewArrayNode(<<>>)),
                                p.chars, p.escapes, p.scalar)
           /\ Lex(p, "{") = Ctx(Pushed(p.stack, "object"), "\"", "", TRUE,
                                Append(p.nodes, NewDictNode(<<>>, <<>>)), p.chars, p.escapes, p.scalar)
<1>1. PICK s, ns, ch, es, sc, ex :
        s = p.stack /\ ns = p.nodes /\ ch = p.chars /\ es = p.escapes /\ sc = p.scalar /\ ex = p.expecting
  OBVIOUS
<1>2. PICK quote : quote = "\""
  OBVIOUS
<1>3. PICK c : c = Counted(p)
  OBVIOUS
<1>4. Has(c, Bumped(s), ex, p.tok_last, p.can_insert, ns, ch, es, sc) /\ State(p) = Topmost(s)
  BY <1>1, <1>3, CountedCtx
<1>5. ~KeyExpected(p)
  <2>1. 1 # 0
    OBVIOUS
  <2> QED BY <1>1, <1>4, <2>1 DEF KeyExpected, ValueDue
<1>6. ASSUME NEW e, NEW type
      PROVE  STACK_PUSH([c EXCEPT !.tok_last = "", !.expecting = e], type)
               = Ctx(Pushed(s, type), e, "", TRUE, Begun(ns, type), ch, es, sc)
  <2>1. PICK q : q = [c EXCEPT !.tok_last = "", !.expecting = e]
    OBVIOUS
  <2>2. q = Ctx(c.stack, e, "", c.can_insert, c.nodes, c.chars, c.escapes, c.scalar)
    <3>1. Live(c)
      BY <1>4 DEF Has
    <3> QED BY <2>1, <3>1, Marked
  <2>3. Has(q, Bumped(s), e, "", TRUE, ns, ch, es, sc) /\ Room(s)
    <3>1. q = Ctx(Bumped(s), e, "", TRUE, ns, ch, es, sc)
      BY <1>1, <1>4, <2>2 DEF Has
    <3> QED BY <1>1, <3>1, HasAll
  <2>4. STACK_PUSH(q, type) = Ctx(Pushed(s, type), q.expecting, q.tok_last, q.can_insert, Begun(q.nodes, type),
                                  q.chars, q.escapes, q.scalar)
    <3>1. Live(q) /\ Room(s) /\ q.stack = Bumped(s) /\ Free(q.nodes)
      BY <1>1, <2>3 DEF Has
    <3> QED BY <3>1, PushIs
  <2> QED BY <2>1, <2>3, <2>4 DEF Has
<1>7. PICK m : m = Append(ns, NewArrayNode(<<>>))
  OBVIOUS
<1>8. PICK d : d = Append(ns, NewDictNode(<<>>, <<>>))
  OBVIOUS
<1>9. Begun(ns, "list") = m /\ Begun(ns, "object") = d
  BY <1>7, <1>8 DEF Begun
<1>10. Open(p, "list") = Ctx(Pushed(s, "list"), ex, "", TRUE, m, ch, es, sc)
  <2>1. Open(p, "list") = STACK_PUSH([c EXCEPT !.tok_last = "", !.expecting = ex], "list")
    BY <1>3, <1>4, <1>5 DEF Open, Has
  <2> QED BY <1>6, <1>9, <2>1
<1>11. Open(p, "object") = Ctx(Pushed(s, "object"), quote, "", TRUE, d, ch, es, sc)
  <2>1. Open(p, "object") = STACK_PUSH([c EXCEPT !.tok_last = "", !.expecting = quote], "object")
    BY <1>2, <1>3, <1>5 DEF Open
  <2> QED BY <1>6, <1>9, <2>1
<1>12. Lex(p, "[") = Open(p, "list") /\ Lex(p, "{") = Open(p, "object")
  <2>1. Lex(p, "[") = Structural(p, "[") /\ Lex(p, "{") = Structural(p, "{")
    BY LexOuter, Zenon DEF ValueDue
  <2> QED BY <2>1, HandlersAre, Zenon
<1> QED BY <1>1, <1>2, <1>7, <1>8, <1>10, <1>11, <1>12, Zenon

\* What a quote changes before its slot is pushed.
LEMMA QuoteBegins ==
    ASSUME NEW p, Live(p), Room(p.stack), NEW e, NEW type, type \in {"string", "hkey"}
    PROVE  STACK_PUSH([[Counted(p) EXCEPT !.can_insert = FALSE, !.tok_last = ""] EXCEPT !.expecting = e], type)
             = Ctx(Pushed(p.stack, type), e, "", FALSE, p.nodes, p.chars, p.escapes, p.scalar)
<1>1. PICK s, ns, ch, es, sc : s = p.stack /\ ns = p.nodes /\ ch = p.chars /\ es = p.escapes /\ sc = p.scalar
  OBVIOUS
<1>2. PICK c : c = Counted(p)
  OBVIOUS
<1>3. Has(c, Bumped(s), p.expecting, p.tok_last, p.can_insert, ns, ch, es, sc)
  BY <1>1, <1>2, CountedCtx
<1>4. PICK d : d = [c EXCEPT !.can_insert = FALSE, !.tok_last = ""]
  OBVIOUS
<1>5. d = Ctx(Bumped(s), p.expecting, "", FALSE, ns, ch, es, sc)
  <2>1. Live(c)
    BY <1>3 DEF Has
  <2>2. d = Ctx(c.stack, c.expecting, "", FALSE, c.nodes, c.chars, c.escapes, c.scalar)
    BY <1>4, <2>1, Barred
  <2> QED BY <1>3, <2>2 DEF Has
<1>6. Has(d, Bumped(s), p.expecting, "", FALSE, ns, ch, es, sc)
  BY <1>5, HasAll
<1>7. PICK q : q = [d EXCEPT !.expecting = e]
  OBVIOUS
<1>8. q = Ctx(Bumped(s), e, "", FALSE, ns, ch, es, sc)
  <2>1. Live(d)
    BY <1>6 DEF Has
  <2>2. q = Ctx(d.stack, e, d.tok_last, d.can_insert, d.nodes, d.chars, d.escapes, d.scalar)
    BY <1>7, <2>1, FieldSet
  <2> QED BY <1>6, <2>2 DEF Has
<1>9. Has(q, Bumped(s), e, "", FALSE, ns, ch, es, sc) /\ Room(s) /\ Begun(ns, type) = ns
  BY <1>1, <1>8, HasAll DEF Begun
<1>10. STACK_PUSH(q, type) = Ctx(Pushed(s, type), e, "", FALSE, ns, ch, es, sc)
  <2>1. type \notin {"object", "list"}
    OBVIOUS
  <2> QED BY <1>9, <2>1, PushIs DEF Has
<1> QED BY <1>1, <1>2, <1>4, <1>7, <1>10

\* A quote begins a string,
LEMMA QuoteIs ==
    ASSUME NEW p, Live(p), ValueDue(p.stack), Room(p.stack), Topmost(p.stack).type # "none",
           Topmost(p.stack).type = "object" => p.tok_last = ":"
    PROVE  Lex(p, "\"") = Ctx(Pushed(p.stack, "string"), ",", "", FALSE, p.nodes, p.chars, p.escapes, p.scalar)
<1>1. State(p) = Topmost(p.stack)
  BY CountedCtx
<1>2. Lex(p, "\"") = Quote(p)
  BY LexOuter, Zenon DEF ValueDue
<1>3. PICK c : c = [Counted(p) EXCEPT !.can_insert = FALSE, !.tok_last = ""]
  OBVIOUS
<1>4. PICK q : q = STACK_PUSH([c EXCEPT !.expecting = ","], "string")
  OBVIOUS
<1>5. Quote(p) = q
  <2>1. Topmost(p.stack).type = "list" \/ (Topmost(p.stack).type = "object" /\ Topmost(p.stack).nelem % 2 = 1 /\ p.tok_last = ":")
    BY DEF Outer, ValueDue
  <2>2. CASE Topmost(p.stack).type = "list"
    BY <1>1, <1>3, <1>4, <2>2 DEF Quote
  <2>3. CASE Topmost(p.stack).type = "object" /\ Topmost(p.stack).nelem % 2 = 1 /\ p.tok_last = ":"
    <3>1. 1 # 0
      OBVIOUS
    <3> QED BY <1>1, <1>3, <1>4, <2>3, <3>1 DEF Quote
  <2> QED BY <2>1, <2>2, <2>3
<1> QED BY <1>2, <1>3, <1>4, <1>5, QuoteBegins

\* or a key.
LEMMA KeyQuoteIs ==
    ASSUME NEW p, Live(p), Outer(p.stack), Room(p.stack), p.expecting = "\"",
           Topmost(p.stack).type = "object", Topmost(p.stack).nelem % 2 = 0
    PROVE  Lex(p, "\"") = Ctx(Pushed(p.stack, "hkey"), ":", "", FALSE, p.nodes, p.chars, p.escapes, p.scalar)
<1>1. State(p) = Topmost(p.stack)
  BY CountedCtx
<1>2. Lex(p, "\"") = Quote(p)
  BY LexOuter, Zenon
<1>3. PICK c : c = [Counted(p) EXCEPT !.can_insert = FALSE, !.tok_last = ""]
  OBVIOUS
<1>4. PICK q : q = STACK_PUSH([c EXCEPT !.expecting = ":"], "hkey")
  OBVIOUS
<1>5. Quote(p) = q
  <2>1. PICK k : k = Topmost(p.stack).nelem % 2
    OBVIOUS
  <2>2. k = 0 /\ State(p).type = "object" /\ State(p).nelem % 2 = k
    BY <1>1, <2>1
  <2>3. 0 # 1
    BY ONLY <2>1
  <2> QED BY <1>3, <1>4, <2>2, <2>3 DEF Quote
<1> QED BY <1>2, <1>3, <1>4, <1>5, QuoteBegins


\* A colon follows a key.
LEMMA ColonIs ==
    ASSUME NEW p, Live(p), Outer(p.stack), p.expecting = ":"
    PROVE  Lex(p, ":") = Ctx(p.stack, "\"", ":", TRUE, p.nodes, p.chars, p.escapes, p.scalar)
<1>1. PICK quote : quote = "\""
  OBVIOUS
<1>2. PICK q : q = [p EXCEPT !.tok_last = ":", !.can_insert = TRUE, !.expecting = quote]
  OBVIOUS
<1>3. Colon(p) = q
  BY <1>1, <1>2 DEF Colon
<1>5. q = Ctx(p.stack, quote, ":", TRUE, p.nodes, p.chars, p.escapes, p.scalar)
  <2>1. q = SetColon(p, ":", TRUE, quote)
    BY <1>2 DEF SetColon
  <2> QED BY <2>1, Coloned
<1>4. Lex(p, ":") = Colon(p)
  BY LexOuter, HandlersAre, Zenon
<1> QED BY <1>1, <1>3, <1>4, <1>5, Zenon

\* A comma follows a value.
LEMMA CommaIs ==
    ASSUME NEW p, Live(p), Outer(p.stack), p.expecting = ","
    PROVE  Lex(p, ",") = Ctx(p.stack, "\"", ",", p.can_insert \/ Topmost(p.stack).type # "object",
                             p.nodes, p.chars, p.escapes, p.scalar)
<1>1. PICK quote : quote = "\""
  OBVIOUS
<1>2. PICK ci : ci = (p.can_insert \/ Topmost(p.stack).type # "object")
  OBVIOUS
<1>3. Comma(p) = [p EXCEPT !.tok_last = ",", !.expecting = quote, !.can_insert = ci]
  <2>1. State(p) = Topmost(p.stack)
    BY CountedCtx
  <2>2. Comma(p) = [p EXCEPT !.tok_last = ",", !.expecting = quote,
                             !.can_insert = p.can_insert \/ Topmost(p.stack).type # "object"]
    BY <1>1, <2>1 DEF Comma
  <2> QED BY <1>2, <2>2
<1>4. Comma(p) = Ctx(p.stack, quote, ",", ci, p.nodes, p.chars, p.escapes, p.scalar)
  <2>1. Comma(p) = SetComma(p, ",", quote, ci)
    BY <1>3 DEF SetComma
  <2> QED BY <2>1, Separated
<1>5. Lex(p, ",") = Comma(p)
  BY LexOuter, HandlersAre, Zenon
<1> QED BY <1>1, <1>2, <1>4, <1>5, Zenon

\* A closing bracket ends a container, which is set in the node below.
LEMMA CloseIs ==
    ASSUME NEW p, Live(p), Outer(p.stack), NEW type \in {"object", "list"}, Topmost(p.stack).type = type,
           type = "object" => Topmost(p.stack).nelem % 2 = 0, p.tok_last # ",",
           NEW ns, Takes(ns), NEW m, p.nodes = Append(ns, m)
    PROVE  Close(p, type) = Ctx(Front(p.stack), ",", "", FALSE, With(ns, m), p.chars, p.escapes, p.scalar)
<1>1. State(p) = Topmost(p.stack)
  BY CountedCtx
<1>2. PICK f : f = Front(p.stack)
  OBVIOUS
<1>3. PICK q : q = [p EXCEPT !.can_insert = FALSE, !.expecting = ",", !.tok_last = "", !.stack = f]
  OBVIOUS
<1>4. ~(type = "object" /\ State(p).nelem % 2 = 1)
  <2>1. 0 # 1
    BY ONLY <1>1
  <2> QED BY <1>1, <2>1
<1>5. Close(p, type) = Attached(q)
  BY <1>1, <1>2, <1>3, <1>4 DEF Close
<1>6. q = Ctx(f, ",", "", FALSE, p.nodes, p.chars, p.escapes, p.scalar)
  <2>1. q = SetClosed(p, FALSE, ",", "", f)
    BY <1>3 DEF SetClosed
  <2> QED BY <2>1, Closed
<1>7. Has(q, f, ",", "", FALSE, p.nodes, p.chars, p.escapes, p.scalar)
  BY <1>6, HasAll
<1>8. Attached(q) = [q EXCEPT !.nodes = With(ns, m)]
  <2>1. Live(q) /\ q.nodes = Append(ns, m)
    BY <1>7 DEF Has
  <2>2. Takes(ns)
    OBVIOUS
  <2> QED BY ONLY <2>1, <2>2, AttachedIs
<1>9. Attached(q) = Ctx(q.stack, q.expecting, q.tok_last, q.can_insert, With(ns, m), q.chars, q.escapes, q.scalar)
  <2>1. PICK ms : ms = With(ns, m)
    OBVIOUS
  <2>2. Live(q)
    BY <1>7 DEF Has
  <2>3. Attached(q) = [q EXCEPT !.nodes = ms]
    BY <1>8, <2>1
  <2> QED BY <2>1, <2>2, <2>3, FieldSet
<1> QED BY <1>2, <1>5, <1>7, <1>9 DEF Has

\* The brackets that close a container.
LEMMA ClosesAre ==
    ASSUME NEW p, Live(p), Outer(p.stack)
    PROVE  Lex(p, "]") = Close(p, "list") /\ Lex(p, "}") = Close(p, "object")
BY LexOuter, HandlersAre, Zenon


\* The tokens of escapes are not those that end or break a string, and are
\* unescaped to the characters they stand for.
LEMMA UnescapeIs ==
    /\ \A c \in DOMAIN twoCharEscape :
        /\ twoCharEscape[c] \in Range(twoCharEscape) /\ twoCharEscape[c] \notin {"\"", "\t", "\n", "\\?"}
        /\ Unescape(twoCharEscape[c]) = c
    /\ \A c : c \notin Range(twoCharEscape) => Unescape(c) = c
<1>0. "\\n" # "\\\""
  BY Zenon
<1>1. PICK n, q : n = "\\n" /\ q = "\\\"" /\ n # q
  BY <1>0, Zenon
<1>2. twoCharEscape = [newline |-> n, quote |-> q]
  BY <1>1 DEF twoCharEscape
<1>3. PICK a, b : a = "newline" /\ b = "quote" /\ a # b
  OBVIOUS
<1>4. DOMAIN twoCharEscape = {a, b} /\ twoCharEscape[a] = n /\ twoCharEscape[b] = q
  BY <1>2, <1>3
<1>5. n \notin {"\"", "\t", "\n", "\\?"} /\ q \notin {"\"", "\t", "\n", "\\?"}
  <2>1. \A x \in {"\"", "\t", "\n", "\\?"} : x # "\\n" /\ x # "\\\""
    BY Zenon
  <2> QED BY <1>1, <2>1, Zenon
<1>6. Unescape(n) = a /\ Unescape(q) = b
  BY <1>1, <1>3, <1>4 DEF Unescape
<1>7. Range(twoCharEscape) = {n, q}
  BY <1>4 DEF Range
<1>8. \A c : c \notin Range(twoCharEscape) => Unescape(c) = c
  BY <1>4, <1>7 DEF Unescape
<1>9. \A c \in DOMAIN twoCharEscape :
        /\ twoCharEscape[c] \in Range(twoCharEscape) /\ twoCharEscape[c] \notin {"\"", "\t", "\n", "\\?"}
        /\ Unescape(twoCharEscape[c]) = c
  BY <1>4, <1>5, <1>6, <1>7, Zenon
<1> QED BY <1>8, <1>9, Zenon


\* The tokens that end or break a string.
Breaks == {"\"", "\t", "\n", "\\?"}

\* Within a string every token is a character, the end or an error.
LEMMA LexInner ==
    ASSUME NEW p, Live(p), Inner(p.stack), NEW c
    PROVE  Lex(p, c) = InString(p, c)
<1>1. State(p) = Topmost(p.stack) /\ p.err = "none"
  BY CountedCtx
<1>2. State(p).type \in {"string", "hkey"}
  BY <1>1 DEF Inner
<1> QED BY <1>1, <1>2 DEF Lex

\* A character is added, and counted if it is an escape.
LEMMA CharIs ==
    ASSUME NEW p, Live(p), Inner(p.stack), NEW c, c \notin Range(twoCharEscape) \cup Breaks
    PROVE  Lex(p, Escape(c)) =
             Ctx(p.stack, p.expecting, p.tok_last, p.can_insert, p.nodes, Append(p.chars, Escape(c)),
                 IF c \in DOMAIN twoCharEscape THEN [p.escapes EXCEPT ![level(p)] = TRUE] ELSE p.escapes,
                 p.scalar)
<1>1. PICK k : k = level(p)
  OBVIOUS
<1>2. Lex(p, Escape(c)) = InString(p, Escape(c))
  BY LexInner
<1>3. CASE c \in DOMAIN twoCharEscape
  <2>1. PICK e : e = twoCharEscape[c]
    OBVIOUS
  <2>2. Escape(c) = e /\ e \in Range(twoCharEscape) /\ e \notin Breaks
    BY <1>3, <2>1, UnescapeIs, Zenon DEF Escape, Breaks
  <2>3. e # "\"" /\ e \notin {"\t", "\n"} /\ e # "\\?"
    BY <2>2, Zenon DEF Breaks
  <2>4. PICK es : es = [p.escapes EXCEPT ![k] = TRUE]
    OBVIOUS
  <2>5. PICK ch : ch = Append(p.chars, e)
    OBVIOUS
  <2>6. InString(p, e) = [p EXCEPT !.escapes[level(p)] = TRUE, !.chars = Append(@, e)]
    BY <2>2, <2>3, Zenon DEF InString
  <2>7. InString(p, e) = SetLetter(p, es, ch)
    <3>1. [p EXCEPT !.escapes[level(p)] = TRUE, !.chars = Append(@, e)] = [p EXCEPT !.escapes = es, !.chars = ch]
      BY <1>1, <2>4, <2>5
    <3> QED BY <2>6, <3>1 DEF SetLetter
  <2>8. InString(p, e) = Ctx(p.stack, p.expecting, p.tok_last, p.can_insert, p.nodes, ch, es, p.scalar)
    BY <2>7, Lettered
  <2> QED BY <1>1, <1>2, <1>3, <2>2, <2>4, <2>5, <2>8, Zenon
<1>4. CASE c \notin DOMAIN twoCharEscape
  <2>1. Escape(c) = c
    BY <1>4 DEF Escape
  <2>2. c # "\"" /\ c \notin {"\t", "\n"} /\ c # "\\?" /\ c \notin Range(twoCharEscape)
    BY Zenon DEF Breaks
  <2>3. PICK ch : ch = Append(p.chars, c)
    OBVIOUS
  <2>4. InString(p, c) = [p EXCEPT !.chars = Append(@, c)]
    BY <2>2, Zenon DEF InString
  <2>5. InString(p, c) = [p EXCEPT !.chars = ch]
    BY <2>3, <2>4
  <2>6. InString(p, c) = Ctx(p.stack, p.expecting, p.tok_last, p.can_insert, p.nodes, ch, p.escapes, p.scalar)
    BY <2>5, FieldSet
  <2> QED BY <1>2, <1>4, <2>1, <2>3, <2>6, Zenon
<1> QED BY <1>3, <1>4


\* The string that the characters read so far stand for.
Spells(p, str) ==
    /\ str \in Seq(Range(str)) /\ Range(str) \cap Range(twoCharEscape) = {}
    /\ p.chars = [i \in DOMAIN str |-> Escape(str[i])]
    /\ p.escapes[level(p)] = (\E i \in DOMAIN str : str[i] \in DOMAIN twoCharEscape)

\* What popString makes of them.
LEMMA PopStringIs ==
    ASSUME NEW p, NEW str, Spells(p, str)
    PROVE  /\ State(p).type = "string" => popString(p) = Attached(PushNode(p, NewStringNode(str)))
           /\ State(p).type = "hkey" => popString(p) = PushNode(p, KeyVal(str, NullNode))
<1>1. PICK escaped \in BOOLEAN : escaped = (\E i \in DOMAIN str : str[i] \in DOMAIN twoCharEscape)
  OBVIOUS
<1>2. PICK z : z = IF escaped THEN [i \in DOMAIN p.chars |-> Unescape(p.chars[i])] ELSE p.chars
  OBVIOUS
<1>3. z = str
  <2>1. \A i \in DOMAIN str : str[i] \notin Range(twoCharEscape)
    BY DEF Spells, Range
  <2>2. p.chars = [i \in DOMAIN str |-> Escape(str[i])] /\ str = [i \in DOMAIN str |-> str[i]]
    BY DEF Spells
  <2>3. CASE escaped = TRUE
    <3>1. ASSUME NEW i \in DOMAIN str PROVE Unescape(Escape(str[i])) = str[i]
      BY <2>1, UnescapeIs, Zenon DEF Escape
    <3>2. z = [i \in DOMAIN str |-> Unescape(Escape(str[i]))]
      BY <1>2, <2>2, <2>3
    <3> QED BY <2>2, <3>1, <3>2
  <2>4. CASE escaped = FALSE
    <3>1. ASSUME NEW i \in DOMAIN str PROVE Escape(str[i]) = str[i]
      BY <1>1, <2>4 DEF Escape
    <3> QED BY <1>2, <2>2, <2>4, <3>1
  <2> QED BY <1>1, <2>3, <2>4
<1>4. ~(escaped /\ z = <<>>)
  <2>1. escaped => \E i \in DOMAIN str : TRUE
    BY <1>1
  <2>2. str = <<>> => DOMAIN str = {}
    OBVIOUS
  <2> QED BY <1>3, <2>1, <2>2
<1>5. p.escapes[level(p)] = escaped
  BY <1>1 DEF Spells
<1> QED BY <1>2, <1>3, <1>4, <1>5 DEF popString

\* Popping a slot without an error.
LEMMA TidyIs ==
    ASSUME NEW p, Live(p)
    PROVE  PopSlot(p) = Ctx(Front(p.stack), p.expecting, p.tok_last, p.can_insert, p.nodes, <<>>,
                            [p.escapes EXCEPT ![level(p)] = FALSE], p.scalar)
<1>1. PICK k : k = level(p)
  OBVIOUS
<1>2. PICK f : f = Front(p.stack)
  OBVIOUS
<1>3. PICK es : es = [p.escapes EXCEPT ![k] = FALSE]
  OBVIOUS
<1>4. p.err = "none"
  BY CountedCtx
<1>5. PopSlot(p) = [p EXCEPT !.stack = Front(@), !.escapes[level(p)] = FALSE, !.chars = <<>>]
  BY <1>4 DEF PopSlot
<1>6. PopSlot(p) = SetTidy(p, f, es, <<>>)
  BY <1>1, <1>2, <1>3, <1>5 DEF SetTidy
<1> QED BY <1>1, <1>2, <1>3, <1>6, Tidied

\* A quote within a string ends it.
LEMMA QuoteInString ==
    ASSUME NEW p
    PROVE  InString(p, "\"") = PopSlot(popString([p EXCEPT !.can_insert = FALSE]))
<1>1. PICK c : c = "\""
  OBVIOUS
<1>2. InString(p, c) = PopSlot(popString([p EXCEPT !.can_insert = FALSE]))
  BY <1>1, EscapesAre DEF InString
<1> QED BY <1>1, <1>2, Zenon

\* The quote that ends a string: it is set in the node below,
LEMMA StringEnds ==
    ASSUME NEW p, Live(p), Inner(p.stack), NEW str, Spells(p, str), Takes(p.nodes), Free(p.nodes),
           Topmost(p.stack).type = "string"
    PROVE  Lex(p, "\"") = Ctx(Front(p.stack), p.expecting, p.tok_last, FALSE, With(p.nodes, NewStringNode(str)), <<>>,
                              [p.escapes EXCEPT ![level(p)] = FALSE], p.scalar)
<1>1. PICK q : q = [p EXCEPT !.can_insert = FALSE]
  OBVIOUS
<1>2. q = Ctx(p.stack, p.expecting, p.tok_last, FALSE, p.nodes, p.chars, p.escapes, p.scalar)
  BY <1>1, FieldSet
<1>3. Has(q, p.stack, p.expecting, p.tok_last, FALSE, p.nodes, p.chars, p.escapes, p.scalar)
  BY <1>2, HasAll
<1>4. Lex(p, "\"") = PopSlot(popString(q))
  <2>1. Lex(p, "\"") = InString(p, "\"")
    BY LexInner, Zenon
  <2> QED BY <1>1, <2>1, QuoteInString, Zenon
<1>5. Spells(q, str)
  BY <1>3 DEF Has, Spells, level
<1>6. State(q).type = "string"
  BY <1>3, CountedCtx DEF Has
<1>7. PICK m : m = NewStringNode(str)
  OBVIOUS
<1>8. PICK r : r = PushNode(q, m)
  OBVIOUS
<1>9. popString(q) = Attached(r)
  BY <1>5, <1>6, <1>7, <1>8, PopStringIs
<1>10. Has(r, p.stack, p.expecting, p.tok_last, FALSE, Append(p.nodes, m), p.chars, p.escapes, p.scalar)
  <2>1. PICK ns : ns = Append(p.nodes, m)
    OBVIOUS
  <2>2. r = [q EXCEPT !.nodes = ns]
    BY <1>3, <1>8, <2>1, PushNodeIs DEF Has
  <2>3. Live(q)
    BY <1>3 DEF Has
  <2>4. r = Ctx(q.stack, q.expecting, q.tok_last, q.can_insert, ns, q.chars, q.escapes, q.scalar)
    BY <2>2, <2>3, FieldSet
  <2>5. r = Ctx(p.stack, p.expecting, p.tok_last, FALSE, ns, p.chars, p.escapes, p.scalar)
    BY <1>3, <2>4 DEF Has
  <2> QED BY <2>1, <2>5, HasAll
<1>11. PICK w : w = With(p.nodes, m)
  OBVIOUS
<1>12. PICK a : a = Attached(r)
  OBVIOUS
<1>13. Has(a, p.stack, p.expecting, p.tok_last, FALSE, w, p.chars, p.escapes, p.scalar)
  <2>1. Live(r) /\ r.nodes = Append(p.nodes, m)
    BY <1>10 DEF Has
  <2>2. a = [r EXCEPT !.nodes = w]
    BY <1>11, <1>12, <2>1, AttachedIs
  <2>3. a = Ctx(r.stack, r.expecting, r.tok_last, r.can_insert, w, r.chars, r.escapes, r.scalar)
    BY <2>1, <2>2, FieldSet
  <2>4. a = Ctx(p.stack, p.expecting, p.tok_last, FALSE, w, p.chars, p.escapes, p.scalar)
    BY <1>10, <2>3 DEF Has
  <2> QED BY <2>4, HasAll
<1>14. level(a) = level(p)
  BY <1>13 DEF Has, level
<1>15. PopSlot(a) = Ctx(Front(a.stack), a.expecting, a.tok_last, a.can_insert, a.nodes, <<>>,
                        [a.escapes EXCEPT ![level(a)] = FALSE], a.scalar)
  BY <1>13, TidyIs DEF Has
<1>16. PopSlot(a) = Ctx(Front(p.stack), p.expecting, p.tok_last, FALSE, w, <<>>,
                        [p.escapes EXCEPT ![level(p)] = FALSE], p.scalar)
  BY <1>13, <1>14, <1>15 DEF Has
<1> QED BY <1>4, <1>7, <1>9, <1>11, <1>12, <1>16, Zenon

\* or waits for its value.
LEMMA KeyEnds ==
    ASSUME NEW p, Live(p), Inner(p.stack), NEW str, Spells(p, str), Free(p.nodes), Topmost(p.stack).type = "hkey"
    PROVE  Lex(p, "\"") = Ctx(Front(p.stack), p.expecting, p.tok_last, FALSE, Append(p.nodes, KeyVal(str, NullNode)), <<>>,
                              [p.escapes EXCEPT ![level(p)] = FALSE], p.scalar)
<1>1. PICK q : q = [p EXCEPT !.can_insert = FALSE]
  OBVIOUS
<1>2. q = Ctx(p.stack, p.expecting, p.tok_last, FALSE, p.nodes, p.chars, p.escapes, p.scalar)
  BY <1>1, FieldSet
<1>3. Has(q, p.stack, p.expecting, p.tok_last, FALSE, p.nodes, p.chars, p.escapes, p.scalar)
  BY <1>2, HasAll
<1>4. Lex(p, "\"") = PopSlot(popString(q))
  <2>1. Lex(p, "\"") = InString(p, "\"")
    BY LexInner, Zenon
  <2> QED BY <1>1, <2>1, QuoteInString, Zenon
<1>5. Spells(q, str)
  BY <1>3 DEF Has, Spells, level
<1>6. State(q).type = "hkey"
  BY <1>3, CountedCtx DEF Has
<1>7. PICK m : m = KeyVal(str, NullNode)
  OBVIOUS
<1>8. PICK r : r = PushNode(q, m)
  OBVIOUS
<1>9. popString(q) = r
  BY <1>5, <1>6, <1>7, <1>8, PopStringIs
<1>10. PICK ns : ns = Append(p.nodes, m)
  OBVIOUS
<1>11. Has(r, p.stack, p.expecting, p.tok_last, FALSE, ns, p.chars, p.escapes, p.scalar)
  <2>2. r = [q EXCEPT !.nodes = ns]
    BY <1>3, <1>8, <1>10, PushNodeIs DEF Has
  <2>3. Live(q)
    BY <1>3 DEF Has
  <2>4. r = Ctx(q.stack, q.expecting, q.tok_last, q.can_insert, ns, q.chars, q.escapes, q.scalar)
    BY <2>2, <2>3, FieldSet
  <2>5. r = Ctx(p.stack, p.expecting, p.tok_last, FALSE, ns, p.chars, p.escapes, p.scalar)
    BY <1>3, <2>4 DEF Has
  <2> QED BY <2>5, HasAll
<1>12. level(r) = level(p)
  BY <1>11 DEF Has, level
<1>13. PopSlot(r) = Ctx(Front(r.stack), r.expecting, r.tok_last, r.can_insert, r.nodes, <<>>,
                        [r.escapes EXCEPT ![level(r)] = FALSE], r.scalar)
  BY <1>11, TidyIs DEF Has
<1>14. PopSlot(r) = Ctx(Front(p.stack), p.expecting, p.tok_last, FALSE, ns, <<>>,
                        [p.escapes EXCEPT ![level(p)] = FALSE], p.scalar)
  BY <1>11, <1>12, <1>13 DEF Has
<1> QED BY <1>4, <1>7, <1>9, <1>10, <1>14, Zenon


\* The first and only token of a number or literal name.
LEMMA SpecialIs ==
    ASSUME NEW p, Live(p), ValueDue(p.stack), Room(p.stack), p.can_insert = TRUE,
           NEW c \in DOMAIN Literals \cup OutOfRange
    PROVE  Lex(p, c) = Ctx(Pushed(p.stack, "special"), p.expecting, p.tok_last, TRUE, p.nodes, <<c>>,
                           [p.escapes EXCEPT ![Len(p.stack)] = TRUE], p.scalar)
<1>1. PICK b : b = Counted(p)
  OBVIOUS
<1>2. PICK q : q = STACK_PUSH(b, "special")
  OBVIOUS
<1>3. Has(b, Bumped(p.stack), p.expecting, p.tok_last, TRUE, p.nodes, p.chars, p.escapes, p.scalar)
  BY <1>1, CountedCtx DEF Has
<1>4. Has(q, Pushed(p.stack, "special"), p.expecting, p.tok_last, TRUE, p.nodes, p.chars, p.escapes, p.scalar)
  <2>1. q = Ctx(Pushed(p.stack, "special"), b.expecting, b.tok_last, b.can_insert, Begun(b.nodes, "special"),
                b.chars, b.escapes, b.scalar)
    <3>1. "special" \notin {"object", "list"}
      OBVIOUS
    <3> QED BY <1>2, <1>3, <3>1, PushIs DEF Has
  <2>2. Begun(p.nodes, "special") = p.nodes
    BY DEF Begun
  <2>3. q = Ctx(Pushed(p.stack, "special"), p.expecting, p.tok_last, TRUE, p.nodes, p.chars, p.escapes, p.scalar)
    BY <1>3, <2>1, <2>2 DEF Has
  <2> QED BY <2>3, HasAll
<1>5. ~KeyExpected(p)
  <2>1. 1 # 0
    OBVIOUS
  <2>2. State(p) = Topmost(p.stack)
    BY CountedCtx
  <2> QED BY <2>1, <2>2 DEF KeyExpected, ValueDue
<1>6. q.err = "none"
  BY <1>4, CountedCtx DEF Has
<1>7. PICK k : k = Len(p.stack)
  OBVIOUS
<1>8. level(q) = k
  <2>1. Len(Pushed(p.stack, "special")) = Len(p.stack) + 1 /\ Len(p.stack) \in Nat
    <3>1. Len(Bumped(p.stack)) = Len(p.stack) /\ Bumped(p.stack) \in Seq(Slots) /\ Len(p.stack) \in Nat
      BY BumpedIs DEF Room
    <3> QED BY <3>1 DEF Pushed
  <2> QED BY <1>4, <1>7, <2>1 DEF level, Has
<1>9. BeginSpecial(p, c) = [q EXCEPT !.escapes[level(q)] = TRUE, !.chars = <<c>>]
  BY <1>1, <1>2, <1>5, <1>6 DEF BeginSpecial
<1>10. PICK es : es = [q.escapes EXCEPT ![k] = TRUE]
  OBVIOUS
<1>11. BeginSpecial(p, c) = SetLetter(q, es, <<c>>)
  BY <1>8, <1>9, <1>10 DEF SetLetter
<1>12. BeginSpecial(p, c) = Ctx(q.stack, q.expecting, q.tok_last, q.can_insert, q.nodes, <<c>>, es, q.scalar)
  BY <1>4, <1>11, Lettered DEF Has
<1>13. Lex(p, c) = BeginSpecial(p, c)
  BY LexOuter DEF ValueDue
<1> QED BY <1>4, <1>7, <1>10, <1>12, <1>13 DEF Has

\* The token after it ends it, and is then read as after any value.
LEMMA SpecialEnds ==
    ASSUME NEW p, Live(p), p.stack # <<>>, Topmost(p.stack).type = "special", Outer(Front(p.stack)),
           Takes(p.nodes), Free(p.nodes), NEW c \in DOMAIN Literals \ OutOfRange, p.chars = <<c>>,
           NEW t \in Whitespace \cup {",", "]", "}"}
    PROVE  Lex(p, t) = Lex(Ctx(Front(p.stack), ",", "", FALSE, With(p.nodes, Literals[c]), <<>>,
                               [p.escapes EXCEPT ![level(p)] = FALSE], p.scalar), t)
<1>1. PICK m : m = Literals[c]
  OBVIOUS
<1>2. PICK r : r = PushNode(p, m)
  OBVIOUS
<1>3. PICK a : a = Attached(r)
  OBVIOUS
<1>4. popSpecial(p) = a
  <2>1. p.chars[1] = c
    <3>1. PICK ch : ch = <<c>>
      OBVIOUS
    <3>2. p.chars = ch /\ ch[1] = c
      BY <3>1
    <3> QED BY ONLY <3>2
  <2> QED BY <1>1, <1>2, <1>3, <2>1 DEF popSpecial
<1>5. Has(r, p.stack, p.expecting, p.tok_last, p.can_insert, Append(p.nodes, m), p.chars, p.escapes, p.scalar)
  <2>1. PICK ns : ns = Append(p.nodes, m)
    OBVIOUS
  <2>2. r = [p EXCEPT !.nodes = ns]
    BY <1>2, <2>1, PushNodeIs
  <2>3. r = Ctx(p.stack, p.expecting, p.tok_last, p.can_insert, ns, p.chars, p.escapes, p.scalar)
    BY <2>2, FieldSet
  <2> QED BY <2>1, <2>3, HasAll
<1>6. PICK w : w = With(p.nodes, m)
  OBVIOUS
<1>7. Has(a, p.stack, p.expecting, p.tok_last, p.can_insert, w, p.chars, p.escapes, p.scalar)
  <2>1. Live(r) /\ r.nodes = Append(p.nodes, m)
    BY <1>5 DEF Has
  <2>2. a = [r EXCEPT !.nodes = w]
    <3>1. Takes(p.nodes)
      OBVIOUS
    <3>2. Attached(r) = [r EXCEPT !.nodes = With(p.nodes, m)]
      BY ONLY <2>1, <3>1, AttachedIs
    <3> QED BY <1>3, <1>6, <3>2
  <2>3. a = Ctx(r.stack, r.expecting, r.tok_last, r.can_insert, w, r.chars, r.escapes, r.scalar)
    BY <2>1, <2>2, FieldSet
  <2>4. a = Ctx(p.stack, p.expecting, p.tok_last, p.can_insert, w, p.chars, p.escapes, p.scalar)
    BY <1>5, <2>3 DEF Has
  <2> QED BY <2>4, HasAll
<1>8. PICK f : f = Front(p.stack)
  OBVIOUS
<1>9. PICK es : es = [p.escapes EXCEPT ![level(p)] = FALSE]
  OBVIOUS
<1>10. PICK q : q = PopSlot(a)
  OBVIOUS
<1>11. Has(q, f, p.expecting, p.tok_last, p.can_insert, w, <<>>, es, p.scalar)
  <2>1. q = Ctx(Front(a.stack), a.expecting, a.tok_last, a.can_insert, a.nodes, <<>>,
                [a.escapes EXCEPT ![level(a)] = FALSE], a.scalar)
    BY <1>7, <1>10, TidyIs DEF Has
  <2>2. level(a) = level(p)
    BY <1>7 DEF Has, level
  <2>3. q = Ctx(f, p.expecting, p.tok_last, p.can_insert, w, <<>>, es, p.scalar)
    BY <1>7, <1>8, <1>9, <2>1, <2>2 DEF Has
  <2> QED BY <2>3, HasAll
<1>12. PICK e : e = [q EXCEPT !.can_insert = FALSE, !.tok_last = "", !.expecting = ","]
  OBVIOUS
<1>13. e = Ctx(f, ",", "", FALSE, w, <<>>, es, p.scalar)
  <2>1. e = SetEnd(q, FALSE, "", ",")
    BY <1>12 DEF SetEnd
  <2>2. e = Ctx(q.stack, ",", "", FALSE, q.nodes, q.chars, q.escapes, q.scalar)
    BY <1>11, <2>1, Ended DEF Has
  <2> QED BY <1>11, <2>2 DEF Has
<1>14. Live(e) /\ Outer(e.stack)
  <2>1. Has(e, f, ",", "", FALSE, w, <<>>, es, p.scalar)
    BY <1>13, HasAll
  <2>2. Outer(f)
    BY <1>8
  <2> QED BY <2>1, <2>2 DEF Has
<1>15. q.err = "none"
  BY <1>11, CountedCtx DEF Has
<1>16. t \notin DOMAIN Literals \cup OutOfRange
  <2>1. (DOMAIN Literals \cup OutOfRange) \cap Whitespace = {}
    BY ParserAssumption
  <2>2. CASE t \in Whitespace
    BY <2>1, <2>2
  <2>3. CASE t \in {",", "]", "}"}
    BY <2>3, MarksAre, Zenon
  <2> QED BY <2>2, <2>3
<1>17. Lex(p, t) = EndSpecial(p, t)
  <2>1. State(p) = Topmost(p.stack) /\ p.err = "none"
    BY CountedCtx
  <2>2. State(p).type = "special"
    BY <2>1
  <2> QED BY <1>16, <2>1, <2>2 DEF Lex
<1>18. EndSpecial(p, t) = IF t \in Whitespace THEN e ELSE Structural(e, t)
  BY <1>4, <1>10, <1>12, <1>15 DEF EndSpecial
<1>19. CASE t \in Whitespace
  <2>1. Lex(e, t) = e
    BY <1>14, <1>19, LexOuter, Zenon
  <2> QED BY <1>1, <1>6, <1>8, <1>9, <1>13, <1>17, <1>18, <1>19, <2>1, Zenon
<1>20. CASE t \in {",", "]", "}"}
  <2>1. Lex(e, t) = Structural(e, t) /\ t \notin Whitespace
    BY <1>14, <1>20, LexOuter, MarksAre, Zenon
  <2> QED BY <1>1, <1>6, <1>8, <1>9, <1>13, <1>17, <1>18, <2>1, Zenon
<1> QED BY <1>19, <1>20


-----------------------------------------------------------------------------
(* Reading the tokens of a sequence, from one context to another.          *)

Lexes(p, z, q) ==
    \E t : t[0] = p /\ t[Len(z)] = q /\ \A i \in 1..Len(z) : t[i] = Lex(t[i - 1], z[i])

IsText(z) == z \in Seq(Range(z))

\* No token,
LEMMA ReadsNone ==
    ASSUME NEW p
    PROVE  Lexes(p, <<>>, p)
<1>1. PICK z : z = <<>>
  OBVIOUS
<1>2. Len(z) = 0
  BY <1>1
<1>3. PICK t : t = [i \in {0} |-> p]
  OBVIOUS
<1>4. t[0] = p /\ t[Len(z)] = p /\ \A i \in 1..Len(z) : t[i] = Lex(t[i - 1], z[i])
  BY <1>2, <1>3
<1> QED BY <1>1, <1>4 DEF Lexes

\* nothing else than the context itself,
LEMMA NoneReads ==
    ASSUME NEW p, NEW q, Lexes(p, <<>>, q)
    PROVE  q = p
<1>1. PICK z : z = <<>>
  OBVIOUS
<1>2. Len(z) = 0 /\ Lexes(p, z, q)
  BY <1>1
<1> QED BY <1>2 DEF Lexes

\* one token,
LEMMA ReadsOne ==
    ASSUME NEW p, NEW c
    PROVE  Lexes(p, <<c>>, Lex(p, c)) /\ IsText(<<c>>)
<1>1. PICK z : z = <<c>>
  OBVIOUS
<1>2. Len(z) = 1 /\ z[1] = c /\ IsText(z)
  BY <1>1 DEF IsText, Range
<1>3. PICK q : q = Lex(p, c)
  OBVIOUS
<1>4. PICK t : t = [i \in {0, 1} |-> IF i = 0 THEN p ELSE q]
  OBVIOUS
<1>5. t[0] = p /\ t[1] = q
  BY <1>4
<1>6. \A i \in 1..1 : t[i] = Lex(t[i - 1], z[i])
  BY <1>2, <1>3, <1>5
<1> QED BY <1>1, <1>2, <1>3, <1>5, <1>6 DEF Lexes

\* one text after another,
LEMMA ReadsOn ==
    ASSUME NEW y, IsText(y), NEW z, IsText(z), NEW p, NEW q, Lexes(p, y, q), NEW r, Lexes(q, z, r)
    PROVE  Lexes(p, y \o z, r) /\ IsText(y \o z)
<1>1. PICK w : w = y \o z
  OBVIOUS
<1>2. PICK U : U = Range(y) \cup Range(z)
  OBVIOUS
<1>3. y \in Seq(U) /\ z \in Seq(U)
  BY <1>2 DEF IsText
<1>4. PICK m \in Nat, n \in Nat : m = Len(y) /\ n = Len(z)
  BY <1>3
<1>5. /\ w \in Seq(U) /\ Len(w) = m + n /\ \A i \in 1..m : w[i] = y[i]
      /\ \A i \in (m + 1)..(m + n) : w[i] = z[i - m]
  BY <1>1, <1>3, <1>4
<1>6. IsText(w)
  BY <1>5, OfItsOwn DEF IsText
<1>7. PICK a : a[0] = p /\ a[m] = q /\ \A i \in 1..m : a[i] = Lex(a[i - 1], y[i])
  BY <1>4 DEF Lexes
<1>8. PICK b : b[0] = q /\ b[n] = r /\ \A i \in 1..n : b[i] = Lex(b[i - 1], z[i])
  BY <1>4 DEF Lexes
<1>9. PICK t : t = [i \in 0..(m + n) |-> IF i <= m THEN a[i] ELSE b[i - m]]
  OBVIOUS
<1>10. t[0] = p
  BY <1>4, <1>7, <1>9
<1>11. t[m + n] = r
  <2>1. CASE n = 0
    BY <1>4, <1>7, <1>8, <1>9, <2>1
  <2>2. CASE n > 0
    BY <1>4, <1>8, <1>9, <2>2
  <2> QED BY <1>4, <2>1, <2>2
<1>12. ASSUME NEW i \in 1..(m + n) PROVE t[i] = Lex(t[i - 1], w[i])
  <2>1. CASE i <= m
    BY <1>4, <1>5, <1>7, <1>9, <2>1
  <2>2. CASE i = m + 1
    <3>1. t[i] = b[1] /\ t[i - 1] = q /\ w[i] = z[1] /\ 1 \in 1..n
      BY <1>4, <1>5, <1>7, <1>9, <2>2
    <3>2. b[1] = Lex(b[1 - 1], z[1])
      BY <1>8, <3>1
    <3> QED BY <1>8, <3>1, <3>2
  <2>3. CASE i > m + 1
    <3>1. PICK k \in Nat : k = i - m
      BY <1>4, <2>3
    <3>2. t[i] = b[k] /\ t[i - 1] = b[k - 1] /\ w[i] = z[k] /\ k \in 1..n
      BY <1>4, <1>5, <1>9, <2>3, <3>1
    <3> QED BY <1>8, <3>2
  <2> QED BY <1>4, <2>1, <2>2, <2>3
<1> QED BY <1>1, <1>4, <1>5, <1>6, <1>10, <1>11, <1>12 DEF Lexes

\* the rest of a text after its first token,
LEMMA ReadsRest ==
    ASSUME NEW z, IsText(z), z # <<>>, NEW p, NEW q, Lexes(p, z, q)
    PROVE  Lexes(Lex(p, Head(z)), Tail(z), q) /\ IsText(Tail(z))
<1>1. PICK n \in Nat : n = Len(z) /\ n > 0
  BY EmptySeq DEF IsText
<1>2. PICK w : w = Tail(z)
  OBVIOUS
<1>3. PICK U : U = Range(z)
  OBVIOUS
<1>4. w \in Seq(U) /\ Len(w) = n - 1 /\ \A i \in 1..(n - 1) : w[i] = z[i + 1]
  BY <1>1, <1>2, <1>3 DEF IsText
<1>5. IsText(w)
  BY <1>4, OfItsOwn DEF IsText
<1>6. PICK a : a[0] = p /\ a[n] = q /\ \A i \in 1..n : a[i] = Lex(a[i - 1], z[i])
  BY <1>1 DEF Lexes
<1>7. PICK t : t = [i \in 0..(n - 1) |-> a[i + 1]]
  OBVIOUS
<1>8. t[0] = Lex(p, Head(z))
  <2>1. Head(z) = z[1] /\ t[0] = a[1]
    BY <1>1, <1>7 DEF IsText
  <2>2. a[1] = Lex(a[1 - 1], z[1])
    BY <1>1, <1>6
  <2> QED BY <1>6, <2>1, <2>2
<1>9. t[n - 1] = q
  BY <1>1, <1>6, <1>7
<1>10. ASSUME NEW i \in 1..(n - 1) PROVE t[i] = Lex(t[i - 1], w[i])
  <2>1. t[i] = a[i + 1] /\ t[i - 1] = a[i] /\ w[i] = z[i + 1] /\ i + 1 \in 1..n
    BY <1>1, <1>4, <1>7
  <2>2. a[i + 1] = Lex(a[(i + 1) - 1], z[i + 1])
    BY <1>6, <2>1
  <2> QED BY <2>1, <2>2
<1> QED BY <1>2, <1>4, <1>5, <1>8, <1>9, <1>10 DEF Lexes

\* and from any context that reads its first token alike.
LEMMA ReadsAlike ==
    ASSUME NEW z, IsText(z), z # <<>>, NEW p, NEW r, Lex(p, z[1]) = Lex(r, z[1]), NEW q, Lexes(p, z, q)
    PROVE  Lexes(r, z, q)
<1>1. PICK n \in Nat : n = Len(z) /\ n > 0
  BY EmptySeq DEF IsText
<1>2. PICK a : a[0] = p /\ a[n] = q /\ \A i \in 1..n : a[i] = Lex(a[i - 1], z[i])
  BY <1>1 DEF Lexes
<1>3. PICK t : t = [i \in 0..n |-> IF i = 0 THEN r ELSE a[i]]
  OBVIOUS
<1>4. t[0] = r /\ t[n] = q
  BY <1>1, <1>2, <1>3
<1>5. ASSUME NEW i \in 1..n PROVE t[i] = Lex(t[i - 1], z[i])
  <2>1. CASE i = 1
    <3>1. a[1] = Lex(a[1 - 1], z[1]) /\ t[1] = a[1] /\ t[1 - 1] = r
      BY <1>1, <1>2, <1>3
    <3> QED BY <1>2, <2>1, <3>1
  <2>2. CASE i > 1
    BY <1>1, <1>2, <1>3, <2>2
  <2> QED BY <2>1, <2>2
<1> QED BY <1>1, <1>4, <1>5 DEF Lexes


\* Whitespace between values changes nothing.
LEMMA SpaceRead ==
    ASSUME NEW p, Live(p), Outer(p.stack), NEW z, IsText(z), Range(z) \subseteq Whitespace
    PROVE  Lexes(p, z, p)
<1>1. PICK n \in Nat : n = Len(z)
  BY DEF IsText
<1>2. PICK t : t = [i \in 0..n |-> p]
  OBVIOUS
<1>3. t[0] = p /\ t[n] = p
  BY <1>1, <1>2
<1>4. ASSUME NEW i \in 1..n PROVE t[i] = Lex(t[i - 1], z[i])
  <2>1. t[i] = p /\ t[i - 1] = p
    BY <1>1, <1>2
  <2>2. z[i] \in Whitespace
    BY <1>1 DEF IsText, Range
  <2> QED BY <2>1, <2>2, LexOuter
<1> QED BY <1>1, <1>3, <1>4 DEF Lexes

\* The escapes once some characters of a string have been read.
EscapesAfter(str, k, l) ==
    IF \E i \in 1..k : str[i] \in DOMAIN twoCharEscape THEN [Unescaped EXCEPT ![l] = TRUE] ELSE Unescaped

\* The next character of a string: an escaped one marks the level of the string, any other leaves the marks alone.
LEMMA EscapesNext ==
    ASSUME NEW str, NEW k \in Nat, NEW l
    PROVE  /\ EscapesAfter(str, 0, l) = Unescaped
           /\ EscapesAfter(str, k + 1, l)
                = IF str[k + 1] \in DOMAIN twoCharEscape THEN [EscapesAfter(str, k, l) EXCEPT ![l] = TRUE]
                  ELSE EscapesAfter(str, k, l)
<1>1. PICK u : u = Unescaped
  OBVIOUS
<1>2. PICK v : v = [u EXCEPT ![l] = TRUE]
  OBVIOUS
<1>3. [v EXCEPT ![l] = TRUE] = v
  BY <1>2
<1>4. \A j \in Nat : EscapesAfter(str, j, l) = IF \E i \in 1..j : str[i] \in DOMAIN twoCharEscape THEN v ELSE u
  BY <1>1, <1>2 DEF EscapesAfter
<1>5. EscapesAfter(str, 0, l) = u
  BY <1>4
<1>6. CASE str[k + 1] \in DOMAIN twoCharEscape
  <2>1. \E i \in 1..(k + 1) : str[i] \in DOMAIN twoCharEscape
    BY <1>6
  <2>2. EscapesAfter(str, k + 1, l) = v
    BY <1>4, <2>1
  <2>3. EscapesAfter(str, k, l) = v \/ EscapesAfter(str, k, l) = u
    BY <1>4
  <2> QED BY <1>1, <1>2, <1>3, <1>5, <1>6, <2>2, <2>3
<1>7. CASE str[k + 1] \notin DOMAIN twoCharEscape
  <2>1. (\E i \in 1..(k + 1) : str[i] \in DOMAIN twoCharEscape) <=> \E i \in 1..k : str[i] \in DOMAIN twoCharEscape
    BY <1>7
  <2>2. EscapesAfter(str, k + 1, l) = EscapesAfter(str, k, l)
    BY <1>4, <2>1
  <2> QED BY <1>1, <1>5, <1>7, <2>2
<1> QED BY <1>6, <1>7

\* What is left of the escapes es when the slot is popped, and what they say of
\* the first k characters of the string before.
MarkCleared(es, str, k, l) ==
    /\ [es EXCEPT ![l] = FALSE] = Unescaped
    /\ l \in 1..(Levels - 1) => es[l] = (\E i \in 1..k : str[i] \in DOMAIN twoCharEscape)

\* The escapes of a string are tidied.
LEMMA EscapesTidied ==
    ASSUME NEW str, NEW k, NEW l
    PROVE  MarkCleared(EscapesAfter(str, k, l), str, k, l)
<1>1. [Unescaped EXCEPT ![l] = FALSE] = Unescaped
  BY DEF Unescaped
<1>2. [[Unescaped EXCEPT ![l] = TRUE] EXCEPT ![l] = FALSE] = Unescaped
  BY DEF Unescaped
<1>3. ASSUME l \in 1..(Levels - 1) PROVE Unescaped[l] = FALSE /\ [Unescaped EXCEPT ![l] = TRUE][l] = TRUE
  BY <1>3 DEF Unescaped
<1>4. PICK some \in BOOLEAN : some = (\E i \in 1..k : str[i] \in DOMAIN twoCharEscape)
  OBVIOUS
<1>5. PICK es : es = EscapesAfter(str, k, l)
  OBVIOUS
<1>8. es = IF some THEN [Unescaped EXCEPT ![l] = TRUE] ELSE Unescaped
  BY <1>4, <1>5 DEF EscapesAfter
<1>6. some = TRUE => MarkCleared(es, str, k, l)
  BY <1>2, <1>3, <1>4, <1>8 DEF MarkCleared
<1>7. some = FALSE => MarkCleared(es, str, k, l)
  BY <1>1, <1>3, <1>4, <1>8 DEF MarkCleared
<1> QED BY <1>4, <1>5, <1>6, <1>7

Escaped(str) == [i \in DOMAIN str |-> Escape(str[i])]
IsPlain(str) == IsText(str) /\ Range(str) \cap (Range(twoCharEscape) \cup Breaks) = {}

\* The characters of a string are read one by one.
LEMMA CharsRead ==
    ASSUME NEW p, Live(p), Inner(p.stack), p.chars = <<>>, p.escapes = Unescaped, NEW str, IsPlain(str)
    PROVE  /\ IsText(Escaped(str))
           /\ Lexes(p, Escaped(str),
                    Ctx(p.stack, p.expecting, p.tok_last, p.can_insert, p.nodes, Escaped(str),
                        EscapesAfter(str, Len(str), level(p)), p.scalar))
<1>1. PICK n \in Nat : n = Len(str) /\ DOMAIN str = 1..n
  BY DEF IsPlain, IsText
<1>2. PICK z : z = Escaped(str)
  OBVIOUS
<1>3. Len(z) = n /\ DOMAIN z = 1..n /\ (\A i \in 1..n : z[i] = Escape(str[i])) /\ IsText(z)
  <2>1. PICK U : U = {Escape(str[i]) : i \in 1..n}
    OBVIOUS
  <2>2. z = [i \in 1..n |-> Escape(str[i])]
    BY <1>1, <1>2 DEF Escaped
  <2>3. z \in Seq(U) /\ Len(z) = n
    BY <2>1, <2>2
  <2> QED BY <2>2, <2>3, OfItsOwn DEF IsText
<1>4. PICK l : l = level(p)
  OBVIOUS
<1>5. PICK t : t = [i \in 0..n |-> Ctx(p.stack, p.expecting, p.tok_last, p.can_insert, p.nodes, SubSeq(z, 1, i),
                                       EscapesAfter(str, i, l), p.scalar)]
  OBVIOUS
<1>6. t[0] = p
  <2>1. SubSeq(z, 1, 0) = <<>>
    BY <1>3 DEF IsText
  <2>2. EscapesAfter(str, 0, l) = Unescaped
    BY EscapesNext
  <2>3. t[0] = Ctx(p.stack, p.expecting, p.tok_last, p.can_insert, p.nodes, SubSeq(z, 1, 0),
                   EscapesAfter(str, 0, l), p.scalar)
    BY <1>1, <1>5
  <2> QED BY <2>1, <2>2, <2>3 DEF Live
<1>7. t[n] = Ctx(p.stack, p.expecting, p.tok_last, p.can_insert, p.nodes, z, EscapesAfter(str, n, l), p.scalar)
  <2>1. SubSeq(z, 1, n) = z
    BY <1>3 DEF IsText
  <2>2. n \in 0..n
    OBVIOUS
  <2>3. t[n] = Ctx(p.stack, p.expecting, p.tok_last, p.can_insert, p.nodes, SubSeq(z, 1, n), EscapesAfter(str, n, l),
                   p.scalar)
    BY <1>5, <2>2
  <2> QED BY <2>1, <2>3
<1>8. ASSUME NEW i \in 1..n PROVE t[i] = Lex(t[i - 1], z[i])
  <2>1. PICK k \in Nat : k = i - 1 /\ i = k + 1 /\ k \in 0..n /\ i \in 0..n
    BY <1>1
  <2>2. PICK c : c = str[i]
    OBVIOUS
  <2>3. c \notin Range(twoCharEscape) \cup Breaks
    BY <1>1, <2>2 DEF IsPlain, Range
  <2>4. PICK q : q = t[k]
    OBVIOUS
  <2>5. q = Ctx(p.stack, p.expecting, p.tok_last, p.can_insert, p.nodes, SubSeq(z, 1, k), EscapesAfter(str, k, l), p.scalar)
    BY <1>5, <2>1, <2>4
  <2>6. Has(q, p.stack, p.expecting, p.tok_last, p.can_insert, p.nodes, SubSeq(z, 1, k), EscapesAfter(str, k, l), p.scalar)
    BY <2>5, HasAll
  <2>7. level(q) = l /\ Live(q) /\ Inner(q.stack)
    BY <1>4, <2>6 DEF Has, level
  <2>8. Lex(q, Escape(c)) =
             Ctx(q.stack, q.expecting, q.tok_last, q.can_insert, q.nodes, Append(q.chars, Escape(c)),
                 IF c \in DOMAIN twoCharEscape THEN [q.escapes EXCEPT ![l] = TRUE] ELSE q.escapes, q.scalar)
    BY <2>3, <2>7, CharIs
  <2>9. PICK e : e = IF c \in DOMAIN twoCharEscape THEN [q.escapes EXCEPT ![l] = TRUE] ELSE q.escapes
    OBVIOUS
  <2>10. e = EscapesAfter(str, i, l)
    <3>1. q.escapes = EscapesAfter(str, k, l)
      BY <2>6 DEF Has
    <3>2. EscapesAfter(str, k + 1, l)
            = IF str[k + 1] \in DOMAIN twoCharEscape THEN [EscapesAfter(str, k, l) EXCEPT ![l] = TRUE]
              ELSE EscapesAfter(str, k, l)
      BY EscapesNext
    <3>3. EscapesAfter(str, i, l) = IF c \in DOMAIN twoCharEscape THEN [EscapesAfter(str, k, l) EXCEPT ![l] = TRUE]
                                    ELSE EscapesAfter(str, k, l)
      BY <2>1, <2>2, <3>2
    <3> QED BY <2>9, <3>1, <3>3
  <2>11. Append(SubSeq(z, 1, k), z[i]) = SubSeq(z, 1, i)
    BY <1>3, <2>1 DEF IsText
  <2>12. z[i] = Escape(c)
    BY <1>3, <2>2
  <2>13. Lex(q, z[i]) = Ctx(p.stack, p.expecting, p.tok_last, p.can_insert, p.nodes, SubSeq(z, 1, i),
                            EscapesAfter(str, i, l), p.scalar)
    BY <2>6, <2>8, <2>9, <2>10, <2>11, <2>12 DEF Has
  <2> QED BY <1>5, <2>1, <2>4, <2>13
<1> QED BY <1>1, <1>2, <1>3, <1>4, <1>6, <1>7, <1>8 DEF Lexes


\* A slot that is pushed.
LEMMA PushedTop ==
    ASSUME NEW s, Room(s), NEW type \in {"object", "list", "string", "hkey", "special"}
    PROVE  /\ Pushed(s, type) \in Seq(Slots) /\ Pushed(s, type) # <<>> /\ Topmost(Pushed(s, type)) = Slot(type)
           /\ Len(Pushed(s, type)) = Len(s) + 1 /\ Len(s) \in 1..(Levels - 1)
           /\ Front(Pushed(s, type)) = Bumped(s) /\ Slot(type).type = type /\ Slot(type).nelem = 0
<1>1. PICK b : b = Bumped(s)
  OBVIOUS
<1>2. b \in Seq(Slots) /\ Len(b) = Len(s) /\ Len(s) \in 1..(Levels - 1)
  <2>1. Len(s) \in Nat /\ Len(s) # 0
    BY EmptySeq DEF Room
  <2> QED BY <1>1, <2>1, BumpedIs DEF Room
<1>3. PICK e : e = Slot(type)
  OBVIOUS
<1>4. e \in Slots /\ e.type = type /\ e.nelem = 0
  BY <1>3 DEF Slot, Slots
<1>5. PICK t : t = Append(b, e)
  OBVIOUS
<1>6. t \in Seq(Slots) /\ Len(t) = Len(s) + 1 /\ t[Len(t)] = e /\ t # <<>> /\ Front(t) = b
  BY <1>2, <1>4, <1>5 DEF Front
<1>7. t = Pushed(s, type)
  BY <1>1, <1>3, <1>5 DEF Pushed
<1> QED BY <1>1, <1>2, <1>3, <1>4, <1>6, <1>7 DEF Topmost

\* A string or key up to the quote at its end.
LEMMA SpelledRead ==
    ASSUME NEW p, Live(p), Room(p.stack), p.chars = <<>>, p.escapes = Unescaped, NEW str, IsPlain(str),
           NEW type \in {"string", "hkey"}, NEW e,
           Lex(p, "\"") = Ctx(Pushed(p.stack, type), e, "", FALSE, p.nodes, p.chars, p.escapes, p.scalar)
    PROVE  \E q, es :
             /\ Has(q, Pushed(p.stack, type), e, "", FALSE, p.nodes, Escaped(str), es, p.scalar)
             /\ [es EXCEPT ![level(q)] = FALSE] = Unescaped
             /\ Spells(q, str) /\ Inner(q.stack) /\ Topmost(q.stack).type = type
             /\ Front(q.stack) = Bumped(p.stack)
             /\ Lexes(p, <<"\"">> \o Escaped(str), q) /\ IsText(<<"\"">> \o Escaped(str))
<1>1. PICK quote : quote = "\""
  OBVIOUS
<1>2. PICK s, ns, sc : s = p.stack /\ ns = p.nodes /\ sc = p.scalar
  OBVIOUS
<1>3. PICK r : r = Lex(p, quote)
  OBVIOUS
<1>4. Has(r, Pushed(s, type), e, "", FALSE, ns, <<>>, Unescaped, sc)
  <2>1. r = Ctx(Pushed(s, type), e, "", FALSE, ns, <<>>, Unescaped, sc)
    BY <1>1, <1>2, <1>3, Zenon
  <2> QED BY ONLY <2>1, HasAll
<1>5. PICK n : n = Len(str)
  OBVIOUS
<1>6. PICK l : l = Len(s)
  OBVIOUS
<1>7. /\ Inner(r.stack) /\ Topmost(r.stack).type = type /\ level(r) = l /\ l \in 1..(Levels - 1)
      /\ Front(r.stack) = Bumped(s)
  <2>1. Room(s) /\ type \in {"object", "list", "string", "hkey", "special"}
    BY <1>2
  <2>2. /\ Pushed(s, type) \in Seq(Slots) /\ Pushed(s, type) # <<>> /\ Topmost(Pushed(s, type)).type = type
        /\ Len(Pushed(s, type)) = Len(s) + 1 /\ Len(s) \in 1..(Levels - 1) /\ Front(Pushed(s, type)) = Bumped(s)
    <3>1. Topmost(Pushed(s, type)) = Slot(type) /\ Slot(type).type = type
      BY ONLY <2>1, PushedTop
    <3> QED BY ONLY <2>1, <3>1, PushedTop
  <2>3. r.stack = Pushed(s, type)
    BY <1>4 DEF Has
  <2>4. type \in {"string", "hkey"}
    OBVIOUS
  <2>5. (Len(s) + 1) - 1 = Len(s)
    BY ONLY <2>2
  <2> QED BY ONLY <1>6, <2>2, <2>3, <2>4, <2>5 DEF Inner, level
<1>8. PICK z : z = Escaped(str)
  OBVIOUS
<1>9. PICK es : es = EscapesAfter(str, n, l)
  OBVIOUS
<1>10. PICK q : q = Ctx(Pushed(s, type), e, "", FALSE, ns, z, es, sc)
  OBVIOUS
<1>11. Lexes(r, z, q) /\ IsText(z)
  <2>1. Live(r) /\ r.chars = <<>> /\ r.escapes = Unescaped /\ IsPlain(str)
    BY <1>4 DEF Has
  <2>2. IsText(z) /\ Lexes(r, z, Ctx(r.stack, r.expecting, r.tok_last, r.can_insert, r.nodes, z, es, r.scalar))
    BY ONLY <1>5, <1>7, <1>8, <1>9, <2>1, CharsRead
  <2> QED BY ONLY <1>4, <1>10, <2>2 DEF Has
<1>12. Has(q, Pushed(s, type), e, "", FALSE, ns, z, es, sc)
  BY ONLY <1>10, HasAll
<1>13. level(q) = l /\ q.stack = r.stack
  BY ONLY <1>4, <1>7, <1>12 DEF Has, level
<1>14. [es EXCEPT ![l] = FALSE] = Unescaped /\ es[l] = (\E i \in 1..n : str[i] \in DOMAIN twoCharEscape)
  <2>1. MarkCleared(es, str, n, l)
    BY ONLY <1>9, EscapesTidied
  <2> QED BY ONLY <1>7, <2>1 DEF MarkCleared
<1>15. Spells(q, str)
  <2>1. IsPlain(str)
    OBVIOUS
  <2>2. DOMAIN str = 1..n
    BY ONLY <1>5, <2>1 DEF IsPlain, IsText
  <2>3. q.escapes[level(q)] = (\E i \in DOMAIN str : str[i] \in DOMAIN twoCharEscape)
    BY ONLY <1>12, <1>13, <1>14, <2>2 DEF Has
  <2>4. q.chars = [i \in DOMAIN str |-> Escape(str[i])]
    BY ONLY <1>8, <1>12 DEF Has, Escaped
  <2>5. str \in Seq(Range(str)) /\ Range(str) \cap Range(twoCharEscape) = {}
    BY ONLY <2>1 DEF IsPlain, IsText
  <2> QED BY ONLY <2>3, <2>4, <2>5 DEF Spells
<1>16. Lexes(p, <<quote>> \o z, q) /\ IsText(<<quote>> \o z)
  <2>1. Lexes(p, <<quote>>, r) /\ IsText(<<quote>>)
    BY ONLY <1>3, ReadsOne
  <2> QED BY ONLY <1>11, <2>1, ReadsOn
<1> QED BY <1>1, <1>2, <1>7, <1>8, <1>12, <1>13, <1>14, <1>15, <1>16, Zenon


\* Where a value is read: nothing else has been begun.
Ready(p) ==
    /\ Live(p) /\ ValueDue(p.stack) /\ Room(p.stack) /\ p.can_insert = TRUE
    /\ Topmost(p.stack).type = "object" => p.tok_last = ":"
    /\ Takes(p.nodes) /\ Free(p.nodes) /\ p.chars = <<>> /\ p.escapes = Unescaped

\* The context after a value, which is set in the node that waits for it.
Valued(p, m) == Ctx(Bumped(p.stack), ",", "", FALSE, With(p.nodes, m), <<>>, Unescaped, p.scalar)

\* What is written of a string is read as the string.
LEMMA StringRead ==
    ASSUME NEW p, Ready(p), Topmost(p.stack).type # "none", NEW str, IsPlain(str)
    PROVE  Lexes(p, Quoted(str), Valued(p, NewStringNode(str)))
<1>1. PICK quote : quote = "\""
  OBVIOUS
<1>3. Lex(p, "\"") = Ctx(Pushed(p.stack, "string"), ",", "", FALSE, p.nodes, p.chars, p.escapes, p.scalar)
  BY QuoteIs DEF Ready
<1>4. /\ Live(p) /\ Room(p.stack) /\ p.chars = <<>> /\ p.escapes = Unescaped
      /\ Takes(p.nodes) /\ Free(p.nodes)
  BY DEF Ready
<1>5. PICK q, f :
             /\ Has(q, Pushed(p.stack, "string"), ",", "", FALSE, p.nodes, Escaped(str), f, p.scalar)
             /\ [f EXCEPT ![level(q)] = FALSE] = Unescaped
             /\ Spells(q, str) /\ Inner(q.stack) /\ Topmost(q.stack).type = "string"
             /\ Front(q.stack) = Bumped(p.stack)
             /\ Lexes(p, <<"\"">> \o Escaped(str), q) /\ IsText(<<"\"">> \o Escaped(str))
  BY <1>3, <1>4, SpelledRead, Zenon
<1>6. PICK r : r = Lex(q, quote)
  OBVIOUS
<1>7. r = Valued(p, NewStringNode(str))
  <2>1. /\ Live(q) /\ q.nodes = p.nodes /\ Takes(q.nodes) /\ Free(q.nodes)
        /\ q.escapes = f /\ q.expecting = "," /\ q.tok_last = "" /\ q.scalar = p.scalar
    BY <1>4, <1>5 DEF Has
  <2>2. r = Ctx(Front(q.stack), q.expecting, q.tok_last, FALSE, With(q.nodes, NewStringNode(str)), <<>>,
                [q.escapes EXCEPT ![level(q)] = FALSE], q.scalar)
    BY <1>1, <1>5, <1>6, <2>1, StringEnds, Zenon
  <2>4. [q.escapes EXCEPT ![level(q)] = FALSE] = Unescaped
    BY <1>5, <2>1
  <2> QED BY <1>5, <2>1, <2>2, <2>4, Zenon DEF Valued
<1>8. Lexes(p, (<<quote>> \o Escaped(str)) \o <<quote>>, r)
  <2>1. PICK y : y = <<quote>> \o Escaped(str)
    OBVIOUS
  <2>2. Lexes(p, y, q) /\ IsText(y)
    BY <1>1, <1>5, <2>1, Zenon
  <2>3. Lexes(q, <<quote>>, r) /\ IsText(<<quote>>)
    BY ONLY <1>6, ReadsOne
  <2> QED BY ONLY <2>1, <2>2, <2>3, ReadsOn
<1>9. Quoted(str) = (<<quote>> \o Escaped(str)) \o <<quote>>
  BY <1>1, Zenon DEF Quoted, Escaped
<1> QED BY <1>7, <1>8, <1>9

\* What is written of a key is read as the key, which waits for its value.
LEMMA KeyRead ==
    ASSUME NEW p, Live(p), Outer(p.stack), Room(p.stack), p.expecting = "\"",
           Topmost(p.stack).type = "object", Topmost(p.stack).nelem % 2 = 0,
           p.chars = <<>>, p.escapes = Unescaped, Free(p.nodes), NEW str, IsPlain(str)
    PROVE  Lexes(p, Quoted(str), Ctx(Bumped(p.stack), ":", "", FALSE, Append(p.nodes, KeyVal(str, NullNode)), <<>>,
                                     Unescaped, p.scalar))
<1>1. PICK quote : quote = "\""
  OBVIOUS
<1>3. Lex(p, "\"") = Ctx(Pushed(p.stack, "hkey"), ":", "", FALSE, p.nodes, p.chars, p.escapes, p.scalar)
  BY KeyQuoteIs, Zenon
<1>4. Live(p) /\ Room(p.stack) /\ p.chars = <<>> /\ p.escapes = Unescaped /\ IsPlain(str)
  OBVIOUS
<1>5. PICK q, f :
             /\ Has(q, Pushed(p.stack, "hkey"), ":", "", FALSE, p.nodes, Escaped(str), f, p.scalar)
             /\ [f EXCEPT ![level(q)] = FALSE] = Unescaped
             /\ Spells(q, str) /\ Inner(q.stack) /\ Topmost(q.stack).type = "hkey"
             /\ Front(q.stack) = Bumped(p.stack)
             /\ Lexes(p, <<"\"">> \o Escaped(str), q) /\ IsText(<<"\"">> \o Escaped(str))
  BY ONLY <1>3, <1>4, SpelledRead, Zenon
<1>6. PICK r : r = Lex(q, quote)
  OBVIOUS
<1>7. r = Ctx(Bumped(p.stack), ":", "", FALSE, Append(p.nodes, KeyVal(str, NullNode)), <<>>, Unescaped, p.scalar)
  <2>1. /\ Live(q) /\ q.nodes = p.nodes /\ Free(q.nodes)
        /\ q.escapes = f /\ q.expecting = ":" /\ q.tok_last = "" /\ q.scalar = p.scalar
    <3>1. Free(p.nodes)
      BY Zenon
    <3> QED BY ONLY <1>5, <3>1 DEF Has
  <2>2. r = Ctx(Front(q.stack), q.expecting, q.tok_last, FALSE, Append(q.nodes, KeyVal(str, NullNode)), <<>>,
                [q.escapes EXCEPT ![level(q)] = FALSE], q.scalar)
    BY <1>1, <1>5, <1>6, <2>1, KeyEnds, Zenon
  <2>4. [q.escapes EXCEPT ![level(q)] = FALSE] = Unescaped
    BY ONLY <1>5, <2>1
  <2> QED BY <1>5, <2>1, <2>2, <2>4, Zenon
<1>8. Lexes(p, (<<quote>> \o Escaped(str)) \o <<quote>>, r)
  <2>1. PICK y : y = <<quote>> \o Escaped(str)
    OBVIOUS
  <2>2. Lexes(p, y, q) /\ IsText(y)
    BY <1>1, <1>5, <2>1, Zenon
  <2>3. Lexes(q, <<quote>>, r) /\ IsText(<<quote>>)
    BY ONLY <1>6, ReadsOne
  <2> QED BY ONLY <2>1, <2>2, <2>3, ReadsOn
<1>9. Quoted(str) = (<<quote>> \o Escaped(str)) \o <<quote>>
  BY <1>1, Zenon DEF Quoted, Escaped
<1> QED BY <1>7, <1>8, <1>9, Zenon


-----------------------------------------------------------------------------
(* Reading the values of containers.                                       *)

\* What may follow a value.
Follows == Whitespace \cup {",", "]", "}"}
SameAfter(q, r) == \A t \in Follows : Lex(q, t) = Lex(r, t)

\* A text is read as a value, whose end may be noticed only later.
Fills(p, z, m) == IsText(z) /\ \E q : Lexes(p, z, q) /\ q.scalar = p.scalar /\ SameAfter(q, Valued(p, m))

\* A number or literal name is.
LEMMA SpecialRead ==
    ASSUME NEW p, Ready(p), NEW c \in DOMAIN Literals \ OutOfRange
    PROVE  Fills(p, <<c>>, Literals[c])
<1>1. PICK q : q = Lex(p, c)
  OBVIOUS
<1>2. PICK s, ns, sc, es : s = p.stack /\ ns = p.nodes /\ sc = p.scalar /\ es = [Unescaped EXCEPT ![Len(s)] = TRUE]
  OBVIOUS
<1>3. Has(q, Pushed(s, "special"), p.expecting, p.tok_last, TRUE, ns, <<c>>, es, sc)
  <2>1. Live(p) /\ ValueDue(p.stack) /\ Room(p.stack) /\ p.can_insert = TRUE /\ c \in DOMAIN Literals \cup OutOfRange
    BY DEF Ready
  <2>2. q = Ctx(Pushed(p.stack, "special"), p.expecting, p.tok_last, TRUE, p.nodes, <<c>>,
                [p.escapes EXCEPT ![Len(p.stack)] = TRUE], p.scalar)
    BY ONLY <1>1, <2>1, SpecialIs
  <2>3. p.escapes = Unescaped
    BY DEF Ready
  <2>4. q = Ctx(Pushed(s, "special"), p.expecting, p.tok_last, TRUE, ns, <<c>>, es, sc)
    BY ONLY <1>2, <2>2, <2>3
  <2> QED BY ONLY <2>4, HasAll
<1>4. /\ q.stack # <<>> /\ Topmost(q.stack).type = "special" /\ Front(q.stack) = Bumped(s)
      /\ level(q) = Len(s)
  <2>1. Room(s)
    BY <1>2 DEF Ready
  <2>2. PICK type : type = "special"
    OBVIOUS
  <2>3. /\ Pushed(s, type) # <<>> /\ Topmost(Pushed(s, type)) = Slot(type) /\ Slot(type).type = type
        /\ Len(Pushed(s, type)) = Len(s) + 1 /\ Len(s) \in 1..(Levels - 1)
        /\ Front(Pushed(s, type)) = Bumped(s)
    BY <2>1, <2>2, PushedTop
  <2>4. (Len(s) + 1) - 1 = Len(s)
    BY ONLY <2>3
  <2> QED BY ONLY <1>3, <2>2, <2>3, <2>4 DEF Has, level
<1>5. Outer(Bumped(s))
  <2>1. Outer(s)
    BY <1>2 DEF Ready, ValueDue
  <2>2. /\ Bumped(s) \in Seq(Slots) /\ Len(Bumped(s)) = Len(s) /\ Bumped(s)[Len(s)].type = s[Len(s)].type
    BY ONLY <2>1, BumpedIs DEF Outer
  <2>3. Bumped(s) # <<>>
    BY ONLY <2>1, <2>2, EmptySeq DEF Outer
  <2> QED BY ONLY <2>1, <2>2, <2>3 DEF Outer, Topmost
<1>6. PICK r : r = Valued(p, Literals[c])
  OBVIOUS
<1>7. ASSUME NEW t \in Follows PROVE Lex(q, t) = Lex(r, t)
  <2>1. /\ Live(q) /\ Takes(q.nodes) /\ Free(q.nodes) /\ q.chars = <<c>> /\ q.nodes = ns
        /\ q.escapes = es /\ q.scalar = sc
    BY <1>2, <1>3 DEF Has, Ready
  <2>2. Lex(q, t) = Lex(Ctx(Front(q.stack), ",", "", FALSE, With(q.nodes, Literals[c]), <<>>,
                            [q.escapes EXCEPT ![level(q)] = FALSE], q.scalar), t)
    <3>1. t \in Whitespace \cup {",", "]", "}"}
      BY <1>7 DEF Follows
    <3>2. c \in DOMAIN Literals \ OutOfRange
      OBVIOUS
    <3>3. Outer(Front(q.stack)) /\ q.stack # <<>> /\ Topmost(q.stack).type = "special"
      BY ONLY <1>4, <1>5
    <3> QED BY ONLY <2>1, <3>1, <3>2, <3>3, SpecialEnds
  <2>3. [es EXCEPT ![Len(s)] = FALSE] = Unescaped
    <3>1. PICK l, u : l = Len(s) /\ u = Unescaped
      OBVIOUS
    <3>2. [u EXCEPT ![l] = FALSE] = u
      BY <3>1 DEF Unescaped
    <3>3. [[u EXCEPT ![l] = TRUE] EXCEPT ![l] = FALSE] = u
      BY ONLY <3>1, <3>2 DEF Unescaped
    <3> QED BY ONLY <1>2, <3>1, <3>3
  <2> QED BY ONLY <1>2, <1>4, <1>6, <2>1, <2>2, <2>3 DEF Valued
<1>8. Lexes(p, <<c>>, q) /\ IsText(<<c>>)
  BY <1>1, ReadsOne
<1>9. q.scalar = p.scalar
  BY ONLY <1>2, <1>3 DEF Has
<1>10. SameAfter(q, r)
  BY <1>7 DEF SameAfter
<1> QED BY ONLY <1>6, <1>8, <1>9, <1>10 DEF Fills

\* A text that is read as a value in the node that waits for it is one.
LEMMA ValuedFills ==
    ASSUME NEW p, NEW z, IsText(z), NEW m, Lexes(p, z, Valued(p, m))
    PROVE  Fills(p, z, m)
<1>1. PICK r : r = Valued(p, m)
  OBVIOUS
<1>2. r.scalar = p.scalar
  BY <1>1 DEF Valued, Ctx
<1>3. SameAfter(r, r)
  BY DEF SameAfter
<1> QED BY <1>1, <1>2, <1>3 DEF Fills

\* What is written of a string is a sequence of tokens.
LEMMA QuotedText ==
    ASSUME NEW str, IsText(str)
    PROVE  IsText(Quoted(str))
<1>1. PICK a : a = "\""
  OBVIOUS
<1>2. PICK U : U = {Escape(str[i]) : i \in DOMAIN str} \cup {a}
  OBVIOUS
<1>3. PICK n \in Nat : DOMAIN str = 1..n
  BY DEF IsText
<1>4. PICK y : y = [i \in DOMAIN str |-> Escape(str[i])]
  OBVIOUS
<1>5. y \in Seq(U) /\ <<a>> \in Seq(U)
  BY ONLY <1>2, <1>3, <1>4
<1>6. (<<a>> \o y) \o <<a>> \in Seq(U)
  BY ONLY <1>5
<1>7. IsText((<<a>> \o y) \o <<a>>)
  BY ONLY <1>6, OfItsOwn DEF IsText
<1> QED BY <1>1, <1>4, <1>7, Zenon DEF Quoted

\* A string is.
LEMMA StringFills ==
    ASSUME NEW p, Ready(p), Topmost(p.stack).type # "none", NEW str, IsPlain(str)
    PROVE  Fills(p, Quoted(str), NewStringNode(str))
<1>1. PICK m : m = NewStringNode(str)
  OBVIOUS
<1>2. Lexes(p, Quoted(str), Valued(p, m))
  BY <1>1, StringRead
<1>3. IsText(Quoted(str))
  BY QuotedText DEF IsPlain
<1> QED BY <1>1, <1>2, <1>3, ValuedFills

\* What follows a value is read from the context after it.
LEMMA FillsOn ==
    ASSUME NEW p, NEW y, NEW m, Fills(p, y, m), NEW z, IsText(z), z # <<>>, z[1] \in Follows,
           NEW r, Lexes(Valued(p, m), z, r)
    PROVE  Lexes(p, y \o z, r) /\ IsText(y \o z)
<1>1. PICK q : Lexes(p, y, q) /\ SameAfter(q, Valued(p, m))
  BY DEF Fills
<1>2. Lex(Valued(p, m), z[1]) = Lex(q, z[1])
  BY <1>1 DEF SameAfter
<1>3. Lexes(q, z, r)
  BY <1>2, ReadsAlike
<1>4. IsText(y)
  BY DEF Fills
<1> QED BY <1>1, <1>3, <1>4, ReadsOn

\* One text and a value after it.
LEMMA FillsAfter ==
    ASSUME NEW p, NEW y, IsText(y), NEW q, Lexes(p, y, q), NEW z, NEW m, Fills(q, z, m),
           NEW n, Valued(q, m) = n
    PROVE  IsText(y \o z) /\ \E r : Lexes(p, y \o z, r) /\ SameAfter(r, n)
<1>1. PICK r : Lexes(q, z, r) /\ SameAfter(r, n)
  BY DEF Fills
<1>2. IsText(z)
  BY DEF Fills
<1> QED BY <1>1, <1>2, ReadsOn


\* The stack within a container that has been given some values and keys.
Items(s, type, k) == Append(Bumped(s), [type |-> type, nelem |-> k])

Inside(t, s, type, k) ==
    /\ Outer(t) /\ Topmost(t).type = type /\ Topmost(t).nelem = k /\ Len(t) = Len(s) + 1 /\ Len(s) \in Nat
    /\ Front(t) = Bumped(s) /\ Bumped(t) = Items(s, type, k + 1)
    /\ Pushed(s, type) = Items(s, type, 0)

\* The stack while a container is open: its state is on top, the states below are as they were.
LEMMA ItemsAre ==
    ASSUME NEW s, Room(s), NEW type \in {"object", "list"}, NEW k \in Nat, NEW t, t = Items(s, type, k)
    PROVE  Inside(t, s, type, k)
<1>1. PICK b : b = Bumped(s)
  OBVIOUS
<1>2. b \in Seq(Slots) /\ Len(b) = Len(s) /\ Len(s) \in Nat
  BY <1>1, BumpedIs DEF Room
<1>3. PICK n \in Nat : n = Len(b)
  BY <1>2
<1>4. PICK e : e = [type |-> type, nelem |-> k]
  OBVIOUS
<1>5. e \in Slots /\ e.type = type /\ e.nelem = k
  BY <1>4 DEF Slots
<1>6. t = Append(b, e)
  BY <1>1, <1>4 DEF Items
<1>7. t \in Seq(Slots) /\ Len(t) = n + 1 /\ t[n + 1] = e /\ (\A i \in 1..n : t[i] = b[i]) /\ t # <<>> /\ Front(t) = b
  BY <1>2, <1>3, <1>5, <1>6 DEF Front
<1>8. Topmost(t) = e /\ Outer(t)
  BY <1>3, <1>5, <1>7 DEF Topmost, Outer
<1>9. Bumped(t) = Items(s, type, k + 1)
  <2>1. PICK f : f = [type |-> type, nelem |-> k + 1]
    OBVIOUS
  <2>2. [e EXCEPT !.nelem = @ + 1] = f
    BY <1>4, <2>1
  <2>3. Bumped(t) = [t EXCEPT ![n + 1] = f]
    BY <1>7, <2>2 DEF Bumped
  <2>4. f \in Slots
    BY <2>1 DEF Slots
  <2>5. [t EXCEPT ![n + 1] = f] = Append(b, f)
    <3>1. PICK g : g = [t EXCEPT ![n + 1] = f]
      OBVIOUS
    <3>2. PICK h : h = Append(b, f)
      OBVIOUS
    <3>3. g \in Seq(Slots) /\ Len(g) = n + 1 /\ g[n + 1] = f /\ \A i \in 1..n : g[i] = b[i]
      BY ONLY <1>3, <1>7, <2>4, <3>1
    <3>4. h \in Seq(Slots) /\ Len(h) = n + 1 /\ h[n + 1] = f /\ \A i \in 1..n : h[i] = b[i]
      BY ONLY <1>2, <1>3, <2>4, <3>2
    <3>5. ASSUME NEW i \in 1..(n + 1) PROVE g[i] = h[i]
      BY ONLY <1>3, <3>3, <3>4, <3>5
    <3>6. g = h
      BY ONLY <1>3, <3>3, <3>4, <3>5, SeqEqual
    <3> QED BY <3>1, <3>2, <3>6
  <2> QED BY <1>1, <2>1, <2>3, <2>5 DEF Items
<1>10. Pushed(s, type) = Items(s, type, 0)
  BY DEF Pushed, Items, Slot
<1> QED BY <1>1, <1>2, <1>3, <1>5, <1>7, <1>8, <1>9, <1>10 DEF Inside

\* A node more on the stack of nodes leaves those below alone.
LEMMA OneMore ==
    \A xs, kv, bs : xs \in Seq(Range(xs)) /\ bs = Append(xs, kv) =>
        /\ bs \in Seq(Range(bs)) /\ bs # <<>> /\ Len(bs) = Len(xs) + 1 /\ bs[Len(bs)] = kv
        /\ \A i \in 1..Len(xs) : bs[i] = xs[i]
        /\ \A j \in Nat : j <= Len(xs) => SubSeq(bs, 1, j) = SubSeq(xs, 1, j)
<1> TAKE xs, kv, bs
<1> HAVE xs \in Seq(Range(xs)) /\ bs = Append(xs, kv)
<1>1. xs \in Seq(Range(xs)) /\ bs = Append(xs, kv)
  OBVIOUS
<1>2. bs \in Seq(Range(bs))
  BY ONLY <1>1, AppendIs
<1>3. bs # <<>> /\ Len(bs) = Len(xs) + 1 /\ bs[Len(bs)] = kv
  BY ONLY <1>1, AppendIs
<1>4. \A i \in 1..Len(xs) : bs[i] = xs[i]
  BY ONLY <1>1, AppendIs
<1>5. \A j \in Nat : j <= Len(xs) => SubSeq(bs, 1, j) = SubSeq(xs, 1, j)
  BY ONLY <1>1, AppendIs
<1> QED BY ONLY <1>2, <1>3, <1>4, <1>5

\* The node on top.
LEMMA TopNode ==
    ASSUME NEW ns, IsText(ns), NEW a, NEW xs, xs = Append(ns, a), NEW k \in Nat, k = Len(ns)
    PROVE  IsText(xs) /\ xs # <<>> /\ Len(xs) = k + 1 /\ xs[k + 1] = a /\ SubSeq(xs, 1, k) = ns
<1>1. ns \in Seq(Range(ns)) /\ xs = Append(ns, a)
  BY DEF IsText
<1>2. xs \in Seq(Range(xs))
  BY ONLY <1>1, AppendIs
<1>3. xs # <<>> /\ Len(xs) = Len(ns) + 1 /\ xs[Len(xs)] = a
  BY ONLY <1>1, AppendIs
<1>4. SubSeq(xs, 1, Len(ns)) = ns
  BY ONLY <1>1, AppendIs
<1> QED BY <1>2, <1>3, <1>4 DEF IsText

\* The nodes within a list,
ListNodes(ns, a, xs) == Takes(xs) /\ \A m : With(xs, m) = Append(ns, Node_ArrayAppend(a, m))

\* The stack of nodes while a list is open: its node is on top and takes the values.
LEMMA NodesAre ==
    ASSUME NEW ns, IsText(ns), NEW a, a.type = "array", NEW xs, xs = Append(ns, a)
    PROVE  ListNodes(ns, a, xs)
<1>1. PICK k \in Nat : k = Len(ns)
  BY DEF IsText
<1>2. IsText(xs) /\ xs # <<>> /\ Len(xs) = k + 1 /\ xs[k + 1] = a /\ SubSeq(xs, 1, k) = ns
  BY <1>1, TopNode
<1>3. (k + 1) - 1 = k
  OBVIOUS
<1>4. Takes(xs)
  BY <1>2 DEF Takes, IsText
<1>5. ASSUME NEW m PROVE With(xs, m) = Append(SubSeq(xs, 1, k), Node_ArrayAppend(a, m))
  BY <1>2, <1>3 DEF With
<1> QED BY <1>2, <1>4, <1>5 DEF ListNodes

\* and within an object, with the key of the value.
KeyNodes(ns, a, key, bs) ==
    Takes(bs) /\ \A m : With(bs, m) = Append(ns, Node_DictSetKeyVal(a, KeyVal(key, m)))

\* The stack of nodes while a member is read: its key is on top, its object below.
LEMMA KeyNodesAre ==
    ASSUME NEW ns, IsText(ns), NEW a, NEW key, NEW bs, bs = Append(Append(ns, a), KeyVal(key, NullNode))
    PROVE  KeyNodes(ns, a, key, bs)
<1>1. PICK k \in Nat : k = Len(ns)
  BY DEF IsText
<1>2. PICK xs : xs = Append(ns, a)
  OBVIOUS
<1>3. IsText(xs) /\ Len(xs) = k + 1 /\ xs[k + 1] = a /\ SubSeq(xs, 1, k) = ns
  BY <1>1, <1>2, TopNode
<1>4. PICK kv : kv = KeyVal(key, NullNode)
  OBVIOUS
<1>5. kv.type = "keyval" /\ \A m : [kv EXCEPT !.entries = <<m>>] = KeyVal(key, m)
  BY <1>4 DEF KeyVal, New
<1>6. bs = Append(xs, kv) /\ xs \in Seq(Range(xs))
  BY <1>2, <1>3, <1>4 DEF IsText
<1>7. /\ IsText(bs) /\ bs # <<>> /\ Len(bs) = k + 2 /\ bs[k + 2] = kv /\ bs[k + 1] = a /\ SubSeq(bs, 1, k) = ns
  <2>1. bs \in Seq(Range(bs))
    BY ONLY <1>6, OneMore
  <2>2. bs # <<>> /\ Len(bs) = Len(xs) + 1 /\ bs[Len(bs)] = kv
    BY ONLY <1>6, OneMore
  <2>3. \A i \in 1..Len(xs) : bs[i] = xs[i]
    BY ONLY <1>6, OneMore
  <2>4. \A j \in Nat : j <= Len(xs) => SubSeq(bs, 1, j) = SubSeq(xs, 1, j)
    BY ONLY <1>6, OneMore
  <2>5. k + 1 \in 1..(k + 1) /\ k <= k + 1 /\ (k + 1) + 1 = k + 2
    OBVIOUS
  <2> QED BY <1>3, <2>1, <2>2, <2>3, <2>4, <2>5 DEF IsText
<1>8. (k + 2) - 1 = k + 1 /\ (k + 2) - 2 = k /\ k + 2 > 1
  OBVIOUS
<1>9. Takes(bs)
  BY <1>5, <1>7, <1>8 DEF Takes, IsText
<1>10. ASSUME NEW m
       PROVE  With(bs, m) = Append(SubSeq(bs, 1, k), Node_DictSetKeyVal(a, [kv EXCEPT !.entries = <<m>>]))
  BY <1>5, <1>7, <1>8 DEF With
<1>11. ASSUME NEW m PROVE With(bs, m) = Append(ns, Node_DictSetKeyVal(a, KeyVal(key, m)))
  BY ONLY <1>5, <1>7, <1>10
<1> QED BY <1>9, <1>11 DEF KeyNodes

-----------------------------------------------------------------------------
(* Reading containers.                                                     *)

\* Within a container: after a value, and where the next item begins.
Between(s, type, k, ns, a, sc) ==
    Ctx(Items(s, type, k), ",", "", FALSE, Append(ns, a), <<>>, Unescaped, sc)

ItemDue(q, s, type, k, ns, a, sc) ==
    /\ Live(q) /\ q.stack = Items(s, type, k) /\ q.nodes = Append(ns, a)
    /\ q.chars = <<>> /\ q.escapes = Unescaped /\ q.scalar = sc
    /\ type = "list" => q.can_insert = TRUE
    /\ type = "object" => q.expecting = "\""

\* Whitespace after a token between values.
LEMMA TokenSpace ==
    ASSUME NEW p, NEW c, NEW q, Lex(p, c) = q, Live(q), Outer(q.stack),
           NEW w, IsText(w), Range(w) \subseteq Whitespace
    PROVE  Lexes(p, <<c>> \o w, q) /\ IsText(<<c>> \o w)
<1>1. Lexes(p, <<c>>, q) /\ IsText(<<c>>)
  BY ReadsOne
<1>2. Lexes(q, w, q)
  BY SpaceRead
<1> QED BY ONLY <1>1, <1>2, ReadsOn, IsText(w)

\* The bracket that opens a container, and what is written after it.
LEMMA Opens ==
    ASSUME NEW p, Ready(p), NEW w, IsText(w), Range(w) \subseteq Whitespace
    PROVE  /\ \E q : /\ Lexes(p, <<"[">> \o w, q) /\ IsText(<<"[">> \o w) /\ q.tok_last = ""
                     /\ ItemDue(q, p.stack, "list", 0, p.nodes, NewArrayNode(<<>>), p.scalar)
           /\ \E q : /\ Lexes(p, <<"{">> \o w, q) /\ IsText(<<"{">> \o w) /\ q.tok_last = ""
                     /\ ItemDue(q, p.stack, "object", 0, p.nodes, NewDictNode(<<>>, <<>>), p.scalar)
<1>1. /\ Live(p) /\ ValueDue(p.stack) /\ Room(p.stack) /\ p.can_insert = TRUE /\ Free(p.nodes)
      /\ p.chars = <<>> /\ p.escapes = Unescaped
  BY Zenon DEF Ready
<1>2. PICK x : x = Lex(p, "[")
  BY Zenon
<1>3. PICK y : y = Lex(p, "{")
  BY Zenon
<1>4. x = Ctx(Pushed(p.stack, "list"), p.expecting, "", TRUE, Append(p.nodes, NewArrayNode(<<>>)), p.chars, p.escapes, p.scalar)
  BY ONLY <1>1, <1>2, OpenIs, Zenon
<1>5. y = Ctx(Pushed(p.stack, "object"), "\"", "", TRUE, Append(p.nodes, NewDictNode(<<>>, <<>>)), p.chars, p.escapes, p.scalar)
  BY ONLY <1>1, <1>3, OpenIs, Zenon
<1>6. 0 \in Nat
  BY ONLY <1>1
<1>7. Outer(Items(p.stack, "list", 0)) /\ Pushed(p.stack, "list") = Items(p.stack, "list", 0)
  <2>1. "list" \in {"object", "list"}
    OBVIOUS
  <2>2. PICK t : t = Items(p.stack, "list", 0)
    OBVIOUS
  <2>3. Inside(t, p.stack, "list", 0)
    BY ONLY <1>1, <1>6, <2>1, <2>2, ItemsAre
  <2> QED BY ONLY <2>2, <2>3 DEF Inside
<1>8. Outer(Items(p.stack, "object", 0)) /\ Pushed(p.stack, "object") = Items(p.stack, "object", 0)
  <2>1. "object" \in {"object", "list"}
    OBVIOUS
  <2>2. PICK t : t = Items(p.stack, "object", 0)
    OBVIOUS
  <2>3. Inside(t, p.stack, "object", 0)
    BY ONLY <1>1, <1>6, <2>1, <2>2, ItemsAre
  <2> QED BY ONLY <2>2, <2>3 DEF Inside
<1>9. Has(x, Items(p.stack, "list", 0), p.expecting, "", TRUE, Append(p.nodes, NewArrayNode(<<>>)), <<>>, Unescaped, p.scalar)
  BY ONLY <1>1, <1>4, <1>7, HasAll, Zenon
<1>10. Has(y, Items(p.stack, "object", 0), "\"", "", TRUE, Append(p.nodes, NewDictNode(<<>>, <<>>)), <<>>, Unescaped, p.scalar)
  BY ONLY <1>1, <1>5, <1>8, HasAll, Zenon
<1>11. Lexes(p, <<"[">> \o w, x) /\ IsText(<<"[">> \o w)
  <2>1. Live(x) /\ Outer(x.stack)
    BY <1>7, <1>9, Zenon DEF Has
  <2> QED BY ONLY <1>2, <2>1, TokenSpace, IsText(w), Range(w) \subseteq Whitespace, Zenon
<1>12. Lexes(p, <<"{">> \o w, y) /\ IsText(<<"{">> \o w)
  <2>1. Live(y) /\ Outer(y.stack)
    BY <1>8, <1>10, Zenon DEF Has
  <2> QED BY ONLY <1>3, <2>1, TokenSpace, IsText(w), Range(w) \subseteq Whitespace, Zenon
<1>13. x.tok_last = "" /\ ItemDue(x, p.stack, "list", 0, p.nodes, NewArrayNode(<<>>), p.scalar)
  <2>1. "list" # "object"
    OBVIOUS
  <2> QED BY <1>9, <2>1, Zenon DEF Has, ItemDue
<1>14. y.tok_last = "" /\ ItemDue(y, p.stack, "object", 0, p.nodes, NewDictNode(<<>>, <<>>), p.scalar)
  <2>1. "list" # "object"
    OBVIOUS
  <2> QED BY <1>10, <2>1, Zenon DEF Has, ItemDue
<1>15. \E q : /\ Lexes(p, <<"[">> \o w, q) /\ IsText(<<"[">> \o w) /\ q.tok_last = ""
              /\ ItemDue(q, p.stack, "list", 0, p.nodes, NewArrayNode(<<>>), p.scalar)
  BY ONLY <1>11, <1>13, Zenon
<1>16. \E q : /\ Lexes(p, <<"{">> \o w, q) /\ IsText(<<"{">> \o w) /\ q.tok_last = ""
              /\ ItemDue(q, p.stack, "object", 0, p.nodes, NewDictNode(<<>>, <<>>), p.scalar)
  BY ONLY <1>12, <1>14, Zenon
<1> QED BY ONLY <1>15, <1>16

\* The comma between the items, and what is written after it.
LEMMA AfterComma ==
    ASSUME NEW s, Room(s), NEW type \in {"object", "list"}, NEW k \in Nat, NEW ns, NEW a, NEW sc,
           NEW w, IsText(w), Range(w) \subseteq Whitespace
    PROVE  IsText(<<",">> \o w) /\ \E q : Lexes(Between(s, type, k, ns, a, sc), <<",">> \o w, q)
                                            /\ ItemDue(q, s, type, k, ns, a, sc)
<1>1. PICK p : p = Between(s, type, k, ns, a, sc)
  OBVIOUS
<1>2. Has(p, Items(s, type, k), ",", "", FALSE, Append(ns, a), <<>>, Unescaped, sc)
  BY <1>1, HasAll, Zenon DEF Between
<1>3. PICK t : t = Items(s, type, k)
  OBVIOUS
<1>4. Outer(t) /\ Topmost(t).type = type
  <2>1. Inside(t, s, type, k)
    BY ONLY <1>3, ItemsAre, Room(s), k \in Nat, type \in {"object", "list"}
  <2> QED BY ONLY <2>1 DEF Inside
<1>5. /\ Live(p) /\ p.stack = t /\ p.expecting = "," /\ p.can_insert = FALSE /\ p.nodes = Append(ns, a)
      /\ p.chars = <<>> /\ p.escapes = Unescaped /\ p.scalar = sc
  BY <1>2, <1>3, Zenon DEF Has
<1>6. PICK q : q = Lex(p, ",")
  OBVIOUS
<1>7. q = Ctx(p.stack, "\"", ",", p.can_insert \/ Topmost(p.stack).type # "object",
              p.nodes, p.chars, p.escapes, p.scalar)
  BY ONLY <1>4, <1>5, <1>6, CommaIs, Zenon
<1>8. Has(q, p.stack, "\"", ",", p.can_insert \/ Topmost(p.stack).type # "object",
          p.nodes, p.chars, p.escapes, p.scalar)
  BY ONLY <1>7, HasAll, Zenon
<1>9. /\ Live(q) /\ q.stack = t /\ q.nodes = Append(ns, a) /\ q.chars = <<>> /\ q.escapes = Unescaped
      /\ q.scalar = sc /\ q.expecting = "\"" /\ q.can_insert = (p.can_insert \/ Topmost(p.stack).type # "object")
  BY <1>5, <1>8, Zenon DEF Has
<1>10. type = "list" => q.can_insert = TRUE
  <2> SUFFICES ASSUME type = "list" PROVE q.can_insert = TRUE
    OBVIOUS
  <2>1. "list" # "object"
    OBVIOUS
  <2>2. Topmost(p.stack).type # "object"
    BY ONLY <1>4, <1>5, <2>1, type = "list"
  <2> QED BY ONLY <1>9, <2>2
<1>11. ItemDue(q, s, type, k, ns, a, sc)
  BY <1>3, <1>9, <1>10, Zenon DEF ItemDue
<1>12. Lexes(p, <<",">> \o w, q) /\ IsText(<<",">> \o w)
  <2>1. Live(q) /\ Outer(q.stack)
    BY ONLY <1>4, <1>9
  <2> QED BY ONLY <1>6, <2>1, TokenSpace, IsText(w), Range(w) \subseteq Whitespace, Zenon
<1> QED BY ONLY <1>1, <1>11, <1>12, Zenon

\* The values of a list.
ListTakes(q, s, k, ns, a, sc) ==
    /\ Ready(q) /\ Topmost(q.stack).type = "list" /\ Len(q.stack) = Len(s) + 1 /\ Len(q.nodes) = Len(ns) + 1
    /\ \A m : Valued(q, m) = Between(s, "list", k + 1, ns, Node_ArrayAppend(a, m), sc)

\* A value read where a list awaits one goes to the end of its node.
LEMMA ListItem ==
    ASSUME NEW q, NEW s, Room(s), Len(s) + 1 < Levels, NEW k \in Nat, NEW ns, IsText(ns), Len(ns) + 1 < Levels,
           NEW a, a.type = "array", NEW sc,
           ItemDue(q, s, "list", k, ns, a, sc)
    PROVE  ListTakes(q, s, k, ns, a, sc)
<1>1. /\ Live(q) /\ q.stack = Items(s, "list", k) /\ q.nodes = Append(ns, a)
      /\ q.chars = <<>> /\ q.escapes = Unescaped /\ q.scalar = sc /\ q.can_insert = TRUE
  BY Zenon DEF ItemDue
<1>2. PICK t : t = Items(s, "list", k)
  OBVIOUS
<1>3. "list" \in {"object", "list"} /\ "list" # "object"
  OBVIOUS
<1>4. Inside(t, s, "list", k)
  BY ONLY <1>2, <1>3, ItemsAre, Room(s), k \in Nat
<1>5. /\ Outer(t) /\ Topmost(t).type = "list" /\ Len(t) = Len(s) + 1
      /\ Bumped(t) = Items(s, "list", k + 1)
  BY ONLY <1>4 DEF Inside
<1>6. q.stack = t
  BY ONLY <1>1, <1>2
<1>7. ValueDue(q.stack) /\ Room(q.stack)
  BY <1>3, <1>5, <1>6 DEF ValueDue, Room, Outer
<1>8. PICK xs : xs = Append(ns, a)
  OBVIOUS
<1>11. Takes(xs) /\ \A m : With(xs, m) = Append(ns, Node_ArrayAppend(a, m))
  <2>1. ListNodes(ns, a, xs)
    BY ONLY <1>8, NodesAre, IsText(ns), a.type = "array"
  <2> QED BY ONLY <2>1 DEF ListNodes
<1>12. Len(q.nodes) = Len(ns) + 1 /\ Free(q.nodes)
  <2>1. q.nodes = Append(ns, a)
    BY ONLY <1>1
  <2> QED BY ONLY <2>1, AppendIs, IsText(ns), Len(ns) + 1 < Levels DEF IsText, Free
<1>9. Ready(q)
  <2>1. Topmost(q.stack).type = "object" => q.tok_last = ":"
    BY ONLY <1>3, <1>5, <1>6
  <2> QED BY <1>1, <1>7, <1>8, <1>11, <1>12, <2>1, Zenon DEF Ready
<1>10. ASSUME NEW m PROVE Valued(q, m) = Between(s, "list", k + 1, ns, Node_ArrayAppend(a, m), sc)
  <2>1. With(Append(ns, a), m) = Append(ns, Node_ArrayAppend(a, m))
    BY ONLY <1>8, <1>11
  <2> QED BY <1>1, <1>5, <1>6, <2>1, Zenon DEF Valued, Between
<1> QED BY ONLY <1>5, <1>6, <1>9, <1>10, <1>12 DEF ListTakes

\* The closing bracket of a container.
LEMMA Closes ==
    ASSUME NEW q, NEW s, Room(s), NEW k \in Nat, NEW ns, Takes(ns), NEW a, NEW sc,
           Live(q), q.nodes = Append(ns, a), q.chars = <<>>, q.escapes = Unescaped, q.scalar = sc, q.tok_last # ",",
           NEW w, IsText(w), Range(w) \subseteq Whitespace, NEW r,
           r = Ctx(Bumped(s), ",", "", FALSE, With(ns, a), <<>>, Unescaped, sc)
    PROVE  /\ q.stack = Items(s, "list", k) => Lexes(q, w \o <<"]">>, r) /\ IsText(w \o <<"]">>)
           /\ q.stack = Items(s, "object", k) /\ k % 2 = 0 => Lexes(q, w \o <<"}">>, r) /\ IsText(w \o <<"}">>)
<1>1. ASSUME NEW type \in {"object", "list"}, q.stack = Items(s, type, k), type = "object" => k % 2 = 0,
             NEW c, Outer(q.stack) => Lex(q, c) = Close(q, type)
      PROVE  Lexes(q, w \o <<c>>, r) /\ IsText(w \o <<c>>)
  <2>1. PICK t : t = Items(s, type, k)
    OBVIOUS
  <2>2. Inside(t, s, type, k)
    BY ONLY <1>1, <2>1, ItemsAre, Room(s), k \in Nat
  <2>3. Outer(q.stack) /\ Topmost(q.stack).type = type /\ Topmost(q.stack).nelem = k /\ Front(q.stack) = Bumped(s)
    BY ONLY <1>1, <2>1, <2>2 DEF Inside
  <2>4. Close(q, type) = Ctx(Front(q.stack), ",", "", FALSE, With(ns, a), q.chars, q.escapes, q.scalar)
    <3>1. Outer(q.stack) /\ Topmost(q.stack).type = type /\ (type = "object" => Topmost(q.stack).nelem % 2 = 0)
      BY ONLY <1>1, <2>3
    <3> QED BY ONLY <3>1, CloseIs, Live(q), type \in {"object", "list"}, q.tok_last # ",", Takes(ns),
                    q.nodes = Append(ns, a), ZenonT(40)
  <2>5. Lex(q, c) = r
    BY ONLY <1>1, <2>3, <2>4, q.chars = <<>>, q.escapes = Unescaped, q.scalar = sc,
            r = Ctx(Bumped(s), ",", "", FALSE, With(ns, a), <<>>, Unescaped, sc)
  <2>6. Lexes(q, w, q)
    BY <2>3, SpaceRead
  <2>7. Lexes(q, <<c>>, r) /\ IsText(<<c>>)
    BY <2>5, ReadsOne
  <2> QED BY ONLY <2>6, <2>7, ReadsOn, IsText(w)
<1>2. /\ Outer(q.stack) => Lex(q, "]") = Close(q, "list")
      /\ Outer(q.stack) => Lex(q, "}") = Close(q, "object")
  BY ClosesAre, Zenon
<1>3. "list" \in {"object", "list"} /\ "object" \in {"object", "list"} /\ "list" # "object"
  OBVIOUS
<1>4. q.stack = Items(s, "list", k) => Lexes(q, w \o <<"]">>, r) /\ IsText(w \o <<"]">>)
  BY ONLY <1>1, <1>2, <1>3, Zenon
<1>5. q.stack = Items(s, "object", k) /\ k % 2 = 0 => Lexes(q, w \o <<"}">>, r) /\ IsText(w \o <<"}">>)
  BY ONLY <1>1, <1>2, <1>3, Zenon
<1> QED BY ONLY <1>4, <1>5

\* The keys of an object, each with its colon, and their values.
KeyTakes(r, s, k, ns, a, key, sc) ==
    /\ Ready(r) /\ Topmost(r.stack).type = "object" /\ Len(r.stack) = Len(s) + 1 /\ Len(r.nodes) = Len(ns) + 2
    /\ \A m : Valued(r, m) = Between(s, "object", k + 2, ns, Node_DictSetKeyVal(a, KeyVal(key, m)), sc)

\* A key and its colon leave the parser awaiting the value, which goes under the key.
LEMMA KeyItem ==
    ASSUME NEW q, NEW s, Room(s), Len(s) + 1 < Levels, NEW k \in Nat, k % 2 = 0, NEW ns, IsText(ns), Len(ns) + 2 < Levels,
           NEW a, NEW sc,
           ItemDue(q, s, "object", k, ns, a, sc), NEW key, IsPlain(key),
           NEW w, IsText(w), Range(w) \subseteq Whitespace, NEW y, y = Quoted(key) \o (<<":">> \o w)
    PROVE  IsText(y) /\ \E r : Lexes(q, y, r) /\ KeyTakes(r, s, k, ns, a, key, sc)
<1>1. /\ Live(q) /\ q.stack = Items(s, "object", k) /\ q.nodes = Append(ns, a)
      /\ q.chars = <<>> /\ q.escapes = Unescaped /\ q.scalar = sc /\ q.expecting = "\""
  BY Zenon DEF ItemDue
<1>2. PICK t : t = Items(s, "object", k)
  OBVIOUS
<1>3. PICK u : u = Items(s, "object", k + 1)
  OBVIOUS
<1>4. "object" \in {"object", "list"} /\ "object" # "none"
  OBVIOUS
<1>5. k + 1 \in Nat /\ (k + 1) % 2 = 1 /\ (k + 1) + 1 = k + 2
  BY ONLY k \in Nat, k % 2 = 0
<1>6. Inside(t, s, "object", k) /\ Inside(u, s, "object", k + 1)
  BY ONLY <1>2, <1>3, <1>4, <1>5, ItemsAre, Room(s), k \in Nat
<1>7. /\ Outer(t) /\ Topmost(t).type = "object" /\ Topmost(t).nelem = k /\ Len(t) = Len(s) + 1 /\ Len(s) \in Nat
      /\ Bumped(t) = u
  BY ONLY <1>3, <1>6 DEF Inside
<1>8. /\ Outer(u) /\ Topmost(u).type = "object" /\ Topmost(u).nelem = k + 1 /\ Len(u) = Len(s) + 1
  BY ONLY <1>6 DEF Inside
<1>9. Bumped(u) = Items(s, "object", k + 2)
  BY ONLY <1>5, <1>6 DEF Inside
<1>10. q.stack = t
  BY ONLY <1>1, <1>2
<1>11. Room(t) /\ Room(u)
  BY <1>7, <1>8 DEF Room, Outer
<1>12. PICK kv : kv = KeyVal(key, NullNode)
  OBVIOUS
<1>13. PICK x : x = Ctx(Bumped(q.stack), ":", "", FALSE, Append(q.nodes, kv), <<>>, Unescaped, q.scalar)
  OBVIOUS
<1>30. /\ Free(Append(ns, a))
       /\ Len(Append(Append(ns, a), kv)) = Len(ns) + 2 /\ Free(Append(Append(ns, a), kv))
  <2>1. PICK xs : xs = Append(ns, a)
    OBVIOUS
  <2>2. IsText(xs) /\ Len(xs) = Len(ns) + 1 /\ Len(ns) \in Nat
    BY ONLY <2>1, AppendIs, IsText(ns) DEF IsText
  <2>3. PICK ys : ys = Append(xs, kv)
    OBVIOUS
  <2>4. Len(ys) = Len(xs) + 1
    BY ONLY <2>2, <2>3, AppendIs DEF IsText
  <2>5. Levels \in Nat /\ Len(ns) + 2 < Levels
    BY DEF Room
  <2> QED BY ONLY <2>1, <2>2, <2>3, <2>4, <2>5 DEF Free
<1>14. Lexes(q, Quoted(key), x)
  <2>1. Outer(q.stack) /\ Room(q.stack) /\ Topmost(q.stack).type = "object" /\ Topmost(q.stack).nelem % 2 = 0
    BY ONLY <1>7, <1>10, <1>11, k % 2 = 0
  <2>2. Free(q.nodes)
    BY ONLY <1>1, <1>30
  <2> QED BY ONLY <1>1, <1>12, <1>13, <2>1, <2>2, KeyRead, IsPlain(key)
<1>15. Has(x, u, ":", "", FALSE, Append(Append(ns, a), kv), <<>>, Unescaped, sc)
  BY ONLY <1>1, <1>7, <1>10, <1>13, HasAll, Zenon
<1>16. /\ Live(x) /\ x.stack = u /\ x.expecting = ":" /\ x.nodes = Append(Append(ns, a), kv) /\ x.chars = <<>>
       /\ x.escapes = Unescaped /\ x.scalar = sc
  BY <1>15, Zenon DEF Has
<1>17. PICK r : r = Lex(x, ":")
  OBVIOUS
<1>18. r = Ctx(x.stack, "\"", ":", TRUE, x.nodes, x.chars, x.escapes, x.scalar)
  BY ONLY <1>8, <1>16, <1>17, ColonIs, Zenon
<1>19. Has(r, x.stack, "\"", ":", TRUE, x.nodes, x.chars, x.escapes, x.scalar)
  BY ONLY <1>18, HasAll, Zenon
<1>20. /\ Live(r) /\ r.stack = u /\ r.tok_last = ":" /\ r.can_insert = TRUE /\ r.nodes = Append(Append(ns, a), kv)
       /\ r.chars = <<>> /\ r.escapes = Unescaped /\ r.scalar = sc
  BY <1>16, <1>19, Zenon DEF Has
<1>21. Lexes(x, <<":">> \o w, r) /\ IsText(<<":">> \o w)
  <2>1. Live(r) /\ Outer(r.stack)
    BY ONLY <1>8, <1>20
  <2> QED BY ONLY <1>17, <2>1, TokenSpace, IsText(w), Range(w) \subseteq Whitespace, Zenon
<1>22. IsText(Quoted(key))
  BY QuotedText DEF IsPlain
<1>23. Lexes(q, Quoted(key) \o (<<":">> \o w), r) /\ IsText(Quoted(key) \o (<<":">> \o w))
  BY ONLY <1>14, <1>21, <1>22, ReadsOn
<1>24. /\ Takes(Append(Append(ns, a), kv))
       /\ \A m : With(Append(Append(ns, a), kv), m) = Append(ns, Node_DictSetKeyVal(a, KeyVal(key, m)))
  <2>1. PICK bs : bs = Append(Append(ns, a), KeyVal(key, NullNode))
    OBVIOUS
  <2>2. KeyNodes(ns, a, key, bs)
    BY ONLY <2>1, KeyNodesAre, IsText(ns)
  <2>3. Takes(bs) /\ \A m : With(bs, m) = Append(ns, Node_DictSetKeyVal(a, KeyVal(key, m)))
    BY ONLY <2>2 DEF KeyNodes
  <2> QED BY ONLY <1>12, <2>1, <2>3
<1>25. Ready(r)
  <2>1. ValueDue(r.stack) /\ Room(r.stack)
    BY <1>5, <1>8, <1>11, <1>20 DEF ValueDue
  <2> QED BY <1>20, <1>24, <1>30, <2>1, Zenon DEF Ready
<1>26. ASSUME NEW m
       PROVE  Valued(r, m) = Between(s, "object", k + 2, ns, Node_DictSetKeyVal(a, KeyVal(key, m)), sc)
  <2>1. With(Append(Append(ns, a), kv), m) = Append(ns, Node_DictSetKeyVal(a, KeyVal(key, m)))
    BY ONLY <1>24
  <2> QED BY <1>9, <1>20, <2>1, Zenon DEF Valued, Between
<1>27. Topmost(r.stack).type = "object" /\ Len(r.stack) = Len(s) + 1 /\ Len(r.nodes) = Len(ns) + 2
  BY ONLY <1>8, <1>20, <1>30
<1>28. KeyTakes(r, s, k, ns, a, key, sc)
  BY ONLY <1>25, <1>26, <1>27 DEF KeyTakes
<1>29. y = Quoted(key) \o (<<":">> \o w)
  BY Zenon
<1> QED BY ONLY <1>23, <1>28, <1>29, Zenon
=============================================================================
