-------------------------- MODULE ContainersProofs --------------------------
(***************************************************************************)
(* Proofs about NodeArray and NodeDict, that the buffers of arrays and     *)
(* dictionaries hold what they own, each once and nothing lost; and about  *)
(* Containers, that the array in memory does to its elements what the      *)
(* commands take its operations to do to a sequence, and the dictionary to *)
(* its keys and values what they take its operations to do to those.       *)
(***************************************************************************)
EXTENDS Containers, SequenceTheorems, WellFoundedInduction, TLAPS

-----------------------------------------------------------------------------
(* The capacity.                                                           *)

\* There is a least power of two above every length.
LEMMA NextPowerAbove ==
    ASSUME NEW n \in 1..MaxArray
    PROVE  NextPower(n) \in Nat /\ n <= NextPower(n)
<1> DEFINE above == {p \in Powers : n <= p}
<1>1. above \subseteq Nat /\ above # {}
  BY ArrayAssumption DEF ArrayAssumption
<1>2. \E p \in above : \A q \in above : <<q, p>> \notin OpToRel(<, Nat)
  <2> HIDE DEF above
  <2> QED BY <1>1, NatLessThanWellFounded, WFMin
<1>3. \E p \in Powers : n <= p /\ \A q \in Powers : n <= q => p <= q
  <2>1. PICK p \in above : \A q \in above : <<q, p>> \notin OpToRel(<, Nat)
    BY <1>2
  <2>2. ASSUME NEW q \in Powers, n <= q PROVE p <= q
    <3>1. q \in Nat /\ p \in Nat /\ q \in above
      BY <1>1, <2>2
    <3>2. ~(q < p)
      <4>1. ASSUME q < p PROVE <<q, p>> \in OpToRel(<, Nat)
        BY <3>1, <4>1 DEF OpToRel
      <4> QED BY <2>1, <3>1, <4>1
    <3> QED BY <3>1, <3>2
  <2> QED BY <2>1, <2>2
<1> QED BY <1>3, ArrayAssumption DEF NextPower, ArrayAssumption

\* One chunk more than the whole chunks of n.
LEMMA ChunksAbove ==
    ASSUME NEW n \in Nat, NEW c \in Nat \ {0}
    PROVE  (n \div c + 1) * c \in Nat /\ n <= (n \div c + 1) * c
<1>1. n = c * (n \div c) + (n % c) /\ n % c \in 0..(c - 1) /\ n \div c \in Nat
  OBVIOUS
<1> DEFINE d == n \div c
<1>2. c * d \in Nat /\ (d + 1) * c = c * d + c
  <2>1. d \in Nat BY <1>1
  <2> HIDE DEF d
  <2> QED BY <2>1
<1> QED BY <1>1, <1>2

\* Growing reaches the capacity asked for.
LEMMA NextCapAbove ==
    ASSUME NEW n \in 1..MaxArray
    PROVE  NextCap(n) \in Nat /\ n <= NextCap(n)
BY NextPowerAbove, ChunksAbove, ArrayAssumption DEF NextCap, ArrayAssumption

\* Making room leaves enough of it, and no less than before.
LEMMA RoomForAbove ==
    ASSUME ArrayTypeOK, WithinCapacity, NEW n \in Nat, len + n <= MaxArray
    PROVE  RoomFor(n) \in Nat /\ len + n <= RoomFor(n) /\ cap <= RoomFor(n)
<1>1. CASE cap >= len + n
  BY <1>1 DEF RoomFor, ArrayTypeOK
<1>2. CASE cap < len + n
  <2>1. len + n \in 1..MaxArray
    BY <1>2, ArrayAssumption DEF ArrayTypeOK, ArrayAssumption
  <2> QED BY <1>2, <2>1, NextCapAbove DEF RoomFor, ArrayTypeOK
<1> QED BY <1>1, <1>2 DEF ArrayTypeOK
-----------------------------------------------------------------------------
(* The elements after each way of changing them.                           *)

ArrayIInv == ArrayTypeOK /\ OwnedOnce /\ WithinCapacity

\* Inserting: the elements before the gap, the new ones, and the tail.
LEMMA InsertedElements ==
    ASSUME ArrayIInv, NEW at \in 0..len, NEW n \in Nat, len + n <= MaxArray,
           NEW xs \in [0..(n - 1) -> Nodes], InsertItems(at, xs, n)
    PROVE  /\ len' = len + n /\ len' \in Nat
           /\ cap' \in Nat /\ len' <= cap'
           /\ entries' \in [0..(cap' - 1) -> Nodes \cup {Garbage}]
           /\ \A i \in 0..(at - 1) : entries'[i] = entries[i]
           /\ \A i \in 0..(n - 1) : entries'[at + i] = xs[i]
           /\ \A i \in at..(len - 1) : entries'[i + n] = entries[i]
<1> DEFINE room == RoomFor(n)
           grown == Realloc(room)
           moved == Moved(grown, at + n, at, len - at)
<1>1. /\ len \in Nat /\ cap \in Nat /\ len <= cap /\ at \in Nat /\ at <= len
      /\ entries \in [0..(cap - 1) -> Nodes \cup {Garbage}]
  BY DEF ArrayIInv, ArrayTypeOK, WithinCapacity
<1>2. room \in Nat /\ len + n <= room /\ cap <= room
  BY RoomForAbove DEF ArrayIInv
<1>3. cap' = room /\ len' = len + n /\ entries' = Copied(moved, at, xs, n)
  BY DEF InsertItems
<1> HIDE DEF room
<1>4. /\ grown \in [0..(room - 1) -> Nodes \cup {Garbage}]
      /\ \A i \in 0..(len - 1) : grown[i] = entries[i]
  BY <1>1, <1>2 DEF Realloc
<1> HIDE DEF grown
<1>5. /\ moved \in [0..(room - 1) -> Nodes \cup {Garbage}]
      /\ \A i \in 0..(room - 1) :
            moved[i] = IF at + n <= i /\ i < len + n THEN grown[i - n] ELSE grown[i]
  <2>1. \A i \in 0..(room - 1) : at + n <= i /\ i < at + n + (len - at)
            => at + (i - (at + n)) = i - n /\ i - n \in 0..(room - 1)
    BY <1>1, <1>2
  <2>2. DOMAIN grown = 0..(room - 1)
    BY <1>4
  <2>3. at + n + (len - at) = len + n
    BY <1>1
  <2> QED BY <1>4, <2>1, <2>2, <2>3 DEF Moved
<1> HIDE DEF moved
<1>6. /\ entries' \in [0..(room - 1) -> Nodes \cup {Garbage}]
      /\ \A i \in 0..(room - 1) :
            entries'[i] = IF at <= i /\ i < at + n THEN xs[i - at] ELSE moved[i]
  <2>1. \A i \in 0..(room - 1) : at <= i /\ i < at + n => i - at \in 0..(n - 1)
    BY <1>1, <1>2
  <2>2. DOMAIN moved = 0..(room - 1)
    BY <1>5
  <2> QED BY <1>3, <1>5, <2>1, <2>2 DEF Copied
<1>7. \A i \in 0..(at - 1) : entries'[i] = entries[i]
  <2>1. \A i \in 0..(at - 1) : i \in 0..(len - 1) /\ i \in 0..(room - 1) /\ ~(at <= i) /\ ~(at + n <= i)
    BY <1>1, <1>2
  <2> QED BY <1>4, <1>5, <1>6, <2>1
<1>8. \A i \in 0..(n - 1) : entries'[at + i] = xs[i]
  <2>1. \A i \in 0..(n - 1) : at + i \in 0..(room - 1) /\ at <= at + i /\ at + i < at + n /\ at + i - at = i
    BY <1>1, <1>2
  <2> QED BY <1>6, <2>1
<1>9. \A i \in at..(len - 1) : entries'[i + n] = entries[i]
  <2>1. ASSUME NEW i \in at..(len - 1) PROVE entries'[i + n] = entries[i]
    <3>1. /\ i \in 0..(len - 1) /\ i + n \in 0..(room - 1) /\ ~(i + n < at + n)
          /\ at + n <= i + n /\ i + n < len + n /\ i + n - n = i
      BY <1>1, <1>2
    <3>2. entries'[i + n] = moved[i + n]
      BY <1>6, <3>1
    <3>3. moved[i + n] = grown[i]
      BY <1>5, <3>1
    <3> QED BY <1>4, <3>1, <3>2, <3>3
  <2> QED BY <2>1
<1> QED BY <1>1, <1>2, <1>3, <1>6, <1>7, <1>8, <1>9

\* Elements that come from an array that owns its children, and from new ones
\* that are all different, are owned once.
LEMMA ArrayInsertKeeps ==
    ASSUME ArrayIInv, NEW at \in 0..len, NEW n \in Nat, len + n <= MaxArray,
           NEW xs \in Fresh(n), InsertItems(at, xs, n)
    PROVE  ArrayIInv'
<1>1. /\ xs \in [0..(n - 1) -> Nodes \ live]
      /\ \A i, j \in 0..(n - 1) : xs[i] = xs[j] => i = j
  BY DEF Fresh
<1>2. /\ len' = len + n /\ len' \in Nat
      /\ cap' \in Nat /\ len' <= cap'
      /\ entries' \in [0..(cap' - 1) -> Nodes \cup {Garbage}]
      /\ \A i \in 0..(at - 1) : entries'[i] = entries[i]
      /\ \A i \in 0..(n - 1) : entries'[at + i] = xs[i]
      /\ \A i \in at..(len - 1) : entries'[i + n] = entries[i]
  BY <1>1, InsertedElements
<1>3. live' = live \cup {xs[i] : i \in 0..(n - 1)}
  BY DEF InsertItems
<1>4. len \in Nat /\ at \in Nat /\ at <= len /\ live \subseteq Nodes
  BY DEF ArrayIInv, ArrayTypeOK
<1>5. ArrayTypeOK'
  BY <1>1, <1>2, <1>3, <1>4 DEF ArrayTypeOK, ArrayIInv, InsertItems, WithinCapacity
<1>6. WithinCapacity'
  <2>1. len + n <= RoomFor(n) /\ len + n \in Nat /\ RoomFor(n) \in Nat
    BY <1>2, <1>4, RoomForAbove DEF ArrayIInv
  <2>2. ~(len + n > RoomFor(n))
    BY <2>1
  <2>3. ~overrun'
    BY <2>2, Zenon DEF InsertItems, ArrayIInv, WithinCapacity
  <2> QED BY <1>2, <2>3 DEF WithinCapacity
<1>7. ASSUME NEW i \in 0..(len' - 1)
      PROVE  \/ i \in 0..(at - 1) /\ i \in 0..(len - 1) /\ entries'[i] = entries[i]
             \/ \E k \in 0..(n - 1) : i = at + k /\ entries'[i] = xs[k]
             \/ \E k \in at..(len - 1) : i = k + n /\ k \in 0..(len - 1) /\ entries'[i] = entries[k]
  <2>1. CASE i < at
    <3>1. i \in 0..(at - 1) /\ i \in 0..(len - 1)
      BY <1>4, <2>1
    <3> QED BY <1>2, <3>1
  <2>2. CASE at <= i /\ i < at + n
    <3>1. i - at \in 0..(n - 1) /\ i = at + (i - at)
      BY <1>4, <2>2
    <3> QED BY <1>2, <3>1
  <2>3. CASE at + n <= i
    <3>1. i - n \in at..(len - 1) /\ i - n \in 0..(len - 1) /\ i = (i - n) + n
      BY <1>2, <1>4, <2>3
    <3>2. entries'[(i - n) + n] = entries[i - n]
      BY <1>2, <3>1
    <3> QED BY <3>1, <3>2
  <2> QED BY <1>4, <2>1, <2>2, <2>3
<1>8. OwnedOnce'
  <2>1. ASSUME NEW i \in 0..(len' - 1) PROVE entries'[i] \in live'
    BY <1>1, <1>3, <1>7 DEF ArrayIInv, OwnedOnce
  <2>2. ASSUME NEW i \in 0..(len' - 1), NEW j \in 0..(len' - 1), entries'[i] = entries'[j]
        PROVE  i = j
    <3>1. \A k \in 0..(len - 1), l \in 0..(n - 1) : entries[k] # xs[l]
      BY <1>1 DEF ArrayIInv, OwnedOnce
    <3>2. \A k, l \in 0..(len - 1) : entries[k] = entries[l] => k = l
      BY DEF ArrayIInv, OwnedOnce
    <3>3. \A k \in at..(len - 1), l \in 0..(at - 1) : k \in 0..(len - 1) /\ l \in 0..(len - 1) /\ k # l
      BY <1>4
    <3> QED BY <1>1, <1>7, <2>2, <3>1, <3>2, <3>3
  <2>3. ASSUME NEW m \in live' PROVE \E i \in 0..(len' - 1) : entries'[i] = m
    <3>1. CASE m \in live
      <4>1. PICK k \in 0..(len - 1) : entries[k] = m
        BY <3>1 DEF ArrayIInv, OwnedOnce
      <4>2. CASE k < at
        <5>1. k \in 0..(at - 1) /\ k \in 0..(len' - 1)
          BY <1>2, <1>4, <4>2
        <5> QED BY <1>2, <4>1, <5>1
      <4>3. CASE at <= k
        <5>1. k \in at..(len - 1) /\ k + n \in 0..(len' - 1)
          BY <1>2, <1>4, <4>3
        <5>2. entries'[k + n] = entries[k]
          BY <1>2, <5>1
        <5> QED BY <4>1, <5>1, <5>2
      <4> QED BY <1>4, <4>2, <4>3
    <3>2. CASE m \notin live
      <4>1. PICK k \in 0..(n - 1) : m = xs[k]
        BY <1>3, <3>2
      <4>2. at + k \in 0..(len' - 1)
        BY <1>2, <1>4
      <4>3. entries'[at + k] = xs[k]
        BY <1>2
      <4> QED BY <4>1, <4>2, <4>3
    <3> QED BY <3>1, <3>2
  <2> QED BY <2>1, <2>2, <2>3 DEF OwnedOnce
<1> QED BY <1>5, <1>6, <1>8 DEF ArrayIInv

\* Appending, one element behind the last.
LEMMA ArrayAppendKeeps == ASSUME ArrayIInv, ArrayAppend PROVE ArrayIInv'
<1>1. PICK m \in Nodes \ live :
        /\ cap' = RoomFor(1)
        /\ entries' = [Realloc(RoomFor(1)) EXCEPT ![len] = m]
        /\ overrun' = (overrun \/ len >= RoomFor(1))
        /\ len' = len + 1
        /\ live' = live \cup {m}
  BY DEF ArrayAppend
<1>2. /\ len \in Nat /\ cap \in Nat /\ len <= cap
      /\ entries \in [0..(cap - 1) -> Nodes \cup {Garbage}]
      /\ live \subseteq Nodes
  BY DEF ArrayIInv, ArrayTypeOK, WithinCapacity
<1>3. RoomFor(1) \in Nat /\ len + 1 <= RoomFor(1) /\ cap <= RoomFor(1)
  BY RoomForAbove DEF ArrayIInv, ArrayAppend
<1>4. /\ entries' \in [0..(cap' - 1) -> Nodes \cup {Garbage}]
      /\ entries'[len] = m
      /\ \A i \in 0..(len - 1) : entries'[i] = entries[i]
  <2> DEFINE room == RoomFor(1)
  <2>1. room \in Nat /\ len + 1 <= room /\ cap <= room
    BY <1>3
  <2> HIDE DEF room
  <2>2. /\ Realloc(room) \in [0..(room - 1) -> Nodes \cup {Garbage}]
        /\ \A i \in 0..(len - 1) : Realloc(room)[i] = entries[i]
    BY <1>2, <2>1 DEF Realloc
  <2>3. len \in 0..(room - 1) /\ \A i \in 0..(len - 1) : i # len /\ i \in 0..(room - 1)
    BY <1>2, <2>1
  <2>4. entries' = [Realloc(room) EXCEPT ![len] = m] /\ cap' = room
    BY <1>1 DEF room
  <2> QED BY <2>2, <2>3, <2>4
<1>5. ArrayTypeOK'
  <2>1. overrun' \in BOOLEAN /\ live' \subseteq Nodes
    BY <1>1, <1>2
  <2>2. len' \in Nat /\ cap' \in Nat
    BY <1>1, <1>2, <1>3
  <2> QED BY <1>4, <2>1, <2>2 DEF ArrayTypeOK
<1>6. WithinCapacity'
  <2>1. ~(len >= RoomFor(1)) /\ len' <= cap'
    BY <1>1, <1>2, <1>3
  <2>2. ~overrun'
    BY <1>1, <2>1, Zenon DEF ArrayIInv, WithinCapacity
  <2> QED BY <2>1, <2>2 DEF WithinCapacity
<1>7. OwnedOnce'
  <2>1. \A i \in 0..(len' - 1) : i \in 0..(len - 1) \/ i = len
    BY <1>1, <1>2
  <2>2. len \in 0..(len' - 1) /\ \A i \in 0..(len - 1) : i \in 0..(len' - 1)
    BY <1>1, <1>2
  <2>3. \A i \in 0..(len - 1) : entries[i] \in live /\ entries[i] # m
    BY DEF ArrayIInv, OwnedOnce
  <2> QED BY <1>1, <1>4, <2>1, <2>2, <2>3 DEF ArrayIInv, OwnedOnce
<1> QED BY <1>5, <1>6, <1>7 DEF ArrayIInv

\* Deleting a range: the elements before it, and those behind it moved down.
LEMMA LeftElements ==
    ASSUME ArrayIInv, NEW start \in 0..len, NEW stop \in start..len, DelBetween(start, stop)
    PROVE  /\ len' = len - (stop - start) /\ cap' = cap /\ overrun' = overrun
           /\ live' = live \ {entries[i] : i \in start..(stop - 1)}
           /\ entries' \in [0..(cap - 1) -> Nodes \cup {Garbage}]
           /\ \A i \in 0..(start - 1) : entries'[i] = entries[i]
           /\ \A i \in stop..(len - 1) : entries'[i - (stop - start)] = entries[i]
<1> DEFINE gap == stop - start
<1>1. /\ len \in Nat /\ cap \in Nat /\ len <= cap /\ start \in Nat /\ stop \in Nat
      /\ entries \in [0..(cap - 1) -> Nodes \cup {Garbage}]
      /\ gap \in Nat /\ start <= stop /\ stop <= len
  BY DEF ArrayIInv, ArrayTypeOK, WithinCapacity
<1>2. /\ len' = len - gap /\ cap' = cap /\ overrun' = overrun
      /\ live' = live \ {entries[i] : i \in start..(stop - 1)}
      /\ entries' = Moved(entries, start, stop, len - stop)
  BY DEF DelBetween
<1>3. \A i \in 0..(cap - 1) : start <= i /\ i < start + (len - stop)
            => stop + (i - start) \in 0..(cap - 1)
  BY <1>1
<1>4. DOMAIN entries = 0..(cap - 1)
  BY <1>1
<1>5. \A i \in 0..(start - 1) : i \in 0..(cap - 1) /\ ~(start <= i)
  BY <1>1
<1>6. \A i \in stop..(len - 1) :
            /\ i - gap \in 0..(cap - 1)
            /\ start <= i - gap /\ i - gap < start + (len - stop)
            /\ stop + (i - gap - start) = i
  BY <1>1
<1>7. entries' \in [0..(cap - 1) -> Nodes \cup {Garbage}]
  BY <1>1, <1>2, <1>3, <1>4 DEF Moved
<1>8. \A i \in 0..(start - 1) : entries'[i] = entries[i]
  BY <1>2, <1>4, <1>5 DEF Moved
<1>9. ASSUME NEW i \in stop..(len - 1) PROVE entries'[i - gap] = entries[i]
  <2> HIDE DEF gap
  <2> QED BY <1>2, <1>4, <1>6 DEF Moved
<1> QED BY <1>2, <1>7, <1>8, <1>9

\* It frees the elements of the range and keeps the others, once.
LEMMA DelBetweenKeeps ==
    ASSUME ArrayIInv, NEW start \in 0..len, NEW stop \in start..len, DelBetween(start, stop)
    PROVE  ArrayIInv'
<1> DEFINE gap == stop - start
<1>1. /\ len \in Nat /\ cap \in Nat /\ len <= cap /\ start \in Nat /\ stop \in Nat
      /\ live \subseteq Nodes
      /\ gap \in Nat /\ start <= stop /\ stop <= len
  BY DEF ArrayIInv, ArrayTypeOK, WithinCapacity
<1>2. /\ len' = len - gap /\ cap' = cap /\ overrun' = overrun
      /\ live' = live \ {entries[i] : i \in start..(stop - 1)}
  BY LeftElements
<1>3. /\ entries' \in [0..(cap - 1) -> Nodes \cup {Garbage}]
      /\ \A i \in 0..(start - 1) : entries'[i] = entries[i]
      /\ \A i \in stop..(len - 1) : entries'[i - gap] = entries[i]
  BY LeftElements
<1>4. ArrayTypeOK' /\ WithinCapacity'
  BY <1>1, <1>2, <1>3 DEF ArrayTypeOK, WithinCapacity, ArrayIInv
<1>5. ASSUME NEW i \in 0..(len' - 1)
      PROVE  \/ i \in 0..(start - 1) /\ i \in 0..(len - 1) /\ entries'[i] = entries[i]
             \/ \E k \in stop..(len - 1) : i = k - gap /\ k \in 0..(len - 1) /\ entries'[i] = entries[k]
  <2>1. CASE i < start
    <3>1. i \in 0..(start - 1) /\ i \in 0..(len - 1)
      BY <1>1, <2>1
    <3> QED BY <1>3, <3>1
  <2>2. CASE start <= i
    <3>1. i + gap \in stop..(len - 1) /\ i + gap \in 0..(len - 1) /\ i = (i + gap) - gap
      BY <1>1, <1>2, <2>2
    <3>2. entries'[(i + gap) - gap] = entries[i + gap]
      BY <1>3, <3>1
    <3> QED BY <3>1, <3>2
  <2> QED BY <1>1, <2>1, <2>2
<1>6. OwnedOnce'
  <2>1. \A k, l \in 0..(len - 1) : entries[k] = entries[l] => k = l
    BY DEF ArrayIInv, OwnedOnce
  <2>2. \A k \in 0..(len - 1) : entries[k] \in live
    BY DEF ArrayIInv, OwnedOnce
  <2>3. ASSUME NEW i \in 0..(len' - 1) PROVE entries'[i] \in live'
    <3>1. PICK k \in 0..(len - 1) : (k < start \/ stop <= k) /\ entries'[i] = entries[k]
      BY <1>1, <1>5
    <3>2. \A j \in start..(stop - 1) : j \in 0..(len - 1) /\ k # j
      BY <1>1, <3>1
    <3> QED BY <1>2, <2>1, <2>2, <3>1, <3>2
  <2>4. ASSUME NEW i \in 0..(len' - 1), NEW j \in 0..(len' - 1), entries'[i] = entries'[j]
        PROVE  i = j
    <3>1. \A k \in stop..(len - 1), l \in 0..(start - 1) : k # l
      BY <1>1
    <3> QED BY <1>5, <2>1, <2>4, <3>1
  <2>5. ASSUME NEW m \in live' PROVE \E i \in 0..(len' - 1) : entries'[i] = m
    <3>1. PICK k \in 0..(len - 1) : entries[k] = m
      BY <1>2 DEF ArrayIInv, OwnedOnce
    <3>2. k \notin start..(stop - 1)
      BY <1>2, <3>1
    <3>3. CASE k < start
      <4>1. k \in 0..(start - 1) /\ k \in 0..(len' - 1)
        BY <1>1, <1>2, <3>3
      <4> QED BY <1>3, <3>1, <4>1
    <3>4. CASE stop <= k
      <4>1. k \in stop..(len - 1) /\ k - gap \in 0..(len' - 1)
        BY <1>1, <1>2, <3>4
      <4>2. entries'[k - gap] = entries[k]
        BY <1>3, <4>1
      <4> QED BY <3>1, <4>1, <4>2
    <3> QED BY <1>1, <3>2, <3>3, <3>4
  <2> QED BY <2>3, <2>4, <2>5 DEF OwnedOnce
<1> QED BY <1>4, <1>6 DEF ArrayIInv

\* Replacing one element frees it and owns the new one.
LEMMA ArraySetKeeps == ASSUME ArrayIInv, ArraySet PROVE ArrayIInv'
<1>1. PICK index \in Indexes, m \in Nodes \ live :
        /\ 0 <= index /\ index < len
        /\ entries' = [entries EXCEPT ![index] = m]
        /\ live' = (live \ {entries[index]}) \cup {m}
        /\ UNCHANGED <<len, cap, overrun>>
  BY DEF ArraySet
<1>2. /\ len \in Nat /\ cap \in Nat /\ len <= cap
      /\ entries \in [0..(cap - 1) -> Nodes \cup {Garbage}]
      /\ live \subseteq Nodes
      /\ index \in 0..(len - 1) /\ index \in 0..(cap - 1)
  BY <1>1, ArrayAssumption DEF ArrayIInv, ArrayTypeOK, WithinCapacity, ArrayAssumption
<1>3. /\ entries' \in [0..(cap - 1) -> Nodes \cup {Garbage}]
      /\ entries'[index] = m
      /\ \A i \in 0..(len - 1) : i # index => entries'[i] = entries[i]
  BY <1>1, <1>2
<1>4. ArrayTypeOK' /\ WithinCapacity'
  BY <1>1, <1>2, <1>3 DEF ArrayTypeOK, WithinCapacity, ArrayIInv
<1>5. OwnedOnce'
  <2>1. \A i \in 0..(len - 1) : entries[i] \in live /\ entries[i] # m
    BY DEF ArrayIInv, OwnedOnce
  <2>2. \A k, l \in 0..(len - 1) : entries[k] = entries[l] => k = l
    BY DEF ArrayIInv, OwnedOnce
  <2>3. ASSUME NEW x \in live PROVE \E i \in 0..(len - 1) : entries[i] = x
    BY DEF ArrayIInv, OwnedOnce
  <2> QED BY <1>1, <1>2, <1>3, <2>1, <2>2, <2>3 DEF OwnedOnce
<1> QED BY <1>4, <1>5 DEF ArrayIInv

-----------------------------------------------------------------------------
(* The invariant of the specification.                                     *)

\* The array: its initial states and its steps.
LEMMA ArrayInitIInv == ArrayInit => ArrayIInv
<1> SUFFICES ASSUME ArrayInit PROVE ArrayIInv
  OBVIOUS
<1>1. cap \in Nat /\ len = 0 /\ live = {} /\ overrun = FALSE
  BY ArrayAssumption DEF ArrayInit, ArrayAssumption
<1>2. entries \in [0..(cap - 1) -> Nodes \cup {Garbage}]
  BY DEF ArrayInit
<1>3. ArrayTypeOK /\ WithinCapacity
  <2>1. len \in Nat /\ len <= cap
    BY <1>1
  <2> QED BY <1>1, <1>2, <2>1, Zenon DEF ArrayTypeOK, WithinCapacity
<1>4. 0..(len - 1) = {}
  BY <1>1
<1>5. OwnedOnce
  BY <1>1, <1>4 DEF OwnedOnce
<1> QED BY <1>3, <1>5 DEF ArrayIInv

\* Every step of the array.
LEMMA ArrayNextIInv == ArrayIInv /\ [ArrayNext]_arrayVars => ArrayIInv'
<1> SUFFICES ASSUME ArrayIInv, [ArrayNext]_arrayVars PROVE ArrayIInv'
  OBVIOUS
<1>1. len \in Nat /\ Indexes \subseteq Int /\ Counts \subseteq Nat
  BY ArrayAssumption DEF ArrayIInv, ArrayTypeOK, ArrayAssumption
<1>2. CASE ArrayInsert
  <2>1. PICK index \in Indexes, n \in Counts :
            len + n <= MaxArray /\ \E xs \in Fresh(n) : InsertItems(InsertIndex(index), xs, n)
    BY <1>2 DEF ArrayInsert
  <2> PICK xs \in Fresh(n) : InsertItems(InsertIndex(index), xs, n)
    BY <2>1
  <2>2. InsertIndex(index) \in 0..len
    BY <1>1 DEF InsertIndex
  <2>3. n \in Nat
    BY <1>1
  <2> QED BY <2>1, <2>2, <2>3, ArrayInsertKeeps
<1>3. CASE ArrayAppend
  BY <1>3, ArrayAppendKeeps
<1>4. CASE ArrayPrepend
  <2>1. PICK xs \in Fresh(1) : len + 1 <= MaxArray /\ InsertItems(0, xs, 1)
    BY <1>4 DEF ArrayPrepend
  <2>2. 0 \in 0..len /\ 1 \in Nat
    BY <1>1
  <2> QED BY <2>1, <2>2, ArrayInsertKeeps
<1>5. CASE ArrayDelRange
  <2>1. PICK index \in Indexes, count \in Counts \ {0} :
            /\ len > 0 /\ index >= -len
            /\ DelBetween(DelStart(index), DelStop(DelStart(index), count))
    BY <1>5 DEF ArrayDelRange
  <2>2. DelStart(index) \in 0..len
    BY <1>1, <2>1 DEF DelStart
  <2>3. DelStop(DelStart(index), count) \in DelStart(index)..len
    BY <1>1, <2>2 DEF DelStop
  <2> QED BY <2>1, <2>2, <2>3, DelBetweenKeeps
<1>6. CASE ArraySet
  BY <1>6, ArraySetKeeps
<1>7. CASE UNCHANGED arrayVars
  BY <1>7 DEF arrayVars, ArrayIInv, ArrayTypeOK, OwnedOnce, WithinCapacity
<1> QED BY <1>2, <1>3, <1>4, <1>5, <1>6, <1>7 DEF ArrayNext

\* Together.
LEMMA ArrayAlwaysIInv == ArraySpec => []ArrayIInv
BY ArrayInitIInv, ArrayNextIInv, PTL DEF ArraySpec

\* The buffer of an array always has its capacity, and holds children or what
\* it was allocated with.
THEOREM ArrayTypeCorrect == ArraySpec => []ArrayTypeOK
<1>1. ArrayIInv => ArrayTypeOK
  BY DEF ArrayIInv
<1> QED BY <1>1, ArrayAlwaysIInv, PTL

\* Each child of an array is in it exactly once, none that it holds has been
\* freed and none has been lost, however memmove and memcpy shift them.
THEOREM ArrayAlwaysOwnsOnce == ArraySpec => []OwnedOnce
<1>1. ArrayIInv => OwnedOnce
  BY DEF ArrayIInv
<1> QED BY <1>1, ArrayAlwaysIInv, PTL

\* __node_ArrayMakeRoomFor always makes room enough: nothing is written behind
\* the buffer.
THEOREM ArrayAlwaysWithinCapacity == ArraySpec => []WithinCapacity
<1>1. ArrayIInv => WithinCapacity
  BY DEF ArrayIInv
<1> QED BY <1>1, ArrayAlwaysIInv, PTL

-----------------------------------------------------------------------------
(* Dictionaries in memory.                                                 *)

DictTypeOK ==
    /\ dlen \in Nat /\ dcap \in Nat
    /\ slots \in [0..(dcap - 1) -> KeyVals \cup {NoKeyVal}]
    /\ dlive \subseteq Values
    /\ doverrun \in BOOLEAN

DictIInv == DictTypeOK /\ DictSound

\* The parts of the invariant that the proofs below use.
LEMMA DictParts ==
    ASSUME DictIInv
    PROVE  /\ dlen \in Nat /\ dcap \in Nat /\ dlen <= dcap /\ dlive \subseteq Values
           /\ slots \in [0..(dcap - 1) -> KeyVals \cup {NoKeyVal}]
           /\ \A i \in 0..(dlen - 1) :
                /\ slots[i] \in KeyVals /\ slots[i].val \in dlive
                /\ i \in 0..(dcap - 1)
           /\ \A i, j \in 0..(dlen - 1) :
                slots[i].key = slots[j].key \/ slots[i].val = slots[j].val => i = j
           /\ \A v \in dlive : \E i \in 0..(dlen - 1) : slots[i].val = v
BY DEF DictIInv, DictTypeOK, DictSound

\* __obj_find gives the first entry with the key, or the length.
LEMMA FoundFirst ==
    ASSUME DictIInv, NEW key \in DictKeys
    PROVE  /\ Found(key) \in 0..dlen
           /\ Found(key) < dlen => slots[Found(key)].key = key
           /\ Found(key) = dlen => \A i \in 0..(dlen - 1) : slots[i].key # key
<1> DEFINE at == {i \in 0..(dlen - 1) : slots[i].key = key}
<1>1. dlen \in Nat
  BY DictParts
<1>2. CASE at = {}
  BY <1>1, <1>2 DEF Found
<1>3. CASE at # {}
  <2>1. PICK i \in at : TRUE
    BY <1>3
  <2>2. \A j \in at : i = j
    BY <2>1, DictParts
  <2>3. i \in at /\ \A j \in at : i <= j
    BY <1>1, <2>1, <2>2
  <2>4. Found(key) = i
    <3> HIDE DEF at
    <3>1. (CHOOSE k \in at : \A j \in at : k <= j) = i
      BY <2>2, <2>3
    <3> QED BY <1>3, <3>1 DEF Found, at
  <2> QED BY <1>1, <2>1, <2>4
<1> QED BY <1>2, <1>3

\* The capacity grows whenever the buffer is full.
LEMMA CapForAbove ==
    ASSUME DictIInv
    PROVE  CapFor \in Nat /\ dlen < CapFor /\ dcap <= CapFor
BY DictParts, DictAssumption DEF CapFor, Grown, DictAssumption

\* A new entry is written behind those that are there, which the buffer keeps
\* when it grows.
LEMMA InsertedSlots ==
    ASSUME DictIInv, NEW kv \in KeyVals, obj_insert(kv)
    PROVE  /\ dlen' = dlen + 1
           /\ slots' \in [0..(dcap' - 1) -> KeyVals \cup {NoKeyVal}]
           /\ slots'[dlen] = kv
           /\ \A i \in 0..(dlen - 1) : slots'[i] = slots[i]
<1> DEFINE newcap == CapFor
<1>1. newcap \in Nat /\ dlen < newcap /\ dcap <= newcap /\ dcap' = newcap
  BY CapForAbove DEF obj_insert
<1>2. /\ dlen' = dlen + 1
      /\ slots' = [i \in 0..(newcap - 1) |->
                    IF i = dlen THEN kv ELSE IF i < dcap THEN slots[i] ELSE NoKeyVal]
  BY DEF obj_insert
<1> HIDE DEF newcap
<1>3. /\ dlen \in 0..(newcap - 1)
      /\ \A i \in 0..(dlen - 1) : i \in 0..(newcap - 1) /\ i # dlen /\ i < dcap
  BY <1>1, DictParts
<1> QED BY <1>1, <1>2, <1>3, DictParts

\* A replaced entry leaves the others where they are.
LEMMA ReplacedSlots ==
    ASSUME DictIInv, NEW kv \in KeyVals, NEW at \in 0..(dlen - 1), Replace(at, kv)
    PROVE  /\ dlen' = dlen
           /\ slots' \in [0..(dcap - 1) -> KeyVals \cup {NoKeyVal}]
           /\ slots'[at] = kv
           /\ \A i \in 0..(dlen - 1) : i # at => slots'[i] = slots[i]
BY DictParts DEF Replace

\* A deleted entry is replaced by the last one.
LEMMA DeletedSlots ==
    ASSUME DictIInv, NEW key \in DictKeys, DelKey(key)
    PROVE  /\ Found(key) \in 0..(dlen - 1)
           /\ dlen' = dlen - 1
           /\ slots' \in [0..(dcap - 1) -> KeyVals \cup {NoKeyVal}]
           /\ \A i \in 0..(dlen - 2) :
                 slots'[i] = IF i = Found(key) THEN slots[dlen - 1] ELSE slots[i]
<1> DEFINE at == Found(key)
<1>1. at \in 0..(dlen - 1)
  BY FoundFirst, DictParts DEF DelKey
<1>2. /\ dlen' = dlen - 1
      /\ slots' = IF at < dlen - 1 THEN [slots EXCEPT ![at] = slots[dlen - 1]] ELSE slots
  BY DEF DelKey
<1> HIDE DEF at
<1>3. dlen - 1 \in 0..(dcap - 1) /\ at \in 0..(dcap - 1)
  BY <1>1, DictParts
<1>4. /\ slots' \in [0..(dcap - 1) -> KeyVals \cup {NoKeyVal}]
      /\ \A i \in 0..(dlen - 2) :
            slots'[i] = IF i = at THEN slots[dlen - 1] ELSE slots[i]
  BY <1>1, <1>2, <1>3, DictParts
<1> QED BY <1>1, <1>2, <1>4 DEF at

-----------------------------------------------------------------------------

\* A key that is not there, and its value, which is new, become the last
\* entry.
LEMMA DictInsertKeeps ==
    ASSUME DictIInv, NEW kv \in KeyVals, kv.val \notin dlive, Found(kv.key) = dlen, obj_insert(kv)
    PROVE  DictIInv'
<1>1. kv.key \in DictKeys /\ kv.val \in Values
  BY DEF KeyVals
<1>2. CapFor \in Nat /\ dlen < CapFor /\ dcap <= CapFor
  BY CapForAbove
<1>3. dcap' = CapFor /\ dlen' = dlen + 1 /\ dlive' = dlive \cup {kv.val}
  BY DEF obj_insert
<1>4. /\ slots' \in [0..(dcap' - 1) -> KeyVals \cup {NoKeyVal}]
      /\ slots'[dlen] = kv
      /\ \A i \in 0..(dlen - 1) : slots'[i] = slots[i]
  BY InsertedSlots
<1>5. DictTypeOK'
  <2>1. dlen' \in Nat /\ dcap' \in Nat /\ dlive' \subseteq Values
    BY <1>1, <1>2, <1>3, DictParts
  <2>2. doverrun' \in BOOLEAN
    BY Zenon DEF obj_insert
  <2> QED BY <1>4, <2>1, <2>2 DEF DictTypeOK
<1>6. DictSound'
  <2>1. dlen' <= dcap' /\ ~(dlen >= CapFor)
    BY <1>2, <1>3, DictParts
  <2>2. ~doverrun'
    BY <2>1, Zenon DEF obj_insert, DictIInv, DictSound
  <2>3. \A i \in 0..(dlen' - 1) : i \in 0..(dlen - 1) \/ i = dlen
    BY <1>3, DictParts
  <2>4. dlen \in 0..(dlen' - 1) /\ \A i \in 0..(dlen - 1) : i \in 0..(dlen' - 1) /\ i # dlen
    BY <1>3, DictParts
  <2>5. \A i \in 0..(dlen - 1) : slots[i].key # kv.key /\ slots[i].val # kv.val
    BY <1>1, FoundFirst, DictParts
  <2>6. \A i \in 0..(dlen' - 1) : slots'[i] \in KeyVals /\ slots'[i].val \in dlive'
    BY <1>3, <1>4, <2>3, DictParts
  <2>7. ASSUME NEW i \in 0..(dlen' - 1), NEW j \in 0..(dlen' - 1),
               slots'[i].key = slots'[j].key \/ slots'[i].val = slots'[j].val
        PROVE  i = j
    BY <1>4, <2>3, <2>5, <2>7, DictParts
  <2>8. \A v \in dlive' : \E i \in 0..(dlen' - 1) : slots'[i].val = v
    BY <1>3, <1>4, <2>4, DictParts
  <2> QED BY <2>1, <2>2, <2>6, <2>7, <2>8 DEF DictSound
<1> QED BY <1>5, <1>6 DEF DictIInv

\* A new value takes the place of the old one of its key.
LEMMA DictReplaceKeeps ==
    ASSUME DictIInv, NEW kv \in KeyVals, kv.val \notin dlive,
           NEW at \in 0..(dlen - 1), slots[at].key = kv.key, Replace(at, kv)
    PROVE  DictIInv'
<1>1. /\ dlen' = dlen /\ dcap' = dcap /\ doverrun' = doverrun
      /\ dlive' = (dlive \ {slots[at].val}) \cup {kv.val}
      /\ slots' = [slots EXCEPT ![at] = kv]
  BY DEF Replace
<1>2. /\ slots' \in [0..(dcap - 1) -> KeyVals \cup {NoKeyVal}]
      /\ slots'[at] = kv
      /\ \A i \in 0..(dlen - 1) : i # at => slots'[i] = slots[i]
  BY ReplacedSlots
<1>3. kv.val \in Values
  BY DEF KeyVals
<1>4. DictTypeOK'
  BY <1>1, <1>2, <1>3 DEF DictTypeOK, DictIInv
<1>5. DictSound'
  <2>1. \A i \in 0..(dlen - 1) : slots'[i] \in KeyVals /\ slots'[i].val \in dlive'
    BY <1>1, <1>2, DictParts
  <2>2. ASSUME NEW i \in 0..(dlen - 1), NEW j \in 0..(dlen - 1),
               slots'[i].key = slots'[j].key \/ slots'[i].val = slots'[j].val
        PROVE  i = j
    BY <1>2, <2>2, DictParts
  <2>3. ASSUME NEW v \in dlive' PROVE \E i \in 0..(dlen - 1) : slots'[i].val = v
    BY <1>1, <1>2, DictParts
  <2> QED BY <1>1, <2>1, <2>2, <2>3 DEF DictSound, DictIInv
<1> QED BY <1>4, <1>5 DEF DictIInv

\* The last entry takes the place of the deleted one: every other key keeps
\* its value.
LEMMA DictDelKeyKeeps ==
    ASSUME DictIInv, NEW key \in DictKeys, DelKey(key)
    PROVE  DictIInv'
<1> DEFINE at == Found(key)
<1>1. at \in 0..(dlen - 1)
  BY DeletedSlots
<1>2. /\ dlen' = dlen - 1 /\ dcap' = dcap /\ doverrun' = doverrun
      /\ dlive' = dlive \ {slots[at].val}
  BY DEF DelKey
<1>3. /\ slots' \in [0..(dcap - 1) -> KeyVals \cup {NoKeyVal}]
      /\ \A i \in 0..(dlen - 2) :
            slots'[i] = IF i = at THEN slots[dlen - 1] ELSE slots[i]
  BY DeletedSlots
<1> HIDE DEF at
<1>4. DictTypeOK'
  <2>1. dlen' \in Nat
    BY <1>1, <1>2, DictParts
  <2> QED BY <1>2, <1>3, <2>1 DEF DictTypeOK, DictIInv
<1>5. DictSound'
  <2>1. /\ 0..(dlen' - 1) = 0..(dlen - 2)
        /\ dlen - 1 \in 0..(dlen - 1)
        /\ \A i \in 0..(dlen - 2) : i \in 0..(dlen - 1) /\ i # dlen - 1
        /\ \A i \in 0..(dlen - 1) : i \in 0..(dlen - 2) \/ i = dlen - 1
    BY <1>1, <1>2, DictParts
  <2>2. \A i \in 0..(dlen - 2) : slots'[i] \in KeyVals /\ slots'[i].val \in dlive'
    <3>1. \A i \in 0..(dlen - 1) : i # at => slots[i].val # slots[at].val
      BY <1>1, DictParts
    <3> QED BY <1>1, <1>2, <1>3, <2>1, <3>1, DictParts
  <2>3. ASSUME NEW i \in 0..(dlen - 2), NEW j \in 0..(dlen - 2),
               slots'[i].key = slots'[j].key \/ slots'[i].val = slots'[j].val
        PROVE  i = j
    BY <1>1, <1>3, <2>1, <2>3, DictParts
  <2>4. ASSUME NEW v \in dlive' PROVE \E i \in 0..(dlen - 2) : slots'[i].val = v
    <3>1. PICK i \in 0..(dlen - 1) : slots[i].val = v /\ i # at
      BY <1>2, DictParts
    <3>2. CASE i \in 0..(dlen - 2)
      BY <1>3, <3>1, <3>2
    <3>3. CASE i = dlen - 1
      <4>1. at \in 0..(dlen - 2)
        BY <1>1, <2>1, <3>1, <3>3
      <4> QED BY <1>3, <3>1, <3>3, <4>1
    <3> QED BY <2>1, <3>2, <3>3
  <2>5. dlen' <= dcap'
    BY <1>2, DictParts
  <2> QED BY <1>2, <2>1, <2>2, <2>3, <2>4, <2>5 DEF DictSound, DictIInv
<1> QED BY <1>4, <1>5 DEF DictIInv

-----------------------------------------------------------------------------

\* The dictionary begins.
LEMMA DictInitIInv == DictInit => DictIInv
<1> SUFFICES ASSUME DictInit PROVE DictIInv
  OBVIOUS
<1>1. dcap \in Nat /\ dlen = 0 /\ dlive = {} /\ doverrun = FALSE
  BY DictAssumption DEF DictInit, DictAssumption
<1>2. slots \in [0..(dcap - 1) -> KeyVals \cup {NoKeyVal}]
  BY DEF DictInit
<1>3. dlen \in Nat /\ dlen <= dcap /\ 0..(dlen - 1) = {}
  BY <1>1
<1>4. DictTypeOK
  BY <1>1, <1>2, <1>3, Zenon DEF DictTypeOK
<1>5. DictSound
  BY <1>1, <1>3, Zenon DEF DictSound
<1> QED BY <1>4, <1>5 DEF DictIInv

\* Every step of the dictionary.
LEMMA DictNextIInv == DictIInv /\ [DictNext]_dictVars => DictIInv'
<1> SUFFICES ASSUME DictIInv, [DictNext]_dictVars PROVE DictIInv'
  OBVIOUS
<1>1. CASE DictSet
  <2>1. PICK kv \in KeyVals : DictSetTo(kv)
    BY <1>1 DEF DictSet
  <2>2. kv.key \in DictKeys /\ kv.val \notin dlive
    BY <2>1 DEF DictSetTo, KeyVals
  <2>3. CASE Found(kv.key) < dlen
    <3>1. Found(kv.key) \in 0..(dlen - 1) /\ slots[Found(kv.key)].key = kv.key
      BY <2>2, <2>3, FoundFirst, DictParts
    <3>2. Replace(Found(kv.key), kv)
      BY <2>1, <2>3 DEF DictSetTo
    <3> QED BY <2>2, <3>1, <3>2, DictReplaceKeeps
  <2>4. CASE ~(Found(kv.key) < dlen)
    <3>1. Found(kv.key) = dlen
      BY <2>2, <2>4, FoundFirst, DictParts
    <3>2. obj_insert(kv)
      BY <2>1, <2>4 DEF DictSetTo
    <3> QED BY <2>2, <3>1, <3>2, DictInsertKeeps
  <2> QED BY <2>3, <2>4
<1>2. CASE DictDel
  BY <1>2, DictDelKeyKeeps DEF DictDel
<1>3. CASE UNCHANGED dictVars
  BY <1>3 DEF dictVars, DictIInv, DictTypeOK, DictSound
<1> QED BY <1>1, <1>2, <1>3 DEF DictNext

\* A dictionary never has a key twice, never keeps a freed value, never loses
\* one, and never writes behind its buffer.
THEOREM DictAlwaysSound == DictSpec => []DictSound
<1>1. DictIInv => DictSound
  BY DEF DictIInv
<1> QED BY <1>1, DictInitIInv, DictNextIInv, PTL DEF DictSpec

-----------------------------------------------------------------------------
(* Sequences, spliced.                                                     *)

\* Two parts of known lengths, joined.
LEMMA JoinedParts ==
    ASSUME NEW S, NEW a \in Seq(S), NEW b \in Seq(S), NEW m, NEW n, Len(a) = m, Len(b) = n
    PROVE  /\ a \o b \in Seq(S) /\ Len(a \o b) = m + n
           /\ \A i \in 1..(m + n) : (a \o b)[i] = IF i <= m THEN a[i] ELSE b[i - m]
BY ConcatProperties, Zenon

\* The part of a sequence up to a position, and the one behind it.
LEMMA PartUpTo ==
    ASSUME NEW S, NEW s \in Seq(S), NEW at \in 0..Len(s)
    PROVE  /\ SubSeq(s, 1, at) \in Seq(S) /\ Len(SubSeq(s, 1, at)) = at
           /\ \A i \in 1..at : SubSeq(s, 1, at)[i] = s[i]
<1>1. at \in Nat /\ Len(s) \in Nat /\ \A i \in 1..at : s[i] \in S
  OBVIOUS
<1> QED BY <1>1, SubSeqProperties

\* The part up to a position, with another sequence joined to it.
LEMMA PartUpToJoined ==
    ASSUME NEW S, NEW s \in Seq(S), NEW sub \in Seq(S), NEW at \in 0..Len(s)
    PROVE  /\ SubSeq(s, 1, at) \o sub \in Seq(S) /\ Len(SubSeq(s, 1, at) \o sub) = at + Len(sub)
           /\ \A i \in 1..at : (SubSeq(s, 1, at) \o sub)[i] = s[i]
           /\ \A i \in 1..Len(sub) : (SubSeq(s, 1, at) \o sub)[at + i] = sub[i]
<1> DEFINE before == SubSeq(s, 1, at)
           front == before \o sub
           n == Len(sub)
<1>1. /\ before \in Seq(S) /\ Len(before) = at /\ at \in Nat
      /\ n \in Nat /\ Len(sub) = n
  BY PartUpTo
<1>2. \A i \in 1..at : before[i] = s[i]
  BY PartUpTo
<1> HIDE DEF before, n
<1>3. /\ front \in Seq(S) /\ Len(front) = at + n
      /\ \A i \in 1..(at + n) : front[i] = IF i <= at THEN before[i] ELSE sub[i - at]
  BY <1>1, JoinedParts
<1> HIDE DEF front
<1>4. ASSUME NEW i \in 1..at PROVE front[i] = s[i]
  BY <1>1, <1>2, <1>3
<1>5. ASSUME NEW i \in 1..n PROVE front[at + i] = sub[i]
  <2>1. at + i \in 1..(at + n) /\ ~(at + i <= at) /\ at + i - at = i
    BY <1>1
  <2> QED BY <1>3, <2>1
<1> QED BY <1>3, <1>4, <1>5 DEF front, before, n

\* The part of a sequence behind a position.
LEMMA PartBehind ==
    ASSUME NEW S, NEW s \in Seq(S), NEW at \in 0..Len(s)
    PROVE  /\ SubSeq(s, at + 1, Len(s)) \in Seq(S)
           /\ Len(SubSeq(s, at + 1, Len(s))) = Len(s) - at
           /\ \A i \in 1..(Len(s) - at) : SubSeq(s, at + 1, Len(s))[i] = s[at + i]
<1> DEFINE behind == SubSeq(s, at + 1, Len(s))
<1>1. /\ at \in Nat /\ Len(s) \in Nat /\ at <= Len(s)
      /\ \A i \in (at + 1)..Len(s) : s[i] \in S
  OBVIOUS
<1>2. /\ behind \in Seq(S)
      /\ Len(behind) = IF at + 1 <= Len(s) THEN Len(s) - (at + 1) + 1 ELSE 0
      /\ \A i \in 1..(Len(s) - (at + 1) + 1) : behind[i] = s[at + 1 + i - 1]
  BY <1>1, SubSeqProperties
<1> HIDE DEF behind
<1>3. Len(behind) = Len(s) - at
  BY <1>1, <1>2
<1>4. ASSUME NEW i \in 1..(Len(s) - at) PROVE behind[i] = s[at + i]
  <2>1. i \in 1..(Len(s) - (at + 1) + 1) /\ at + 1 + i - 1 = at + i
    BY <1>1
  <2>2. behind[i] = s[at + 1 + i - 1]
    BY <1>1, <1>2, <2>1
  <2> QED BY <2>1, <2>2
<1> QED BY <1>2, <1>3, <1>4 DEF behind

Splice(s, at, sub) == SubSeq(s, 1, at) \o sub \o SubSeq(s, at + 1, Len(s))

\* A sequence that agrees with s before and behind a gap and with sub in it.
LEMMA SplicedIn ==
    ASSUME NEW S, NEW s \in Seq(S), NEW sub \in Seq(S), NEW at \in 0..Len(s), NEW t \in Seq(S),
           Len(t) = Len(s) + Len(sub),
           \A i \in 1..at : t[i] = s[i],
           \A i \in 1..Len(sub) : t[at + i] = sub[i],
           \A i \in (at + 1)..Len(s) : t[i + Len(sub)] = s[i]
    PROVE  t = SubSeq(s, 1, at) \o sub \o SubSeq(s, at + 1, Len(s))
<1> DEFINE front == SubSeq(s, 1, at) \o sub
           behind == SubSeq(s, at + 1, Len(s))
           u == front \o behind
           m == Len(s)
           n == Len(sub)
<1>1. m \in Nat /\ n \in Nat /\ at \in Nat /\ at <= m
  OBVIOUS
<1>2. /\ front \in Seq(S) /\ Len(front) = at + n
      /\ \A i \in 1..at : front[i] = s[i]
      /\ \A i \in 1..n : front[at + i] = sub[i]
  BY PartUpToJoined
<1>3. behind \in Seq(S) /\ Len(behind) = m - at /\ \A i \in 1..(m - at) : behind[i] = s[at + i]
  BY PartBehind
<1> HIDE DEF front, behind, m, n
<1>4. /\ u \in Seq(S) /\ Len(u) = (at + n) + (m - at)
      /\ \A i \in 1..((at + n) + (m - at)) :
            u[i] = IF i <= at + n THEN front[i] ELSE behind[i - (at + n)]
  BY <1>2, <1>3, JoinedParts
<1> HIDE DEF u
<1>5. Len(t) = m + n /\ Len(u) = Len(t)
  <2>1. Len(t) = m + n
    BY DEF m, n
  <2> QED BY <1>1, <1>4, <2>1
<1>6. ASSUME NEW i \in 1..(m + n) PROVE t[i] = u[i]
  <2>1. i \in 1..((at + n) + (m - at))
    BY <1>1
  <2>2. u[i] = IF i <= at + n THEN front[i] ELSE behind[i - (at + n)]
    BY <1>4, <2>1
  <2>3. CASE i <= at
    <3>1. i \in 1..at /\ i <= at + n
      BY <1>1, <2>3
    <3> QED BY <1>2, <2>2, <3>1
  <2>4. CASE at < i /\ i <= at + n
    <3> DEFINE k == i - at
    <3>1. k \in 1..n /\ at + k = i
      BY <1>1, <2>4
    <3>2. t[at + k] = sub[k]
      BY <3>1 DEF n
    <3>3. front[at + k] = sub[k]
      BY <1>2, <3>1
    <3> QED BY <2>2, <2>4, <3>1, <3>2, <3>3
  <2>5. CASE at + n < i
    <3> DEFINE k == i - n
    <3>1. /\ k \in (at + 1)..m /\ k + n = i /\ ~(i <= at + n)
          /\ i - (at + n) \in 1..(m - at) /\ at + (i - (at + n)) = k
      BY <1>1, <2>5
    <3>2. t[k + n] = s[k]
      BY <3>1 DEF m, n
    <3>3. behind[i - (at + n)] = s[at + (i - (at + n))]
      BY <1>3, <3>1
    <3> QED BY <2>2, <3>1, <3>2, <3>3
  <2> QED BY <1>1, <2>3, <2>4, <2>5
<1>7. t = u
  <2>1. Len(t) = m + n /\ Len(u) = m + n /\ t \in Seq(S) /\ u \in Seq(S)
    BY <1>4, <1>5
  <2>2. \A i \in 1..Len(t) : t[i] = u[i]
    BY <1>6, <2>1
  <2> QED BY <2>1, <2>2, SeqEqual
<1> QED BY <1>7, Zenon DEF u, front, behind

\* A sequence that agrees with s before a range, and behind it moved down.
LEMMA CutOut ==
    ASSUME NEW S, NEW s \in Seq(S), NEW start \in 0..Len(s), NEW stop \in start..Len(s),
           NEW t \in Seq(S), Len(t) = Len(s) - (stop - start),
           \A i \in 1..start : t[i] = s[i],
           \A i \in (stop + 1)..Len(s) : t[i - (stop - start)] = s[i]
    PROVE  t = SubSeq(s, 1, start) \o SubSeq(s, stop + 1, Len(s))
<1> DEFINE before == SubSeq(s, 1, start)
           behind == SubSeq(s, stop + 1, Len(s))
           u == before \o behind
           m == Len(s)
<1>1. m \in Nat /\ start \in Nat /\ stop \in 0..m /\ start <= stop /\ stop <= m
  OBVIOUS
<1>2. before \in Seq(S) /\ Len(before) = start /\ \A i \in 1..start : before[i] = s[i]
  BY PartUpTo
<1>3. behind \in Seq(S) /\ Len(behind) = m - stop /\ \A i \in 1..(m - stop) : behind[i] = s[stop + i]
  BY <1>1, PartBehind
<1> HIDE DEF before, behind, m
<1>4. /\ u \in Seq(S) /\ Len(u) = start + (m - stop)
      /\ \A i \in 1..(start + (m - stop)) :
            u[i] = IF i <= start THEN before[i] ELSE behind[i - start]
  BY <1>2, <1>3, JoinedParts
<1> HIDE DEF u
<1>5. Len(t) = start + (m - stop) /\ Len(u) = Len(t)
  <2>1. Len(t) = m - (stop - start)
    BY DEF m
  <2> QED BY <1>1, <1>4, <2>1
<1>6. ASSUME NEW i \in 1..(start + (m - stop)) PROVE t[i] = u[i]
  <2>1. u[i] = IF i <= start THEN before[i] ELSE behind[i - start]
    BY <1>4
  <2>2. CASE i <= start
    <3>1. i \in 1..start
      BY <1>1, <2>2
    <3> QED BY <1>2, <2>1, <2>2, <3>1
  <2>3. CASE start < i
    <3> DEFINE k == i + (stop - start)
    <3>1. /\ k \in (stop + 1)..m /\ k - (stop - start) = i /\ ~(i <= start)
          /\ i - start \in 1..(m - stop) /\ stop + (i - start) = k
      BY <1>1, <2>3
    <3>2. t[k - (stop - start)] = s[k]
      BY <3>1 DEF m
    <3>3. behind[i - start] = s[stop + (i - start)]
      BY <1>3, <3>1
    <3> QED BY <2>1, <3>1, <3>2, <3>3
  <2> QED BY <1>1, <2>2, <2>3
<1>7. t = u
  BY <1>4, <1>5, <1>6, SeqEqual
<1> QED BY <1>7, Zenon DEF u, before, behind
-----------------------------------------------------------------------------
(* The array.                                                              *)

Slots == Nodes \cup {Garbage}

\* The first l slots of a buffer, read as a sequence.
LEMMA BufferAsSequence ==
    ASSUME NEW c \in Nat, NEW l \in Nat, l <= c, NEW b \in [0..(c - 1) -> Slots]
    PROVE  /\ AsSequence(b, l) \in Seq(Slots) /\ Len(AsSequence(b, l)) = l
           /\ \A i \in 1..l : AsSequence(b, l)[i] = b[i - 1]
<1>1. ASSUME NEW i \in 1..l PROVE b[i - 1] \in Slots
  <2>1. i - 1 \in 0..(c - 1)
    OBVIOUS
  <2> QED BY <2>1
<1> QED BY <1>1 DEF AsSequence

\* A gap opened in buffer b and filled with xs makes buffer b2.
GapFilled(b, c, l, at, xs, n, b2, c2) ==
    /\ c \in Nat /\ l \in Nat /\ l <= c /\ b \in [0..(c - 1) -> Slots]
    /\ c2 \in Nat /\ n \in Nat /\ l + n <= c2 /\ b2 \in [0..(c2 - 1) -> Slots]
    /\ at \in 0..l /\ xs \in [0..(n - 1) -> Slots]
    /\ \A i \in 0..(at - 1) : b2[i] = b[i]
    /\ \A i \in 0..(n - 1) : b2[at + i] = xs[i]
    /\ \A i \in at..(l - 1) : b2[i + n] = b[i]

\* Such a buffer, read as a sequence, is the sequence spliced.
LEMMA SplicedBuffer ==
    ASSUME NEW b, NEW c, NEW l, NEW at, NEW xs, NEW n, NEW b2, NEW c2,
           GapFilled(b, c, l, at, xs, n, b2, c2)
    PROVE  AsSequence(b2, l + n) = Splice(AsSequence(b, l), at, AsSequence(xs, n))
<1> SUFFICES ASSUME c \in Nat, l \in Nat, l <= c, b \in [0..(c - 1) -> Slots],
                    c2 \in Nat, n \in Nat, l + n <= c2, b2 \in [0..(c2 - 1) -> Slots],
                    at \in 0..l, xs \in [0..(n - 1) -> Slots],
                    \A i \in 0..(at - 1) : b2[i] = b[i],
                    \A i \in 0..(n - 1) : b2[at + i] = xs[i],
                    \A i \in at..(l - 1) : b2[i + n] = b[i]
             PROVE  AsSequence(b2, l + n) = Splice(AsSequence(b, l), at, AsSequence(xs, n))
  BY DEF GapFilled
<1> DEFINE s == AsSequence(b, l)
           t == AsSequence(b2, l + n)
           sub == AsSequence(xs, n)
<1>1. s \in Seq(Slots) /\ Len(s) = l /\ \A i \in 1..l : s[i] = b[i - 1]
  BY BufferAsSequence
<1>2. sub \in Seq(Slots) /\ Len(sub) = n /\ \A i \in 1..n : sub[i] = xs[i - 1]
  BY BufferAsSequence
<1>3. t \in Seq(Slots) /\ Len(t) = l + n /\ \A i \in 1..(l + n) : t[i] = b2[i - 1]
  <2>1. l + n \in Nat
    OBVIOUS
  <2> QED BY <2>1, BufferAsSequence
<1> HIDE DEF s, t, sub
<1>4. ASSUME NEW i \in 1..at PROVE t[i] = s[i]
  <2>1. i \in 1..l /\ i \in 1..(l + n) /\ i - 1 \in 0..(at - 1)
    OBVIOUS
  <2> QED BY <1>1, <1>3, <2>1
<1>5. ASSUME NEW i \in 1..n PROVE t[at + i] = sub[i]
  <2> DEFINE k == i - 1
  <2>1. at + i \in 1..(l + n) /\ k \in 0..(n - 1) /\ at + i - 1 = at + k
    OBVIOUS
  <2>2. b2[at + k] = xs[k]
    BY <2>1
  <2>3. t[at + i] = b2[at + k] /\ sub[i] = xs[k]
    BY <1>2, <1>3, <2>1
  <2> QED BY <2>2, <2>3
<1>6. ASSUME NEW i \in (at + 1)..l PROVE t[i + n] = s[i]
  <2> DEFINE k == i - 1
  <2>1. /\ i \in 1..l /\ i + n \in 1..(l + n) /\ k \in at..(l - 1)
        /\ i + n - 1 = k + n
    OBVIOUS
  <2>2. b2[k + n] = b[k]
    BY <2>1
  <2>3. t[i + n] = b2[k + n] /\ s[i] = b[k]
    BY <1>1, <1>3, <2>1
  <2> QED BY <2>2, <2>3
<1>7. t = SubSeq(s, 1, at) \o sub \o SubSeq(s, at + 1, Len(s))
  <2>1. at \in 0..Len(s) /\ Len(t) = Len(s) + Len(sub)
    BY <1>1, <1>2, <1>3
  <2>2. /\ \A i \in 1..Len(sub) : t[at + i] = sub[i]
        /\ \A i \in (at + 1)..Len(s) : t[i + Len(sub)] = s[i]
    BY <1>1, <1>2, <1>5, <1>6, Zenon
  <2> QED BY <1>1, <1>2, <1>3, <1>4, <2>1, <2>2, SplicedIn, Zenon
<1> QED BY <1>7, Zenon DEF s, t, sub, Splice

\* A range taken out of a buffer.
LEMMA CutBuffer ==
    ASSUME NEW c \in Nat, NEW l \in Nat, l <= c, NEW b \in [0..(c - 1) -> Slots],
           NEW b2 \in [0..(c - 1) -> Slots], NEW start \in 0..l, NEW stop \in start..l,
           \A i \in 0..(start - 1) : b2[i] = b[i],
           \A i \in stop..(l - 1) : b2[i - (stop - start)] = b[i]
    PROVE  AsSequence(b2, l - (stop - start)) =
             SubSeq(AsSequence(b, l), 1, start) \o SubSeq(AsSequence(b, l), stop + 1, l)
<1> DEFINE left == l - (stop - start)
           s == AsSequence(b, l)
           t == AsSequence(b2, left)
<1>1. s \in Seq(Slots) /\ Len(s) = l /\ \A i \in 1..l : s[i] = b[i - 1]
  BY BufferAsSequence
<1>2. t \in Seq(Slots) /\ Len(t) = left /\ \A i \in 1..left : t[i] = b2[i - 1]
  <2>1. left \in Nat /\ left <= c
    OBVIOUS
  <2> QED BY <2>1, BufferAsSequence
<1> HIDE DEF s, t
<1>3. ASSUME NEW i \in 1..start PROVE t[i] = s[i]
  <2>1. i \in 1..l /\ i \in 1..left /\ i - 1 \in 0..(start - 1)
    OBVIOUS
  <2> QED BY <1>1, <1>2, <2>1
<1>4. ASSUME NEW i \in (stop + 1)..l PROVE t[i - (stop - start)] = s[i]
  <2> DEFINE j == i - 1
             k == i - (stop - start)
  <2>1. /\ i \in 1..l /\ k \in 1..left /\ j \in stop..(l - 1)
        /\ k - 1 = j - (stop - start)
    OBVIOUS
  <2>2. b2[j - (stop - start)] = b[j]
    BY <2>1
  <2> HIDE DEF k
  <2>3. t[k] = b2[k - 1] /\ s[i] = b[j]
    BY <1>1, <1>2, <2>1
  <2>4. t[k] = s[i]
    BY <2>1, <2>2, <2>3
  <2> QED BY <2>4 DEF k
<1>5. t = SubSeq(s, 1, start) \o SubSeq(s, stop + 1, Len(s))
  BY <1>1, <1>2, <1>3, <1>4, CutOut
<1> QED BY <1>1, <1>5, Zenon DEF s, t

\* One insertion into the buffer is one into the sequence.
LEMMA InsertIsSequence ==
    ASSUME ArrayIInv, NEW index \in Int, NEW n \in Nat, len + n <= MaxArray,
           NEW xs \in [0..(n - 1) -> Nodes], InsertItems(InsertIndex(index), xs, n)
    PROVE  Elements' = Node_ArrayInsert(Elements, index, AsSequence(xs, n))
<1> DEFINE at == InsertIndex(index)
           s == Elements
           sub == AsSequence(xs, n)
<1>1. len \in Nat /\ cap \in Nat /\ len <= cap /\ entries \in [0..(cap - 1) -> Slots]
  BY DEF ArrayIInv, ArrayTypeOK, WithinCapacity, Slots
<1>2. at \in 0..len
  BY <1>1 DEF InsertIndex
<1> HIDE DEF at
<1>3. xs \in [0..(n - 1) -> Slots]
  BY DEF Slots
<1>4. /\ len' = len + n
      /\ cap' \in Nat /\ len + n <= cap'
      /\ entries' \in [0..(cap' - 1) -> Slots]
      /\ \A i \in 0..(at - 1) : entries'[i] = entries[i]
      /\ \A i \in 0..(n - 1) : entries'[at + i] = xs[i]
      /\ \A i \in at..(len - 1) : entries'[i + n] = entries[i]
  BY <1>2, InsertedElements DEF Slots, at
<1>5. s = AsSequence(entries, len)
  BY Zenon DEF Elements, AsSequence
<1>6. s \in Seq(Slots) /\ Len(s) = len
  BY <1>1, <1>5, BufferAsSequence
<1> HIDE DEF sub, s
<1>7. Node_ArrayInsert(s, index, sub) = Splice(s, at, sub)
  <2> DEFINE fromEnd == FromEnd(Len(s), index)
             low == IF fromEnd < 0 THEN 0 ELSE fromEnd
             pos == IF low > Len(s) THEN Len(s) ELSE low
  <2>1. Node_ArrayInsert(s, index, sub) = SubSeq(s, 1, pos) \o sub \o SubSeq(s, pos + 1, Len(s))
    BY Zenon DEF Node_ArrayInsert
  <2>2. pos = at
    BY <1>1, <1>6 DEF FromEnd, InsertIndex, at
  <2> HIDE DEF pos
  <2> QED BY <2>1, <2>2, Zenon DEF Splice
<1>8. AsSequence(entries', len + n) = Splice(s, at, sub)
  <2>1. AsSequence(entries', len + n) = Splice(AsSequence(entries, len), at, AsSequence(xs, n))
    <3>1. GapFilled(entries, cap, len, at, xs, n, entries', cap')
      BY <1>1, <1>2, <1>3, <1>4 DEF GapFilled
    <3> QED BY <3>1, SplicedBuffer
  <2> QED BY <1>5, <2>1, Zenon DEF sub
<1>9. Elements' = AsSequence(entries', len + n)
  BY <1>4, Zenon DEF Elements, AsSequence
<1> QED BY <1>7, <1>8, <1>9, Zenon DEF s, sub

\* One deletion from the buffer is one from the sequence.
LEMMA DelRangeIsSequence ==
    ASSUME ArrayIInv, NEW index \in Int, NEW n \in Nat \ {0}, len > 0, index >= -len,
           DelBetween(DelStart(index), DelStop(DelStart(index), n))
    PROVE  Elements' = Node_ArrayDelRange(Elements, index, n)
<1> DEFINE start == DelStart(index)
           stop == DelStop(start, n)
           s == Elements
<1>1. len \in Nat /\ cap \in Nat /\ len <= cap /\ entries \in [0..(cap - 1) -> Slots]
  BY DEF ArrayIInv, ArrayTypeOK, WithinCapacity, Slots
<1>2. start \in 0..len /\ stop \in start..len
  BY <1>1 DEF DelStart, DelStop
<1>3. /\ len' = len - (stop - start) /\ cap' = cap
      /\ entries' \in [0..(cap - 1) -> Slots]
      /\ \A i \in 0..(start - 1) : entries'[i] = entries[i]
      /\ \A i \in stop..(len - 1) : entries'[i - (stop - start)] = entries[i]
  BY <1>2, LeftElements DEF Slots
<1>4. s \in Seq(Slots) /\ Len(s) = len
  BY <1>1, BufferAsSequence DEF Elements, AsSequence
<1>5. Node_ArrayDelRange(s, index, n) = SubSeq(s, 1, start) \o SubSeq(s, stop + 1, len)
  <2> HIDE DEF s
  <2> DEFINE first == IF index < 0 THEN Len(s) + index ELSE IF index < Len(s) THEN index ELSE Len(s) - 1
             last == IF first + n < Len(s) THEN first + n ELSE Len(s)
  <2>1. ~(n <= 0 \/ Len(s) = 0)
    BY <1>1, <1>4
  <2>2. Node_ArrayDelRange(s, index, n) = SubSeq(s, 1, first) \o SubSeq(s, last + 1, Len(s))
    BY <2>1, Zenon DEF Node_ArrayDelRange
  <2>3. first = start /\ last = stop
    BY <1>1, <1>4 DEF DelStart, DelStop
  <2> HIDE DEF first, last, start, stop
  <2> QED BY <1>4, <2>2, <2>3, Zenon
<1> HIDE DEF start, stop
<1>6. AsSequence(entries', len - (stop - start)) = SubSeq(s, 1, start) \o SubSeq(s, stop + 1, len)
  BY <1>1, <1>2, <1>3, CutBuffer DEF Elements, AsSequence
<1>7. Elements' = AsSequence(entries', len - (stop - start))
  BY <1>3, Zenon DEF Elements, AsSequence
<1> QED BY <1>5, <1>6, <1>7, Zenon

\* A length that has grown has grown by a positive number.
LEMMA GrownBy ==
    ASSUME NEW a \in Nat, NEW b \in Nat, a < b, NEW bound, b <= bound
    PROVE  b - a \in Nat /\ a + (b - a) <= bound
OBVIOUS

\* Whatever memmove, memcpy and the reallocation do to the buffer, the elements
\* change as the sequence does with which the commands are modelled: at every
\* index, and for every number of elements.
THEOREM ArrayAlwaysSequence == ArraySpec => ArrayIsSequence
<1> DEFINE Step ==
        /\ len' > len =>
             LET n == len' - len
             IN  \A index \in Indexes, xs \in Fresh(n) :
                    InsertItems(InsertIndex(index), xs, n)
                        => Elements' = Node_ArrayInsert(Elements, index, AsSequence(xs, n))
        /\ len' < len =>
             \A index \in Indexes, n \in Counts \ {0} :
                index >= -len /\ DelBetween(DelStart(index), DelStop(DelStart(index), n))
                    => Elements' = Node_ArrayDelRange(Elements, index, n)
<1>1. ArrayIInv /\ [ArrayNext]_arrayVars => [Step]_arrayVars
  <2> SUFFICES ASSUME ArrayIInv, [ArrayNext]_arrayVars, arrayVars' # arrayVars PROVE Step
    BY DEF arrayVars
  <2>1. ArrayNext
    OBVIOUS
  <2>2. len \in Nat /\ Indexes \subseteq Int /\ Counts \subseteq Nat
    BY ArrayAssumption DEF ArrayIInv, ArrayTypeOK, ArrayAssumption
  <2>3. ASSUME len' > len, NEW index \in Indexes, NEW xs \in Fresh(len' - len),
               InsertItems(InsertIndex(index), xs, len' - len)
        PROVE  Elements' = Node_ArrayInsert(Elements, index, AsSequence(xs, len' - len))
    <3> DEFINE n == len' - len
    <3>1. n \in Nat /\ len + n <= MaxArray
      <4>1. len' \in Nat
        BY ArrayNextIInv, <2>1 DEF ArrayIInv, ArrayTypeOK
      <4>2. len' <= MaxArray
        <5>1. CASE ArrayInsert
          BY <2>2, <5>1 DEF ArrayInsert, InsertItems
        <5>2. CASE ArrayAppend \/ ArrayPrepend
          BY <2>2, <5>2 DEF ArrayAppend, ArrayPrepend, InsertItems
        <5>3. CASE ArrayDelRange
          <6>1. PICK i \in Indexes, c \in Counts \ {0} :
                    len > 0 /\ i >= -len /\ DelBetween(DelStart(i), DelStop(DelStart(i), c))
            BY <5>3 DEF ArrayDelRange
          <6>2. len' = len - (DelStop(DelStart(i), c) - DelStart(i))
            BY <6>1 DEF DelBetween
          <6>3. DelStart(i) \in 0..len /\ DelStop(DelStart(i), c) \in DelStart(i)..len
            BY <2>2, <6>1 DEF DelStart, DelStop
          <6> QED BY <2>2, <2>3, <6>2, <6>3
        <5>4. CASE ArraySet
          BY <2>2, <2>3, <5>4 DEF ArraySet
        <5> QED BY <2>1, <5>1, <5>2, <5>3, <5>4 DEF ArrayNext
      <4>3. len' > len
        BY <2>3
      <4> QED BY <2>2, <4>1, <4>2, <4>3, GrownBy
    <3>2. xs \in [0..(n - 1) -> Nodes] /\ index \in Int
      BY <2>2 DEF Fresh
    <3> HIDE DEF n
    <3>3. InsertItems(InsertIndex(index), xs, n)
      BY <2>3 DEF n
    <3>4. Elements' = Node_ArrayInsert(Elements, index, AsSequence(xs, n))
      BY <3>1, <3>2, <3>3, InsertIsSequence
    <3> QED BY <3>4 DEF n
  <2>4. ASSUME len' < len, NEW index \in Indexes, NEW n \in Counts \ {0}, index >= -len,
               DelBetween(DelStart(index), DelStop(DelStart(index), n))
        PROVE  Elements' = Node_ArrayDelRange(Elements, index, n)
    <3>1. index \in Int /\ n \in Nat \ {0} /\ len > 0
      <4>1. len' \in Nat
        BY ArrayNextIInv, <2>1 DEF ArrayIInv, ArrayTypeOK
      <4> QED BY <2>2, <2>4, <4>1
    <3> QED BY <2>4, <3>1, DelRangeIsSequence
  <2> QED BY <2>3, <2>4
<1> QED BY <1>1, ArrayAlwaysIInv, PTL DEF ArraySpec, ArrayIsSequence
-----------------------------------------------------------------------------
(* The dictionary.                                                         *)

\* Sequences that differ from s by an element behind it, by one replaced, and
\* by one that the last element has taken the place of.
LEMMA AppendedTo ==
    ASSUME NEW S, NEW s \in Seq(S), NEW t \in Seq(S), NEW x \in S,
           Len(t) = Len(s) + 1, \A i \in 1..Len(s) : t[i] = s[i], t[Len(s) + 1] = x
    PROVE  t = Append(s, x)
<1> DEFINE u == Append(s, x)
<1>1. u \in Seq(S) /\ Len(u) = Len(s) + 1 /\ Len(s) \in Nat
  OBVIOUS
<1>2. ASSUME NEW i \in 1..Len(t) PROVE t[i] = u[i]
  BY <1>1
<1> HIDE DEF u
<1>3. t = u
  BY <1>1, <1>2, SeqEqual
<1> QED BY <1>3 DEF u

\* One element is replaced.
LEMMA ReplacedIn ==
    ASSUME NEW S, NEW s \in Seq(S), NEW t \in Seq(S), NEW at \in 1..Len(s), NEW x \in S,
           Len(t) = Len(s), t[at] = x, \A i \in 1..Len(s) : i # at => t[i] = s[i]
    PROVE  t = [s EXCEPT ![at] = x]
<1> DEFINE u == [s EXCEPT ![at] = x]
<1>1. /\ u \in Seq(S) /\ Len(u) = Len(s)
      /\ \A i \in 1..Len(s) : u[i] = IF i = at THEN x ELSE s[i]
  BY ExceptSeq
<1> HIDE DEF u
<1>2. \A i \in 1..Len(t) : t[i] = u[i]
  BY <1>1
<1>3. t = u
  BY <1>1, <1>2, SeqEqual
<1> QED BY <1>3 DEF u

\* The last element takes the place of another.
LEMMA SwappedOut ==
    ASSUME NEW S, NEW s \in Seq(S), NEW t \in Seq(S), NEW at \in 1..Len(s),
           Len(t) = Len(s) - 1,
           \A i \in 1..Len(t) : i = at => t[i] = s[Len(s)],
           \A i \in 1..Len(t) : i # at => t[i] = s[i]
    PROVE  t = SwapDelete(s, at)
<1> DEFINE filled == [s EXCEPT ![at] = Last(s)]
           u == SubSeq(filled, 1, Len(s) - 1)
<1>1. Len(s) \in Nat \ {0} /\ Last(s) = s[Len(s)] /\ s[Len(s)] \in S
  BY DEF Last
<1>2. /\ filled \in Seq(S) /\ Len(filled) = Len(s)
      /\ \A i \in 1..Len(s) : filled[i] = IF i = at THEN s[Len(s)] ELSE s[i]
  BY <1>1, ExceptSeq
<1>3. SwapDelete(s, at) = u
  BY <1>2, Zenon DEF SwapDelete, Front
<1> HIDE DEF filled
<1>4. Len(s) - 1 \in 0..Len(filled)
  BY <1>1, <1>2
<1>5. u \in Seq(S) /\ Len(u) = Len(s) - 1 /\ \A i \in 1..(Len(s) - 1) : u[i] = filled[i]
  BY <1>2, <1>4, PartUpTo
<1> HIDE DEF u
<1>6. ASSUME NEW i \in 1..Len(t) PROVE t[i] = u[i]
  <2>1. i \in 1..(Len(s) - 1) /\ i \in 1..Len(s)
    BY <1>1
  <2> QED BY <1>2, <1>5, <2>1
<1>7. t = u
  BY <1>5, <1>6, SeqEqual
<1> QED BY <1>3, <1>7

\* The keys and the values of the first slots, as sequences.
KeysOf(b, n) == [i \in 1..n |-> b[i - 1].key]
ValuesOf(b, n) == [i \in 1..n |-> b[i - 1].val]

\* The keys and the values in a buffer are sequences.
LEMMA FieldsOf ==
    ASSUME NEW b, NEW n \in Nat, \A i \in 0..(n - 1) : b[i] \in KeyVals
    PROVE  /\ KeysOf(b, n) \in Seq(DictKeys) /\ Len(KeysOf(b, n)) = n
           /\ ValuesOf(b, n) \in Seq(Values) /\ Len(ValuesOf(b, n)) = n
           /\ \A i \in 1..n :
                /\ i - 1 \in 0..(n - 1)
                /\ KeysOf(b, n)[i] = b[i - 1].key
                /\ ValuesOf(b, n)[i] = b[i - 1].val
<1>1. ASSUME NEW i \in 1..n
      PROVE  i - 1 \in 0..(n - 1) /\ b[i - 1].key \in DictKeys /\ b[i - 1].val \in Values
  <2>1. i - 1 \in 0..(n - 1)
    OBVIOUS
  <2> QED BY <2>1 DEF KeyVals
<1> QED BY <1>1 DEF KeysOf, ValuesOf

\* The keys and the values of a sound dictionary are read entry by entry.
LEMMA DictFields ==
    ASSUME DictIInv
    PROVE  /\ KeysOf(slots, dlen) \in Seq(DictKeys) /\ Len(KeysOf(slots, dlen)) = dlen
           /\ ValuesOf(slots, dlen) \in Seq(Values) /\ Len(ValuesOf(slots, dlen)) = dlen
           /\ \A i \in 1..dlen :
                /\ i - 1 \in 0..(dlen - 1)
                /\ KeysOf(slots, dlen)[i] = slots[i - 1].key
                /\ ValuesOf(slots, dlen)[i] = slots[i - 1].val
<1>1. dlen \in Nat /\ \A i \in 0..(dlen - 1) : slots[i] \in KeyVals
  BY DictParts
<1> QED BY <1>1, FieldsOf

\* __obj_find finds in the buffer what it finds among the keys.
LEMMA FoundAmongKeys ==
    ASSUME DictIInv, NEW key \in DictKeys
    PROVE  /\ HasKey(Members, key) <=> Found(key) < dlen
           /\ HasKey(Members, key) => obj_find(Members, key) = Found(key) + 1
<1> DEFINE K == KeysOf(slots, dlen)
           at == Found(key)
           there == {i \in DOMAIN K : K[i] = key}
<1>1. dlen \in Nat /\ K \in Seq(DictKeys) /\ Len(K) = dlen
  BY DictParts, DictFields
<1>2. \A i \in 1..dlen : i - 1 \in 0..(dlen - 1) /\ K[i] = slots[i - 1].key
  BY DictFields
<1>3. /\ at \in 0..dlen
      /\ at < dlen => slots[at].key = key
      /\ at = dlen => \A i \in 0..(dlen - 1) : slots[i].key # key
  BY FoundFirst
<1>4. Members.keys = K
  BY Zenon DEF Members, NewDictNode, New, KeysOf
<1>5. Positions(Members, key) = there
  BY <1>4, Zenon DEF Positions
<1> HIDE DEF K, at
<1>6. DOMAIN K = 1..dlen
  BY <1>1
<1>7. CASE at = dlen
  <2>1. there = {}
    BY <1>2, <1>3, <1>6, <1>7
  <2> QED BY <1>1, <1>5, <1>7, <2>1 DEF HasKey, at
<1>8. CASE at < dlen
  <2> DEFINE n == at + 1
  <2>1. n \in 1..dlen /\ n - 1 = at
    BY <1>1, <1>3, <1>8
  <2>2. n \in there
    BY <1>2, <1>3, <1>6, <1>8, <2>1
  <2>3. ASSUME NEW i \in there PROVE i = n
    <3>1. /\ i \in 1..dlen /\ i - 1 \in 0..(dlen - 1) /\ n - 1 \in 0..(dlen - 1)
          /\ slots[i - 1].key = slots[n - 1].key
      BY <1>2, <1>3, <1>6, <1>8, <2>1
    <3>2. i - 1 = n - 1
      BY <3>1, DictParts
    <3> QED BY <1>1, <2>1, <3>1, <3>2
  <2> HIDE DEF there, n
  <2>4. (CHOOSE i \in there : \A j \in there : i <= j) = n
    <3>1. n <= n
      BY <2>1
    <3> QED BY <2>2, <2>3, <3>1
  <2>5. obj_find(Members, key) = n
    BY <1>5, <2>4 DEF obj_find
  <2> QED BY <1>5, <1>8, <2>2, <2>5 DEF HasKey, at, n
<1> QED BY <1>1, <1>3, <1>7, <1>8

\* The keys and values read from a buffer.
LEMMA MembersParts ==
    /\ Members = NewDictNode(KeysOf(slots, dlen), ValuesOf(slots, dlen))
    /\ Members' = NewDictNode(KeysOf(slots', dlen'), ValuesOf(slots', dlen'))
BY Zenon DEF Members, KeysOf, ValuesOf

\* Setting a key that is not there appends it, with its value.
LEMMA InsertIsMap ==
    ASSUME DictIInv, NEW kv \in KeyVals, Found(kv.key) = dlen, obj_insert(kv), DictIInv'
    PROVE  Members' = Node_DictSet(Members, kv.key, kv.val)
<1> DEFINE K == KeysOf(slots, dlen)
           V == ValuesOf(slots, dlen)
           K2 == KeysOf(slots', dlen')
           V2 == ValuesOf(slots', dlen')
<1>1. /\ dlen \in Nat /\ dlen' = dlen + 1 /\ slots'[dlen] = kv
      /\ \A i \in 0..(dlen - 1) : slots'[i] = slots[i]
      /\ kv.key \in DictKeys /\ kv.val \in Values
  BY InsertedSlots, DictParts DEF KeyVals
<1>2. /\ K \in Seq(DictKeys) /\ Len(K) = dlen /\ V \in Seq(Values) /\ Len(V) = dlen
      /\ \A i \in 1..dlen :
            i - 1 \in 0..(dlen - 1) /\ K[i] = slots[i - 1].key /\ V[i] = slots[i - 1].val
  BY DictFields
<1>3. dlen' \in Nat /\ \A i \in 0..(dlen' - 1) : slots'[i] \in KeyVals
  BY DEF DictIInv, DictTypeOK, DictSound
<1>4. /\ K2 \in Seq(DictKeys) /\ Len(K2) = dlen' /\ V2 \in Seq(Values) /\ Len(V2) = dlen'
      /\ \A i \in 1..dlen' : K2[i] = slots'[i - 1].key /\ V2[i] = slots'[i - 1].val
  BY <1>3, FieldsOf
<1>5. Members = NewDictNode(K, V) /\ Members' = NewDictNode(K2, V2)
  BY MembersParts
<1> HIDE DEF K, V, K2, V2
<1>6. /\ \A i \in 1..dlen : K2[i] = K[i] /\ V2[i] = V[i]
      /\ K2[dlen + 1] = kv.key /\ V2[dlen + 1] = kv.val
  <2>1. /\ \A i \in 1..dlen : i \in 1..dlen'
        /\ dlen + 1 \in 1..dlen' /\ (dlen + 1) - 1 = dlen
    BY <1>1
  <2> QED BY <1>1, <1>2, <1>4, <2>1
<1>7. K2 = Append(K, kv.key)
  BY <1>1, <1>2, <1>4, <1>6, AppendedTo
<1>8. V2 = Append(V, kv.val)
  BY <1>1, <1>2, <1>4, <1>6, AppendedTo
<1>9. ~HasKey(Members, kv.key)
  BY <1>1, FoundAmongKeys
<1> QED BY <1>5, <1>7, <1>8, <1>9 DEF Node_DictSet, NewDictNode, New

\* Setting a key that is there replaces its value.
LEMMA ReplaceIsMap ==
    ASSUME DictIInv, NEW kv \in KeyVals, Found(kv.key) < dlen, Replace(Found(kv.key), kv),
           DictIInv'
    PROVE  Members' = Node_DictSet(Members, kv.key, kv.val)
<1> DEFINE K == KeysOf(slots, dlen)
           V == ValuesOf(slots, dlen)
           K2 == KeysOf(slots', dlen')
           V2 == ValuesOf(slots', dlen')
           f == Found(kv.key)
           at == f + 1
<1>1. kv.key \in DictKeys /\ kv.val \in Values
  BY DEF KeyVals
<1>2. f \in 0..(dlen - 1) /\ slots[f].key = kv.key /\ dlen \in Nat
  BY <1>1, FoundFirst, DictParts
<1>3. /\ dlen' = dlen /\ slots'[f] = kv
      /\ \A i \in 0..(dlen - 1) : i # f => slots'[i] = slots[i]
  BY <1>2, ReplacedSlots
<1>4. /\ K \in Seq(DictKeys) /\ Len(K) = dlen /\ V \in Seq(Values) /\ Len(V) = dlen
      /\ \A i \in 1..dlen :
            i - 1 \in 0..(dlen - 1) /\ K[i] = slots[i - 1].key /\ V[i] = slots[i - 1].val
  BY DictFields
<1>5. dlen' \in Nat /\ \A i \in 0..(dlen' - 1) : slots'[i] \in KeyVals
  BY DEF DictIInv, DictTypeOK, DictSound
<1>6. /\ K2 \in Seq(DictKeys) /\ Len(K2) = dlen' /\ V2 \in Seq(Values) /\ Len(V2) = dlen'
      /\ \A i \in 1..dlen' : K2[i] = slots'[i - 1].key /\ V2[i] = slots'[i - 1].val
  BY <1>5, FieldsOf
<1>7. Members = NewDictNode(K, V) /\ Members' = NewDictNode(K2, V2)
  BY MembersParts
<1>8. HasKey(Members, kv.key) /\ obj_find(Members, kv.key) = at
  BY <1>1, FoundAmongKeys
<1> HIDE DEF K, V, K2, V2, f
<1>9. at \in 1..dlen /\ at - 1 = f /\ \A i \in 1..dlen : i # at => i - 1 # f
  BY <1>2
<1> HIDE DEF at
<1>10. ASSUME NEW i \in 1..dlen
       PROVE  /\ K2[i] = K[i]
              /\ V2[i] = IF i = at THEN kv.val ELSE V[i]
  <2>1. CASE i = at
    BY <1>2, <1>3, <1>4, <1>6, <1>9, <2>1
  <2>2. CASE i # at
    BY <1>3, <1>4, <1>6, <1>9, <2>2
  <2> QED BY <2>1, <2>2
<1>11. K2 = K
  BY <1>3, <1>4, <1>6, <1>10, SeqEqual
<1>12. V2 = [V EXCEPT ![at] = kv.val]
  <2>1. at \in 1..Len(V) /\ Len(V2) = Len(V)
    BY <1>3, <1>4, <1>6, <1>9
  <2>2. V2[at] = kv.val /\ \A i \in 1..Len(V) : i # at => V2[i] = V[i]
    BY <1>4, <1>9, <1>10
  <2> QED BY <1>1, <1>4, <1>6, <2>1, <2>2, ReplacedIn
<1> QED BY <1>7, <1>8, <1>11, <1>12 DEF Node_DictSet, NewDictNode, New

\* Deleting a key puts the last one, with its value, in its place.
LEMMA DeleteIsMap ==
    ASSUME DictIInv, NEW key \in DictKeys, DelKey(key), DictIInv'
    PROVE  Members' = Node_DictDel(Members, key)
<1> DEFINE K == KeysOf(slots, dlen)
           V == ValuesOf(slots, dlen)
           K2 == KeysOf(slots', dlen')
           V2 == ValuesOf(slots', dlen')
           f == Found(key)
           at == f + 1
<1>1. /\ f \in 0..(dlen - 1) /\ dlen' = dlen - 1 /\ dlen \in Nat
      /\ \A i \in 0..(dlen - 2) : slots'[i] = IF i = f THEN slots[dlen - 1] ELSE slots[i]
  BY DeletedSlots, DictParts
<1>2. /\ K \in Seq(DictKeys) /\ Len(K) = dlen /\ V \in Seq(Values) /\ Len(V) = dlen
      /\ \A i \in 1..dlen :
            i - 1 \in 0..(dlen - 1) /\ K[i] = slots[i - 1].key /\ V[i] = slots[i - 1].val
  BY DictFields
<1>3. dlen' \in Nat /\ \A i \in 0..(dlen' - 1) : slots'[i] \in KeyVals
  BY DEF DictIInv, DictTypeOK, DictSound
<1>4. /\ K2 \in Seq(DictKeys) /\ Len(K2) = dlen' /\ V2 \in Seq(Values) /\ Len(V2) = dlen'
      /\ \A i \in 1..dlen' : K2[i] = slots'[i - 1].key /\ V2[i] = slots'[i - 1].val
  BY <1>3, FieldsOf
<1>5. Members = NewDictNode(K, V) /\ Members' = NewDictNode(K2, V2)
  BY MembersParts
<1>6. obj_find(Members, key) = at
  <2>1. f < dlen
    BY <1>1
  <2> QED BY <2>1, FoundAmongKeys
<1> HIDE DEF K, V, K2, V2, f
<1>7. at \in 1..dlen /\ at - 1 = f /\ dlen \in 1..dlen
  BY <1>1
<1>8. ASSUME NEW i \in 1..dlen'
      PROVE  /\ K2[i] = IF i = at THEN K[dlen] ELSE K[i]
             /\ V2[i] = IF i = at THEN V[dlen] ELSE V[i]
  <2>1. /\ i \in 1..dlen /\ i - 1 \in 0..(dlen - 2) /\ (i = at <=> i - 1 = f)
    BY <1>1, <1>7
  <2>2. /\ K2[i] = slots'[i - 1].key /\ V2[i] = slots'[i - 1].val
        /\ K[i] = slots[i - 1].key /\ V[i] = slots[i - 1].val
        /\ K[dlen] = slots[dlen - 1].key /\ V[dlen] = slots[dlen - 1].val
    BY <1>2, <1>4, <1>7, <2>1
  <2>3. slots'[i - 1] = IF i = at THEN slots[dlen - 1] ELSE slots[i - 1]
    BY <1>1, <2>1
  <2> QED BY <2>2, <2>3
<1> HIDE DEF at
<1>9. K2 = SwapDelete(K, at)
  <2>1. at \in 1..Len(K) /\ Len(K2) = Len(K) - 1
    BY <1>1, <1>2, <1>4, <1>7
  <2>2. /\ \A i \in 1..Len(K2) : i = at => K2[i] = K[Len(K)]
        /\ \A i \in 1..Len(K2) : i # at => K2[i] = K[i]
    BY <1>2, <1>4, <1>8
  <2> QED BY <1>2, <1>4, <2>1, <2>2, SwappedOut, Zenon
<1>10. V2 = SwapDelete(V, at)
  <2>1. at \in 1..Len(V) /\ Len(V2) = Len(V) - 1
    BY <1>1, <1>2, <1>4, <1>7
  <2>2. /\ \A i \in 1..Len(V2) : i = at => V2[i] = V[Len(V)]
        /\ \A i \in 1..Len(V2) : i # at => V2[i] = V[i]
    BY <1>2, <1>4, <1>8
  <2> QED BY <1>2, <1>4, <2>1, <2>2, SwappedOut, Zenon
<1>11. Node_DictDel(Members, key) = NewDictNode(SwapDelete(K, at), SwapDelete(V, at))
  <2>1. Node_DictDel(Members, key) =
          [Members EXCEPT !.keys = SwapDelete(Members.keys, at),
                          !.entries = SwapDelete(Members.entries, at)]
    BY <1>6 DEF Node_DictDel
  <2>2. Members.keys = K /\ Members.entries = V
    BY <1>5 DEF NewDictNode, New
  <2> DEFINE k2 == SwapDelete(K, at)
             v2 == SwapDelete(V, at)
  <2>3. Node_DictDel(Members, key) = [Members EXCEPT !.keys = k2, !.entries = v2]
    BY <2>1, <2>2
  <2> HIDE DEF k2, v2
  <2>4. Node_DictDel(Members, key) = NewDictNode(k2, v2)
    BY <1>5, <2>3 DEF NewDictNode, New
  <2> QED BY <2>4 DEF k2, v2
<1> QED BY <1>5, <1>9, <1>10, <1>11, Zenon

\* The invariant of the dictionary always holds.
LEMMA DictAlwaysIInv == DictSpec => []DictIInv
BY DictInitIInv, DictNextIInv, PTL DEF DictSpec

\* Whatever growing the buffer and filling the hole do to it, a dictionary is
\* to its keys the map with which the commands are modelled, whose keys stay in
\* the order in which they were set but for the one that fills a hole.
THEOREM DictAlwaysMap == DictSpec => DictIsMap
<1> DEFINE Step ==
        /\ dlive' # dlive /\ dlen' >= dlen =>
             \A kv \in KeyVals : DictSetTo(kv) => Members' = Node_DictSet(Members, kv.key, kv.val)
        /\ dlen' < dlen =>
             \A key \in DictKeys : DelKey(key) => Members' = Node_DictDel(Members, key)
<1>1. DictIInv /\ [DictNext]_dictVars => [Step]_dictVars
  <2> SUFFICES ASSUME DictIInv, [DictNext]_dictVars PROVE Step
    OBVIOUS
  <2>1. DictIInv'
    BY DictNextIInv
  <2>2. ASSUME NEW kv \in KeyVals, DictSetTo(kv)
        PROVE  Members' = Node_DictSet(Members, kv.key, kv.val)
    <3>1. kv.key \in DictKeys
      BY DEF KeyVals
    <3>2. CASE Found(kv.key) < dlen
      <4>1. Replace(Found(kv.key), kv)
        BY <2>2, <3>2 DEF DictSetTo
      <4> QED BY <2>1, <3>2, <4>1, ReplaceIsMap
    <3>3. CASE ~(Found(kv.key) < dlen)
      <4>1. Found(kv.key) = dlen
        BY <3>1, <3>3, FoundFirst, DictParts
      <4>2. obj_insert(kv)
        BY <2>2, <3>3 DEF DictSetTo
      <4> QED BY <2>1, <4>1, <4>2, InsertIsMap
    <3> QED BY <3>2, <3>3
  <2>3. ASSUME NEW key \in DictKeys, DelKey(key)
        PROVE  Members' = Node_DictDel(Members, key)
    BY <2>1, <2>3, DeleteIsMap
  <2> QED BY <2>2, <2>3
<1> QED BY <1>1, DictAlwaysIInv, PTL DEF DictSpec, DictIsMap
=============================================================================
