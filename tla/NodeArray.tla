----------------------------- MODULE NodeArray ------------------------------
(***************************************************************************)
(* The memory of an array (t_array of object.c): a buffer of cap slots of  *)
(* which the first len hold pointers to the children, and the set of       *)
(* children allocated.  A slot behind len keeps what was last written to   *)
(* it, a pointer to a freed child included.  JSON's null, a NULL pointer   *)
(* that is nobody's, is not among the children here.                       *)
(***************************************************************************)
EXTENDS Integers

CONSTANTS
    Nodes,          \* addresses of children
    Garbage,        \* what a slot holds before it is written
    Powers,         \* the powers of two among the capacities
    CHUNK_SIZE,     \* capacities above it are multiples of it (2^20)
    MaxArray,       \* bound on the length
    Counts,         \* numbers of elements to insert or delete, indexes to do it at
    Indexes

VARIABLES
    entries, len, cap,      \* arrval
    live,                   \* children allocated and not freed
    overrun                 \* something was written outside the buffer

arrayVars == <<entries, len, cap, live, overrun>>

ASSUME ArrayAssumption ==
    /\ Garbage \notin Nodes
    /\ CHUNK_SIZE \in Nat \ {0} /\ MaxArray \in Nat
    /\ Powers \subseteq Nat
    /\ \A n \in 1..MaxArray : \E p \in Powers : n <= p
    /\ Counts \subseteq Nat /\ Indexes \subseteq Int

-----------------------------------------------------------------------------
(* Memory.                                                                 *)

\* memmove within a buffer, and memcpy into one.
Moved(buffer, to, from, n) ==
    [i \in DOMAIN buffer |-> IF to <= i /\ i < to + n THEN buffer[from + (i - to)] ELSE buffer[i]]

Copied(buffer, to, source, n) ==
    [i \in DOMAIN buffer |-> IF to <= i /\ i < to + n THEN source[i - to] ELSE buffer[i]]

\* The next capacity: a power of two, or a number of chunks.
NextPower(n) == CHOOSE p \in Powers : n <= p /\ \A q \in Powers : n <= q => p <= q

NextCap(n) ==
    IF NextPower(n) > CHUNK_SIZE THEN (n \div CHUNK_SIZE + 1) * CHUNK_SIZE ELSE NextPower(n)

\* __node_ArrayMakeRoomFor: the capacity, and the buffer reallocated.
RoomForOne(addlen) == IF cap >= len + 1 THEN cap ELSE NextCap(len + addlen)

RoomFor(addlen) == IF cap >= len + addlen THEN cap ELSE NextCap(len + addlen)

Realloc(newcap) == [i \in 0..(newcap - 1) |-> IF i < cap THEN entries[i] ELSE Garbage]

\* New children, as the buffer of the array that brings them.
Fresh(n) == {xs \in [0..(n - 1) -> Nodes \ live] : \A i, j \in 0..(n - 1) : xs[i] = xs[j] => i = j}

-----------------------------------------------------------------------------

ArrayInit ==
    /\ cap \in Counts /\ len = 0
    /\ entries = [i \in 0..(cap - 1) |-> Garbage]
    /\ live = {} /\ overrun = FALSE

\* Room for n children, the tail moved up and xs copied into the gap.
InsertItems(at, xs, n) ==
    /\ len' = len + n
    /\ live' = live \cup {xs[i] : i \in 0..(n - 1)}
    /\ cap' = RoomFor(n)
    /\ entries' = Copied(Moved(Realloc(RoomFor(n)), at + n, at, len - at), at, xs, n)
    /\ overrun' = (overrun \/ len + n > RoomFor(n))

\* Where Node_ArrayInsert inserts: without the second clamp, and with it.
InsertIndexUnclamped(index) ==
    LET fromEnd == IF index < 0 THEN len + index ELSE index
    IN  IF fromEnd < 0 THEN 0 ELSE fromEnd

InsertIndex(index) ==
    LET fromEnd == IF index < 0 THEN len + index ELSE index
    IN  IF fromEnd < 0 THEN 0 ELSE IF fromEnd > len THEN len ELSE fromEnd

ArrayInsert ==
    \E index \in Indexes, n \in Counts :
        /\ len + n <= MaxArray
        /\ \E xs \in Fresh(n) : InsertItems(InsertIndex(index), xs, n)

\* Node_ArrayAppend writes behind the last element; Node_ArrayPrepend inserts
\* an array of one element.
ArrayAppend ==
    /\ len + 1 <= MaxArray
    /\ \E n \in Nodes \ live :
        /\ cap' = RoomFor(1)
        /\ entries' = [Realloc(RoomFor(1)) EXCEPT ![len] = n]
        /\ overrun' = (overrun \/ len >= RoomFor(1))
        /\ len' = len + 1
        /\ live' = live \cup {n}

ArrayPrepend ==
    /\ len + 1 <= MaxArray
    /\ \E xs \in Fresh(1) : InsertItems(0, xs, 1)

\* The callers pass no index before the first element.
DelStart(index) == IF index < 0 THEN len + index ELSE IF index < len THEN index ELSE len - 1
DelStop(start, count) == IF start + count < len THEN start + count ELSE len

\* A tail one element short.
DelBetweenShort(start, stop) ==
    /\ len' = len - (stop - start)
    /\ live' = live \ {entries[i] : i \in start..(stop - 1)}
    /\ entries' = Moved(entries, start, stop, len - stop - 1)
    /\ UNCHANGED <<cap, overrun>>

DelBetween(start, stop) ==
    /\ len' = len - (stop - start)
    /\ live' = live \ {entries[i] : i \in start..(stop - 1)}
    /\ entries' = Moved(entries, start, stop, len - stop)
    /\ UNCHANGED <<cap, overrun>>

ArrayDelRange ==
    \E index \in Indexes, count \in Counts \ {0} :
        /\ len > 0 /\ index >= -len
        /\ DelBetween(DelStart(index), DelStop(DelStart(index), count))

\* Node_ArraySet and the freeing of the old element, which is its caller's.
ArraySet ==
    \E index \in Indexes, n \in Nodes \ live :
        /\ 0 <= index /\ index < len
        /\ entries' = [entries EXCEPT ![index] = n]
        /\ live' = (live \ {entries[index]}) \cup {n}
        /\ UNCHANGED <<len, cap, overrun>>

ArrayNext == ArrayInsert \/ ArrayAppend \/ ArrayPrepend \/ ArrayDelRange \/ ArraySet

ArraySpec == ArrayInit /\ [][ArrayNext]_arrayVars

-----------------------------------------------------------------------------

ArrayTypeOK ==
    /\ len \in Nat /\ cap \in Nat
    /\ entries \in [0..(cap - 1) -> Nodes \cup {Garbage}]
    /\ live \subseteq Nodes
    /\ overrun \in BOOLEAN

\* The array owns its children: each is in one slot below len, none of those
\* slots holds a freed one, and no allocated child has been lost on the way.
OwnedOnce ==
    /\ \A i \in 0..(len - 1) : entries[i] \in live
    /\ \A i, j \in 0..(len - 1) : entries[i] = entries[j] => i = j
    /\ \A n \in live : \E i \in 0..(len - 1) : entries[i] = n

\* The elements stay within the buffer, the moved tail too.
WithinCapacity == len <= cap /\ ~overrun
=============================================================================
