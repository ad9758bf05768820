--------------------------- MODULE LruCacheProofs ---------------------------
(***************************************************************************)
(* Proofs about LruCache: the type invariant, the soundness of the recency *)
(* list, the ownership of entries by documents, that a document never has  *)
(* two entries for a path, and that the cache implements the map of        *)
(* PathCache, each step of the lists being one of the map or changing      *)
(* nothing in it; for any number of entries, documents, paths, values and  *)
(* settings.                                                               *)
(***************************************************************************)
EXTENDS LruCache, SequenceTheorems, FiniteSetTheorems, TLAPS

-----------------------------------------------------------------------------
(* The two operations of the recency list.                                 *)

ListType == [prev : [Entries -> EntryOrNull], next : [Entries -> EntryOrNull],
             newest : EntryOrNull, oldest : EntryOrNull]

\* A sound list l over the live entries, with the history nw of their uses.
ListSound(l, live, nw) ==
    /\ l \in ListType
    /\ NoDanglingPointer(l, live)
    /\ LinksPaired(l)
    /\ NewestIsHead(l)
    /\ nw \in [Entries -> SUBSET Entries]
    /\ HistoryOrdered(nw, live)
    /\ LinksFollowHistory(l, nw)

\* Used and Forgotten for any history.
UsedIn(nw, live, e) == [x \in Entries |-> IF x = e THEN {}
                                          ELSE IF x \in live THEN nw[x] \cup {e} ELSE {}]
ForgottenIn(nw, e) == [x \in Entries |-> IF x = e THEN {} ELSE nw[x] \ {e}]

\* pluckEntry takes a live entry out of a sound list and leaves a sound list
\* of the others; an entry that is not on the list leaves it as it is.
LEMMA PluckSound ==
    ASSUME NEW live \in SUBSET Entries, NEW l, NEW nw, NEW e \in Entries,
           ListSound(l, live, nw)
    PROVE  ListSound(pluckEntry(l, e), live \ {e}, ForgottenIn(nw, e))
<1> DEFINE p == l.prev[e]
           n == l.next[e]
           q == pluckEntry(l, e)
<1>1. /\ NULL \notin Entries
      /\ l \in ListType /\ nw \in [Entries -> SUBSET Entries]
      /\ NoDanglingPointer(l, live) /\ LinksPaired(l) /\ NewestIsHead(l)
      /\ HistoryOrdered(nw, live) /\ LinksFollowHistory(l, nw)
  BY NullAssumption DEF ListSound
<1>2. p \in EntryOrNull /\ n \in EntryOrNull
  BY <1>1 DEF ListType
<1>3. \A x \in Entries : x \notin nw[x]
  BY <1>1 DEF HistoryOrdered
<1>4. p # e /\ n # e
  BY <1>1, <1>2, <1>3 DEF LinksPaired, LinksFollowHistory
<1>5. /\ q.prev = [x \in Entries |-> IF x = e THEN NULL ELSE IF x = n THEN p ELSE l.prev[x]]
      /\ q.next = [x \in Entries |-> IF x = e THEN NULL ELSE IF x = p THEN n ELSE l.next[x]]
      /\ q.newest = IF e = l.newest THEN p ELSE l.newest
      /\ q.oldest = IF e = l.oldest THEN n ELSE l.oldest
  BY DEF pluckEntry
<1>6. q \in ListType
  BY <1>1, <1>2 DEF pluckEntry, ListType, EntryOrNull
<1>7. \A x \in Entries : (l.next[x] = e <=> x = p) /\ (l.prev[x] = e <=> x = n)
  BY <1>1, <1>2 DEF LinksPaired, EntryOrNull, ListType
<1>8. NoDanglingPointer(q, live \ {e})
  <2>1. q.newest \in (live \ {e}) \cup {NULL}
    BY <1>1, <1>2, <1>4, <1>5 DEF NoDanglingPointer
  <2>2. q.oldest \in (live \ {e}) \cup {NULL}
    BY <1>1, <1>2, <1>4, <1>5 DEF NoDanglingPointer
  <2>3. p \in (live \ {e}) \cup {NULL} /\ n \in (live \ {e}) \cup {NULL}
    BY <1>1, <1>4 DEF NoDanglingPointer
  <2>4. ASSUME NEW x \in live \ {e}
        PROVE  /\ q.prev[x] \in (live \ {e}) \cup {NULL}
               /\ q.next[x] \in (live \ {e}) \cup {NULL}
    BY <1>1, <1>5, <1>7, <2>3 DEF NoDanglingPointer
  <2>5. ASSUME NEW x \in Entries \ (live \ {e})
        PROVE  q.prev[x] = NULL /\ q.next[x] = NULL
    <3>1. CASE x = e
      BY <3>1, <1>5
    <3>2. CASE x # e
      <4>1. x \in Entries \ live
        BY <3>2
      <4>2. x # p /\ x # n
        BY <4>1, <2>3, <1>1
      <4> QED BY <3>2, <4>1, <4>2, <1>1, <1>5 DEF NoDanglingPointer
    <3> QED BY <3>1, <3>2
  <2> QED BY <2>1, <2>2, <2>4, <2>5 DEF NoDanglingPointer
<1>9. LinksPaired(q)
  <2> SUFFICES ASSUME NEW x \in Entries, NEW y \in Entries
               PROVE  q.next[x] = y <=> q.prev[y] = x
    BY DEF LinksPaired
  <2>1. l.next[x] = y <=> l.prev[y] = x
    BY <1>1 DEF LinksPaired
  <2> QED BY <2>1, <1>1, <1>2, <1>4, <1>5, <1>7 DEF EntryOrNull
<1>10. NewestIsHead(q)
  <2>1. CASE e = l.newest
    BY <2>1, <1>1, <1>5 DEF NewestIsHead
  <2>2. CASE e # l.newest
    BY <2>2, <1>1, <1>2, <1>5, <1>7 DEF NewestIsHead, EntryOrNull, ListType
  <2> QED BY <2>1, <2>2
<1>11. ASSUME NEW x \in Entries, NEW y \in Entries, q.next[x] = y
       PROVE  x # e /\ y # e /\ x \in nw[y]
  <2>1. x # e
    BY <1>11, <1>1, <1>5
  <2>2. CASE x = p
    <3>1. y = n /\ l.next[x] = e /\ l.next[e] = y
      BY <2>2, <2>1, <1>11, <1>5, <1>7
    <3>2. x \in nw[e] /\ e \in nw[y]
      BY <3>1, <1>1 DEF LinksFollowHistory
    <3>3. x \in live /\ e \in live /\ y \in live
      BY <3>2, <1>1 DEF HistoryOrdered
    <3> QED BY <3>1, <3>2, <3>3, <2>1, <1>1, <1>4 DEF HistoryOrdered
  <2>3. CASE x # p
    BY <2>3, <2>1, <1>11, <1>1, <1>5, <1>7 DEF LinksFollowHistory
  <2> QED BY <2>2, <2>3
<1>12. LinksFollowHistory(q, ForgottenIn(nw, e))
  BY <1>11 DEF LinksFollowHistory, ForgottenIn
<1>13. /\ ForgottenIn(nw, e) \in [Entries -> SUBSET Entries]
       /\ HistoryOrdered(ForgottenIn(nw, e), live \ {e})
  BY <1>1 DEF ForgottenIn, HistoryOrdered
<1> QED BY <1>1, <1>6, <1>8, <1>9, <1>10, <1>12, <1>13 DEF ListSound

\* touchEntry puts an entry, old or new, in front of all the live ones.
LEMMA TouchSound ==
    ASSUME NEW live \in SUBSET Entries, NEW l, NEW nw, NEW e \in Entries,
           ListSound(l, live, nw)
    PROVE  ListSound(touchEntry(l, e), live \cup {e}, UsedIn(nw, live, e))
<1> DEFINE q == pluckEntry(l, e)
           t == touchEntry(l, e)
           others == live \ {e}
           old == ForgottenIn(nw, e)
           new == UsedIn(nw, live, e)
<1>1. ListSound(q, others, old)
  BY PluckSound
<1>2. /\ NULL \notin Entries
      /\ q \in ListType /\ nw \in [Entries -> SUBSET Entries]
      /\ NoDanglingPointer(q, others) /\ LinksPaired(q) /\ NewestIsHead(q)
      /\ HistoryOrdered(old, others) /\ LinksFollowHistory(q, old)
  BY <1>1, NullAssumption DEF ListSound
<1>3. /\ t.prev = [x \in Entries |-> IF x = q.newest THEN e ELSE q.prev[x]]
      /\ t.next = [q.next EXCEPT ![e] = q.newest]
      /\ t.newest = e
      /\ t.oldest = IF q.oldest = NULL THEN e ELSE q.oldest
  BY DEF touchEntry
<1>4. /\ q.newest \in others \cup {NULL} /\ q.oldest \in others \cup {NULL}
      /\ q.prev[e] = NULL /\ q.next[e] = NULL
      /\ \A x \in Entries : q.prev[x] # e /\ q.next[x] # e
  BY <1>2 DEF NoDanglingPointer
<1>5. t \in ListType
  BY <1>2, <1>4 DEF touchEntry, ListType, EntryOrNull
<1>6. NoDanglingPointer(t, live \cup {e})
  <2>1. t.newest \in live \cup {e} /\ t.oldest \in live \cup {e, NULL}
    BY <1>3, <1>4
  <2>2. ASSUME NEW x \in live \cup {e}
        PROVE  /\ t.prev[x] \in live \cup {e, NULL}
               /\ t.next[x] \in live \cup {e, NULL}
    BY <1>2, <1>3, <1>4 DEF NoDanglingPointer, ListType
  <2>3. ASSUME NEW x \in Entries \ (live \cup {e})
        PROVE  t.prev[x] = NULL /\ t.next[x] = NULL
    BY <1>2, <1>3, <1>4 DEF NoDanglingPointer, ListType
  <2> QED BY <2>1, <2>2, <2>3 DEF NoDanglingPointer
<1>7. LinksPaired(t)
  <2> SUFFICES ASSUME NEW x \in Entries, NEW y \in Entries
               PROVE  t.next[x] = y <=> t.prev[y] = x
    BY DEF LinksPaired
  <2>1. q.next[x] = y <=> q.prev[y] = x
    BY <1>2 DEF LinksPaired
  <2>2. CASE x = e
    BY <2>1, <2>2, <1>2, <1>3, <1>4 DEF ListType
  <2>3. CASE x # e /\ y = q.newest
    BY <2>1, <2>3, <1>2, <1>3, <1>4 DEF ListType, NewestIsHead
  <2>4. CASE x # e /\ y # q.newest
    BY <2>1, <2>4, <1>2, <1>3, <1>4 DEF ListType
  <2> QED BY <2>2, <2>3, <2>4
<1>8. NewestIsHead(t)
  BY <1>2, <1>3, <1>4 DEF NewestIsHead
<1>9. new \in [Entries -> SUBSET Entries]
  BY <1>2 DEF UsedIn
<1>10. /\ \A x \in others : new[x] = old[x] \cup {e}
       /\ \A x \in Entries \ others : new[x] = {}
  BY <1>2 DEF UsedIn, ForgottenIn
<1>11. HistoryOrdered(new, live \cup {e})
  <2>1. \A x \in others : old[x] \subseteq others \ {x}
    BY <1>2 DEF HistoryOrdered
  <2>2. \A x \in live \cup {e} : new[x] \subseteq (live \cup {e}) \ {x}
    BY <2>1, <1>10
  <2>3. \A x \in Entries \ (live \cup {e}) : new[x] = {}
    BY <1>10
  <2>4. ASSUME NEW x \in live \cup {e}, NEW y \in live \cup {e}, NEW z \in live \cup {e},
               y \in new[x], z \in new[y]
        PROVE  z \in new[x]
    <3>1. x \in others /\ y \in others
      BY <2>4, <1>10
    <3>2. CASE z = e
      BY <3>1, <3>2, <1>10
    <3>3. CASE z # e
      BY <2>4, <3>1, <3>3, <1>2, <1>10 DEF HistoryOrdered
    <3> QED BY <3>2, <3>3
  <2> QED BY <2>2, <2>3, <2>4 DEF HistoryOrdered
<1>12. LinksFollowHistory(t, new)
  <2> SUFFICES ASSUME NEW x \in Entries, NEW y \in Entries, t.next[x] = y
               PROVE  x \in new[y]
    BY DEF LinksFollowHistory
  <2>1. CASE x = e
    BY <2>1, <1>2, <1>3, <1>4, <1>10 DEF ListType
  <2>2. CASE x # e
    <3>1. q.next[x] = y /\ x \in old[y]
      BY <2>2, <1>2, <1>3 DEF LinksFollowHistory, ListType
    <3>2. y \in others
      BY <3>1, <1>2 DEF HistoryOrdered
    <3> QED BY <3>1, <3>2, <1>10
  <2> QED BY <2>1, <2>2
<1> QED BY <1>2, <1>5, <1>6, <1>7, <1>8, <1>9, <1>11, <1>12 DEF ListSound

-----------------------------------------------------------------------------
(* The list of a document.                                                 *)

\* Taking an entry out of a list that holds it once.
LEMMA UnlinkedList ==
    ASSUME NEW S, NEW s \in Seq(S), IsInjective(s), NEW e \in Range(s)
    PROVE  /\ Unlinked(s, e) \in Seq(S)
           /\ IsInjective(Unlinked(s, e))
           /\ Range(Unlinked(s, e)) = Range(s) \ {e}
<1> DEFINE k == CHOOSE i \in DOMAIN s : s[i] = e
           t == Unlinked(s, e)
<1>1. k \in 1..Len(s) /\ s[k] = e /\ Len(s) \in Nat
  BY DEF Range
<1>2. /\ t = SubSeq(s, 1, k - 1) \o SubSeq(s, k + 1, Len(s))
  BY DEF Unlinked, RemoveAt
<1>3. /\ t \in Seq(S)
      /\ Len(t) = Len(s) - 1
      /\ \A i \in 1..(Len(s) - 1) : t[i] = IF i < k THEN s[i] ELSE s[i + 1]
  <2> DEFINE u == SubSeq(s, 1, k - 1)
             v == SubSeq(s, k + 1, Len(s))
  <2> HIDE DEF k
  <2>1. u \in Seq(S) /\ Len(u) = k - 1 /\ \A i \in 1..(k - 1) : u[i] = s[i]
    BY <1>1
  <2>2. /\ v \in Seq(S) /\ Len(v) = Len(s) - k
        /\ \A i \in 1..(Len(s) - k) : v[i] = s[i + k]
    BY <1>1
  <2> HIDE DEF u, v
  <2>3. /\ u \o v \in Seq(S) /\ Len(u \o v) = Len(s) - 1
        /\ \A i \in 1..(Len(s) - 1) : (u \o v)[i] = IF i < k THEN u[i] ELSE v[i - (k - 1)]
    <3>1. /\ u \o v \in Seq(S) /\ Len(u \o v) = Len(u) + Len(v)
          /\ \A i \in 1..(Len(u) + Len(v)) :
                (u \o v)[i] = IF i <= Len(u) THEN u[i] ELSE v[i - Len(u)]
      BY <2>1, <2>2, ConcatProperties
    <3>2. Len(u) + Len(v) = Len(s) - 1 /\ \A i \in Nat : i <= k - 1 <=> i < k
      BY <1>1, <2>1, <2>2
    <3> QED BY <3>1, <3>2, <2>1
  <2>4. ASSUME NEW i \in 1..(Len(s) - 1)
        PROVE  (u \o v)[i] = IF i < k THEN s[i] ELSE s[i + 1]
    <3>1. CASE i < k
      BY <3>1, <1>1, <2>1, <2>3
    <3>2. CASE ~(i < k)
      <4>1. i - (k - 1) \in 1..(Len(s) - k) /\ i - (k - 1) + k = i + 1
        BY <3>2, <1>1
      <4> QED BY <3>2, <4>1, <2>2, <2>3
    <3> QED BY <3>1, <3>2
  <2> QED BY <1>2, <2>3, <2>4 DEF u, v
<1>4. \A i, j \in 1..Len(s) : s[i] = s[j] => i = j
  BY DEF IsInjective
<1> HIDE DEF k, t
<1>5. \A i, j \in 1..Len(t) : t[i] = t[j] => i = j
  BY <1>1, <1>3, <1>4
<1>6. ASSUME NEW i \in 1..Len(t)
      PROVE  t[i] \in Range(s) /\ t[i] # e
  BY <1>1, <1>3, <1>4 DEF Range
<1>7. ASSUME NEW i \in 1..Len(s), s[i] # e
      PROVE  \E j \in 1..Len(t) : t[j] = s[i]
  <2>1. CASE i < k
    BY <2>1, <1>1, <1>3
  <2>2. CASE i > k
    <3>1. i - 1 \in 1..Len(t) /\ ~(i - 1 < k) /\ i - 1 + 1 = i
      BY <2>2, <1>1, <1>3
    <3> QED BY <3>1, <1>3
  <2> QED BY <2>1, <2>2, <1>1, <1>7
<1>8. DOMAIN t = 1..Len(t) /\ DOMAIN s = 1..Len(s)
  BY <1>3
<1>9. IsInjective(t)
  BY <1>5, <1>8 DEF IsInjective
<1>10. Range(t) \subseteq Range(s) \ {e}
  BY <1>6, <1>8 DEF Range
<1>11. Range(s) \ {e} \subseteq Range(t)
  BY <1>7, <1>8 DEF Range
<1> QED BY <1>3, <1>9, <1>10, <1>11 DEF t

\* Putting an entry that is not on a list in front of it.
LEMMA ConsList ==
    ASSUME NEW S, NEW s \in Seq(S), IsInjective(s), NEW e \in S, e \notin Range(s)
    PROVE  /\ Cons(e, s) \in Seq(S)
           /\ IsInjective(Cons(e, s))
           /\ Range(Cons(e, s)) = Range(s) \cup {e}
<1> DEFINE t == Cons(e, s)
<1>1. /\ t \in Seq(S) /\ Len(t) = Len(s) + 1 /\ Len(s) \in Nat
      /\ t[1] = e
      /\ \A i \in 2..Len(t) : t[i] = s[i - 1]
  BY DEF Cons
<1>2. \A i \in 1..Len(s) : t[i + 1] = s[i]
  BY <1>1
<1>3. DOMAIN t = 1..Len(t) /\ DOMAIN s = 1..Len(s)
  BY <1>1
<1> HIDE DEF t
<1>4. /\ \A i \in 1..Len(s) : s[i] # e
      /\ \A i, j \in 1..Len(s) : s[i] = s[j] => i = j
  BY <1>3 DEF Range, IsInjective
<1>5. IsInjective(t)
  <2> SUFFICES ASSUME NEW i \in 1..Len(t), NEW j \in 1..Len(t), t[i] = t[j]
               PROVE  i = j
    BY <1>3 DEF IsInjective
  <2>1. CASE i = 1 /\ j = 1
    BY <2>1
  <2>2. CASE i = 1 /\ j # 1
    <3>1. j - 1 \in 1..Len(s) /\ t[j] = s[j - 1]
      BY <2>2, <1>1
    <3> QED BY <2>2, <3>1, <1>1, <1>4
  <2>3. CASE i # 1 /\ j = 1
    <3>1. i - 1 \in 1..Len(s) /\ t[i] = s[i - 1]
      BY <2>3, <1>1
    <3> QED BY <2>3, <3>1, <1>1, <1>4
  <2>4. CASE i # 1 /\ j # 1
    <3>1. /\ i - 1 \in 1..Len(s) /\ t[i] = s[i - 1]
          /\ j - 1 \in 1..Len(s) /\ t[j] = s[j - 1]
      BY <2>4, <1>1
    <3>2. i - 1 = j - 1
      BY <3>1, <1>4
    <3> QED BY <3>2
  <2> QED BY <2>1, <2>2, <2>3, <2>4
<1>6. ASSUME NEW i \in 1..Len(t)
      PROVE  t[i] = e \/ \E j \in 1..Len(s) : t[i] = s[j]
  <2>1. CASE i = 1
    BY <2>1, <1>1
  <2>2. CASE i # 1
    <3>1. i - 1 \in 1..Len(s) /\ t[i] = s[i - 1]
      BY <2>2, <1>1
    <3> QED BY <3>1
  <2> QED BY <2>1, <2>2
<1>7. Range(t) = Range(s) \cup {e}
  <2>1. \A x \in Range(t) : x \in Range(s) \cup {e}
    BY <1>3, <1>6 DEF Range
  <2>2. ASSUME NEW i \in 1..Len(s)
        PROVE  s[i] \in Range(t)
    <3>1. i + 1 \in 1..Len(t)
      BY <1>1
    <3> QED BY <3>1, <1>2, <1>3 DEF Range
  <2>3. e \in Range(t)
    <3>1. 1 \in 1..Len(t)
      BY <1>1
    <3> QED BY <3>1, <1>1, <1>3 DEF Range
  <2> QED BY <2>1, <2>2, <2>3, <1>3 DEF Range
<1> QED BY <1>1, <1>5, <1>7 DEF t

-----------------------------------------------------------------------------
(* The inductive invariant.                                                *)

\* The document of a running LruCache_ClearValues stays allocated.  One that
\* is being freed has all its entries purged: the loop stays at the head.
ClearSound ==
    clear # NoClear =>
        /\ clear.doc \in docs
        /\ clear.free => clear.path = <<>> /\ clear.pos = 1

IInv ==
    /\ TypeOK
    /\ RecencyListSound
    /\ EntriesOwned
    /\ OneEntryPerPath
    /\ ClearSound

\* The empty list.
LEMMA EmptyRange == Range(<<>>) = {} /\ IsInjective(<<>>)
BY DEF Range, IsInjective

\* The cache the module starts with, and starts with again after a crash.
LEMMA InitIInv == Init => IInv
<1> SUFFICES ASSUME Init PROVE IInv
  OBVIOUS
<1> USE DEF Init
<1>1. TypeOK
  <2>1. EmptyList \in ListType
    BY DEF EmptyList, ListType, EntryOrNull
  <2>2. <<>> \in Seq(Entries)
    OBVIOUS
  <2>3. [d \in Docs |-> <<>>] \in [Docs -> Seq(Entries)]
    BY <2>2
  <2>4. /\ alloc \subseteq Entries
        /\ \A e \in Entries \ alloc : parent[e] = NULL /\ path[e] = NULL /\ value[e] = NULL
        /\ parent \in [Entries -> Docs \cup {NULL}]
        /\ path \in [Entries -> Paths \cup {NULL}]
        /\ value \in [Entries -> Values \cup {NULL}]
        /\ newer \in [Entries -> SUBSET Entries]
    OBVIOUS
  <2>5. /\ numEntries \in Int /\ numBytes \in Int /\ docs \subseteq Docs
        /\ config \in Configs /\ clear \in ClearRecord \cup {NoClear}
    BY ConfigsAssumption
  <2>6. crashed \in BOOLEAN
    OBVIOUS
  <2> QED BY <2>1, <2>3, <2>4, <2>5, <2>6 DEF TypeOK, ListType
<1>2. RecencyListSound
  BY NullAssumption DEF RecencyListSound, NoDanglingPointer, LinksPaired, NewestIsHead,
     HistoryOrdered, LinksFollowHistory, EmptyList
<1>3. EntriesOwned
  BY EmptyRange DEF EntriesOwned
<1>4. OneEntryPerPath /\ ClearSound
  BY DEF OneEntryPerPath, ClearSound
<1> QED BY <1>1, <1>2, <1>3, <1>4 DEF IInv

\* A restart.
LEMMA RestartIInv == Restart => IInv'
<1>1. Restart => Init'
  BY DEF Restart, Init
<1> QED BY <1>1, InitIInv, PTL

\* What the invariant says of a single live entry, and of the whole list.
LEMMA LiveEntry ==
    ASSUME IInv, NEW e \in alloc
    PROVE  /\ e \in Entries
           /\ parent[e] \in docs /\ parent[e] \in Docs
           /\ e \in Range(lruEntries[parent[e]])
           /\ path[e] \in Paths
           /\ value[e] \in Values /\ BytesWithout(e) \in Int
BY SdsLenAssumption DEF IInv, TypeOK, EntriesOwned, BytesWithout

\* Entries on the list of a document.
LEMMA ListedEntry ==
    ASSUME IInv, NEW d \in Docs, NEW i \in DOMAIN lruEntries[d]
    PROVE  lruEntries[d][i] \in alloc /\ parent[lruEntries[d][i]] = d
BY DEF IInv, EntriesOwned, Range

\* The invariant holds the sound list,
LEMMA InvariantList == IInv => ListSound(lru, alloc, newer)
BY DEF IInv, TypeOK, RecencyListSound, ListSound, ListType

\* and is made of one.
LEMMA ListInvariant ==
    ASSUME ListSound(lru', alloc', newer')
    PROVE  /\ RecencyListSound'
           /\ newer' \in [Entries -> SUBSET Entries]
           /\ lru' \in [prev : [Entries -> EntryOrNull], next : [Entries -> EntryOrNull],
                        newest : EntryOrNull, oldest : EntryOrNull]
BY DEF RecencyListSound, ListSound, ListType, NoDanglingPointer, LinksPaired, NewestIsHead,
   HistoryOrdered, LinksFollowHistory, EntryOrNull

\* Unlinking a live entry takes it out of the list of its document, and so
\* out of all lists.
LEMMA PurgedLists ==
    ASSUME IInv, NEW e \in alloc
    PROVE  LET purged == [lruEntries EXCEPT ![parent[e]] = Unlinked(@, e)]
           IN  /\ purged \in [Docs -> Seq(Entries)]
               /\ \A d \in Docs : /\ IsInjective(purged[d])
                                  /\ Range(purged[d]) = Range(lruEntries[d]) \ {e}
<1> DEFINE owner == parent[e]
           rest == Unlinked(lruEntries[owner], e)
           purged == [lruEntries EXCEPT ![owner] = rest]
<1>1. owner \in Docs /\ e \in Range(lruEntries[owner])
  BY LiveEntry
<1>2. /\ lruEntries \in [Docs -> Seq(Entries)]
      /\ \A d \in Docs : IsInjective(lruEntries[d])
      /\ \A d \in Docs : e \in Range(lruEntries[d]) => d = owner
  BY DEF IInv, TypeOK, EntriesOwned
<1>3. /\ rest \in Seq(Entries) /\ IsInjective(rest)
      /\ Range(rest) = Range(lruEntries[owner]) \ {e}
  BY <1>1, <1>2, UnlinkedList
<1> HIDE DEF rest
<1>4. purged \in [Docs -> Seq(Entries)]
  BY <1>2, <1>3
<1>5. ASSUME NEW d \in Docs
      PROVE  IsInjective(purged[d]) /\ Range(purged[d]) = Range(lruEntries[d]) \ {e}
  <2>1. CASE d = owner
    BY <2>1, <1>1, <1>2, <1>3
  <2>2. CASE d # owner
    <3>1. purged[d] = lruEntries[d] /\ e \notin Range(lruEntries[d])
      BY <2>2, <1>2
    <3> QED BY <3>1, <1>2
  <2> QED BY <2>1, <2>2
<1> QED BY <1>4, <1>5 DEF rest

\* Adding an entry that is on no list to the list of a document.
LEMMA ConsLists ==
    ASSUME NEW lists \in [Docs -> Seq(Entries)], NEW e \in Entries, NEW d \in Docs,
           \A c \in Docs : IsInjective(lists[c]) /\ e \notin Range(lists[c])
    PROVE  LET added == [lists EXCEPT ![d] = Cons(e, @)]
           IN  /\ added \in [Docs -> Seq(Entries)]
               /\ \A c \in Docs :
                    /\ IsInjective(added[c])
                    /\ Range(added[c]) = IF c = d THEN Range(lists[c]) \cup {e}
                                         ELSE Range(lists[c])
<1> DEFINE longer == Cons(e, lists[d])
           added == [lists EXCEPT ![d] = longer]
<1>1. /\ longer \in Seq(Entries) /\ IsInjective(longer)
      /\ Range(longer) = Range(lists[d]) \cup {e}
  BY ConsList
<1> HIDE DEF longer
<1>2. added \in [Docs -> Seq(Entries)]
  BY <1>1
<1>3. ASSUME NEW c \in Docs
      PROVE  /\ IsInjective(added[c])
             /\ Range(added[c]) = IF c = d THEN Range(lists[c]) \cup {e} ELSE Range(lists[c])
  <2>1. CASE c = d
    BY <2>1, <1>1
  <2>2. CASE c # d
    <3>1. added[c] = lists[c]
      BY <2>2
    <3> QED BY <2>2, <3>1
  <2> QED BY <2>1, <2>2
<1> QED BY <1>2, <1>3 DEF longer

-----------------------------------------------------------------------------
(* The steps.                                                              *)

\* The steps that leave the entries and both kinds of lists alone.
LEMMA UnchangedCache ==
    ASSUME IInv, UNCHANGED <<cells, lru, lruEntries, counters, newer>>,
           docs \subseteq docs', docs' \subseteq Docs, config' \in Configs,
           clear' \in ClearRecord \cup {NoClear}, crashed' \in BOOLEAN, ClearSound'
    PROVE  IInv'
<1> USE DEF cells, counters
<1>1. TypeOK'
  BY DEF IInv, TypeOK
<1>2. RecencyListSound'
  BY DEF IInv, RecencyListSound, NoDanglingPointer, LinksPaired, NewestIsHead,
     HistoryOrdered, LinksFollowHistory
<1>3. EntriesOwned' /\ OneEntryPerPath'
  BY DEF IInv, EntriesOwned, OneEntryPerPath
<1> QED BY <1>1, <1>2, <1>3 DEF IInv

\* A document is created.
LEMMA CreateDocIInv == ASSUME IInv, NEW d \in Docs, CreateDoc(d) PROVE IInv'
<1>1. ClearSound'
  BY DEF CreateDoc, IInv, ClearSound
<1> QED BY <1>1, UnchangedCache DEF CreateDoc, IInv, TypeOK

\* The settings change.
LEMMA JSONCacheInitIInv == ASSUME IInv, NEW c \in Configs, JSONCacheInit(c) PROVE IInv'
<1>1. ClearSound'
  BY DEF JSONCacheInit, IInv, ClearSound
<1> QED BY <1>1, UnchangedCache DEF JSONCacheInit, IInv, TypeOK

\* A clearing begins.
LEMMA ClearBeginIInv ==
    ASSUME IInv, NEW d \in Docs, NEW p \in Paths, ClearBegin(d, p)
    PROVE  IInv'
<1>1. ClearSound' /\ clear' \in ClearRecord
  BY DEF ClearBegin, ClearSound, ClearRecord
<1> QED BY <1>1, UnchangedCache DEF ClearBegin, IInv, TypeOK

\* A document begins to be freed.
LEMMA FreeBeginIInv == ASSUME IInv, NEW d \in Docs, FreeBegin(d) PROVE IInv'
<1>1. ClearSound' /\ clear' \in ClearRecord
  BY DEF FreeBegin, ClearSound, ClearRecord
<1> QED BY <1>1, UnchangedCache DEF FreeBegin, IInv, TypeOK

\* The crash at a limit.
LEMMA AddCrashIInv ==
    ASSUME IInv, NEW d \in Docs, NEW p \in Paths, NEW v \in Values, AddCrash(d, p, v)
    PROVE  IInv'
<1>1. ClearSound'
  BY DEF AddCrash, IInv, ClearSound
<1> QED BY <1>1, UnchangedCache DEF AddCrash, IInv, TypeOK

\* A clearing of the root keeps nothing, so one that frees never comes here.
LEMMA ClearKeepIInv == ASSUME IInv, ClearKeep PROVE IInv'
<1>1. clear \in ClearRecord /\ clear.doc \in docs
  BY DEF ClearKeep, Iterating, IInv, TypeOK, ClearSound
<1>2. ~clear.free
  BY DEF ClearKeep, Iterating, IInv, ClearSound, shouldClearPath
<1>3. clear' \in ClearRecord /\ clear'.doc = clear.doc /\ clear'.free = clear.free
  BY <1>1 DEF ClearKeep, ClearRecord
<1>4. ClearSound'
  BY <1>1, <1>2, <1>3 DEF ClearKeep, ClearSound
<1> QED BY <1>3, <1>4, UnchangedCache DEF ClearKeep, IInv, TypeOK

\* A document that is freed owns no entry any more.
LEMMA FreeIInv ==
    ASSUME IInv, NEW d \in Docs, lruEntries[d] = <<>>, docs' = docs \ {d},
           clear' = NoClear, UNCHANGED <<cells, lru, lruEntries, counters, config, crashed, newer>>
    PROVE  IInv'
<1> USE DEF cells, counters
<1>1. TypeOK'
  BY DEF IInv, TypeOK
<1>2. RecencyListSound'
  BY DEF IInv, RecencyListSound, NoDanglingPointer, LinksPaired, NewestIsHead,
     HistoryOrdered, LinksFollowHistory
<1>3. \A e \in alloc : parent[e] # d
  BY LiveEntry, EmptyRange
<1>4. EntriesOwned' /\ OneEntryPerPath'
  BY <1>3 DEF IInv, EntriesOwned, OneEntryPerPath
<1>5. ClearSound'
  BY DEF ClearSound
<1> QED BY <1>1, <1>2, <1>4, <1>5 DEF IInv

\* A clearing ends.
LEMMA ClearEndIInv == ASSUME IInv, ClearEnd PROVE IInv'
<1>1. clear \in ClearRecord /\ clear.doc \in docs /\ clear.doc \in Docs
  BY DEF ClearEnd, IInv, TypeOK, ClearSound
<1>2. CASE clear.free
  <2>1. lruEntries[clear.doc] \in Seq(Entries) /\ 1 \notin DOMAIN lruEntries[clear.doc]
    BY <1>1, <1>2 DEF ClearEnd, ClearList, IInv, TypeOK, ClearSound
  <2>2. lruEntries[clear.doc] = <<>>
    BY <2>1
  <2> QED BY <1>1, <1>2, <2>2, FreeIInv DEF ClearEnd
<1>3. CASE ~clear.free
  <2>1. ClearSound'
    BY DEF ClearEnd, ClearSound
  <2> QED BY <1>3, <2>1, UnchangedCache DEF ClearEnd, IInv, TypeOK
<1> QED BY <1>1, <1>2, <1>3

\* A hit touches an entry of the document, the only one for the path.
LEMMA GetValueIInv ==
    ASSUME IInv, NEW d \in Docs, NEW p \in Paths, LruCache_GetValue(d, p)
    PROVE  IInv'
<1> DEFINE e == Found(d, p)
<1>1. PICK i \in Matches(d, p) : TRUE
  BY DEF LruCache_GetValue, Cached
<1>2. Matches(d, p) \subseteq DOMAIN lruEntries[d] /\ DOMAIN lruEntries[d] \subseteq Nat
  BY DEF Matches, IInv, TypeOK
<1>3. ASSUME NEW j \in Matches(d, p), NEW k \in Matches(d, p)
      PROVE  j = k
  <2>1. lruEntries[d][j] = lruEntries[d][k]
    BY <1>2, ListedEntry DEF Matches, IInv, OneEntryPerPath
  <2> QED BY <2>1, <1>2 DEF IInv, EntriesOwned, IsInjective
<1>4. \A j \in Matches(d, p) : i <= j
  BY <1>1, <1>2, <1>3
<1>5. e \in alloc /\ e \in Entries
  BY <1>1, <1>2, <1>4, ListedEntry, LiveEntry DEF Found
<1>6. ListSound(lru', alloc', newer')
  <2>1. ListSound(touchEntry(lru, e), alloc \cup {e}, UsedIn(newer, alloc, e))
    BY <1>5, InvariantList, TouchSound DEF IInv, TypeOK
  <2>2. alloc \cup {e} = alloc /\ UsedIn(newer, alloc, e) = Used(e)
    BY <1>5 DEF UsedIn, Used
  <2> QED BY <2>1, <2>2 DEF LruCache_GetValue, cells
<1>7. RecencyListSound' /\ TypeOK'
  BY <1>6, ListInvariant DEF LruCache_GetValue, cells, counters, IInv, TypeOK
<1>8. EntriesOwned' /\ OneEntryPerPath' /\ ClearSound'
  BY DEF LruCache_GetValue, cells, IInv, EntriesOwned, OneEntryPerPath, ClearSound
<1> QED BY <1>7, <1>8 DEF IInv

\* No live entry has a path that LruCache_GetValue has not found.
LEMMA MissedPath ==
    ASSUME IInv, NEW d \in Docs, NEW p \in Paths, Miss(d, p), NEW e \in alloc
    PROVE  ~(parent[e] = d /\ path[e] = p)
<1>1. ASSUME parent[e] = d, path[e] = p
      PROVE  FALSE
  <2>1. PICK i \in DOMAIN lruEntries[d] : lruEntries[d][i] = e
    BY <1>1, LiveEntry DEF Range
  <2> QED BY <1>1, <2>1 DEF Miss, Cached, Matches
<1> QED BY <1>1

\* What AddValue makes of the cell e, new or reused, is a cache in order if
\* the lists without e hold exactly the other entries.
LEMMA InsertedEntry ==
    ASSUME IInv, NEW d \in Docs, NEW p \in Paths, NEW v \in Values, NEW e \in Entries,
           Miss(d, p), NEW lists \in [Docs -> Seq(Entries)],
           \A c \in Docs : /\ IsInjective(lists[c])
                           /\ Range(lists[c]) = Range(lruEntries[c]) \ {e},
           alloc' = alloc \cup {e},
           parent' = [parent EXCEPT ![e] = d],
           path' = [path EXCEPT ![e] = p],
           value' = [value EXCEPT ![e] = v],
           lruEntries' = [lists EXCEPT ![d] = Cons(e, @)],
           ListSound(lru', alloc', newer'),
           numEntries' \in Int, numBytes' \in Int,
           UNCHANGED <<config, docs, clear, crashed>>
    PROVE  IInv'
<1>1. \A c \in Docs : IsInjective(lists[c]) /\ e \notin Range(lists[c])
  OBVIOUS
<1>2. /\ lruEntries' \in [Docs -> Seq(Entries)]
      /\ \A c \in Docs :
            /\ IsInjective(lruEntries'[c])
            /\ Range(lruEntries'[c]) = IF c = d THEN Range(lists[c]) \cup {e}
                                       ELSE Range(lists[c])
  BY <1>1, ConsLists, Zenon
<1>3. RecencyListSound' /\ TypeOK'
  BY <1>2, ListInvariant DEF IInv, TypeOK
<1>4. \A x \in alloc : x \in Entries /\ parent[x] \in Docs
  BY LiveEntry
<1>5. /\ parent'[e] = d /\ path'[e] = p /\ value'[e] = v
      /\ \A x \in alloc \ {e} : /\ parent'[x] = parent[x] /\ path'[x] = path[x]
                                /\ value'[x] = value[x]
  BY <1>4 DEF IInv, TypeOK
<1>6. EntriesOwned'
  <2>1. ASSUME NEW x \in alloc'
        PROVE  parent'[x] \in docs' /\ x \in Range(lruEntries'[parent'[x]])
    <3>1. CASE x = e
      <4>1. e \in Range(lruEntries'[d]) /\ d \in docs'
        BY <1>2 DEF Miss
      <4> QED BY <3>1, <4>1, <1>5
    <3>2. CASE x # e
      <4>1. x \in alloc /\ parent'[x] = parent[x]
        BY <3>2, <1>5
      <4>2. parent[x] \in docs /\ parent[x] \in Docs /\ x \in Range(lruEntries[parent[x]])
        BY <4>1, LiveEntry
      <4>3. x \in Range(lists[parent[x]])
        BY <3>2, <4>2
      <4>4. x \in Range(lruEntries'[parent[x]])
        BY <4>2, <4>3, <1>2
      <4> QED BY <4>1, <4>2, <4>4
    <3> QED BY <3>1, <3>2
  <2>2. ASSUME NEW c \in Docs, NEW x \in Range(lruEntries'[c])
        PROVE  x \in alloc' /\ parent'[x] = c
    <3>1. CASE x = e
      <4>1. c = d
        BY <3>1, <2>2, <1>1, <1>2
      <4> QED BY <3>1, <4>1, <1>5
    <3>2. CASE x # e
      <4>1. x \in Range(lists[c])
        BY <3>2, <2>2, <1>2
      <4>2. x \in Range(lruEntries[c])
        BY <4>1
      <4>3. x \in alloc /\ parent[x] = c
        BY <4>2 DEF IInv, EntriesOwned
      <4> QED BY <3>2, <4>3, <1>5
    <3> QED BY <3>1, <3>2
  <2>3. \A x \in alloc' : path'[x] # NULL /\ value'[x] # NULL
    BY <1>5, NullAssumption DEF IInv, EntriesOwned
  <2> QED BY <2>1, <2>2, <2>3, <1>2 DEF EntriesOwned
<1>7. OneEntryPerPath'
  BY <1>5, MissedPath DEF IInv, OneEntryPerPath
<1>8. ClearSound'
  BY DEF IInv, ClearSound
<1> QED BY <1>3, <1>6, <1>7, <1>8 DEF IInv

\* An entry is added below the limits,
LEMMA AddFreshIInv ==
    ASSUME IInv, NEW d \in Docs, NEW p \in Paths, NEW v \in Values, NEW e \in Entries,
           AddFresh(d, p, v, e)
    PROVE  IInv'
<1>1. ListSound(lru', alloc', newer')
  <2>1. ListSound(touchEntry(lru, e), alloc \cup {e}, UsedIn(newer, alloc, e))
    BY InvariantList, TouchSound DEF IInv, TypeOK
  <2> QED BY <2>1 DEF AddFresh, Used, UsedIn
<1>2. \A c \in Docs : /\ IsInjective(lruEntries[c])
                      /\ Range(lruEntries[c]) = Range(lruEntries[c]) \ {e}
  BY DEF AddFresh, IInv, EntriesOwned
<1>3. numEntries' \in Int /\ numBytes' \in Int
  BY SdsLenAssumption DEF AddFresh, IInv, TypeOK
<1>4. lruEntries \in [Docs -> Seq(Entries)] /\ Miss(d, p)
  BY DEF AddFresh, IInv, TypeOK
<1> QED BY <1>1, <1>2, <1>3, <1>4, InsertedEntry DEF AddFresh

\* or takes the cell of the oldest.
LEMMA AddEvictIInv ==
    ASSUME IInv, NEW d \in Docs, NEW p \in Paths, NEW v \in Values, AddEvict(d, p, v)
    PROVE  IInv'
<1> DEFINE e == lru.oldest
           purged == [lruEntries EXCEPT ![parent[e]] = Unlinked(@, e)]
<1>1. e \in alloc /\ e \in Entries
  BY LiveEntry DEF AddEvict, IInv, RecencyListSound, NoDanglingPointer
<1>2. ListSound(lru', alloc', newer')
  <2>1. ListSound(pluckEntry(lru, e), alloc \ {e}, ForgottenIn(newer, e))
    BY <1>1, InvariantList, PluckSound DEF IInv, TypeOK
  <2>2. ListSound(touchEntry(pluckEntry(lru, e), e), (alloc \ {e}) \cup {e},
                  UsedIn(ForgottenIn(newer, e), alloc \ {e}, e))
    BY <1>1, <2>1, TouchSound DEF IInv, TypeOK
  <2>3. UsedIn(ForgottenIn(newer, e), alloc \ {e}, e) = Used(e)
    BY DEF UsedIn, ForgottenIn, Used
  <2>4. (alloc \ {e}) \cup {e} = alloc
    BY <1>1
  <2> QED BY <2>2, <2>3, <2>4 DEF AddEvict
<1>3. /\ purged \in [Docs -> Seq(Entries)]
      /\ \A c \in Docs : /\ IsInjective(purged[c])
                         /\ Range(purged[c]) = Range(lruEntries[c]) \ {e}
  BY <1>1, PurgedLists, Zenon
<1>4. BytesWithout(e) \in Int
  BY <1>1, LiveEntry
<1>5. numEntries' \in Int /\ numBytes' \in Int
  BY <1>4, SdsLenAssumption DEF AddEvict, IInv, TypeOK
<1>6. alloc' = alloc \cup {e} /\ lruEntries' = [purged EXCEPT ![d] = Cons(e, @)] /\ Miss(d, p)
  BY <1>1 DEF AddEvict
<1> HIDE DEF purged
<1> QED BY <1>1, <1>2, <1>3, <1>5, <1>6, InsertedEntry DEF AddEvict

\* purgeEntry of the entry the loop of LruCache_ClearValues looks at.
LEMMA ClearPurgeIInv == ASSUME IInv, ClearPurge PROVE IInv'
<1> DEFINE e == ent
           purged == [lruEntries EXCEPT ![parent[e]] = Unlinked(@, e)]
<1>1. clear.doc \in Docs /\ clear.pos \in DOMAIN lruEntries[clear.doc]
  BY DEF ClearPurge, Iterating, ClearList, IInv, TypeOK, ClearSound
<1>2. e \in alloc /\ e \in Entries
  BY <1>1, ListedEntry, LiveEntry DEF ent, ClearList
<1>3. ListSound(lru', alloc', newer')
  <2>1. ListSound(pluckEntry(lru, e), alloc \ {e}, ForgottenIn(newer, e))
    BY <1>2, InvariantList, PluckSound DEF IInv, TypeOK
  <2> QED BY <2>1 DEF ClearPurge, Forgotten, ForgottenIn
<1>4. /\ purged \in [Docs -> Seq(Entries)]
      /\ \A d \in Docs : /\ IsInjective(purged[d])
                         /\ Range(purged[d]) = Range(lruEntries[d]) \ {e}
  BY <1>2, PurgedLists, Zenon
<1>5. /\ alloc' = alloc \ {e} /\ lruEntries' = purged
      /\ parent' = [parent EXCEPT ![e] = NULL]
      /\ path' = [path EXCEPT ![e] = NULL]
      /\ value' = [value EXCEPT ![e] = NULL]
      /\ numEntries' = numEntries - 1 /\ numBytes' = BytesWithout(e)
      /\ UNCHANGED <<config, docs, clear, crashed>>
  BY DEF ClearPurge
<1>6. BytesWithout(e) \in Int
  BY <1>2, LiveEntry
<1> HIDE DEF e, purged
<1>7. RecencyListSound' /\ TypeOK'
  <2>1. \A x \in Entries \ alloc' :
           parent'[x] = NULL /\ path'[x] = NULL /\ value'[x] = NULL
    BY <1>2, <1>5 DEF IInv, TypeOK
  <2>2. /\ parent' \in [Entries -> Docs \cup {NULL}]
        /\ path' \in [Entries -> Paths \cup {NULL}]
        /\ value' \in [Entries -> Values \cup {NULL}]
    BY <1>2, <1>5 DEF IInv, TypeOK
  <2>3. numEntries' \in Int /\ numBytes' \in Int /\ alloc' \subseteq Entries
    BY <1>5, <1>6 DEF IInv, TypeOK
  <2> QED BY <1>3, <1>4, <1>5, <2>1, <2>2, <2>3, ListInvariant DEF IInv, TypeOK
<1>8. \A x \in alloc' : /\ x \in alloc /\ x # e
                        /\ parent'[x] = parent[x] /\ path'[x] = path[x]
                        /\ value'[x] = value[x]
  BY <1>2, <1>5 DEF IInv, TypeOK
<1>9. EntriesOwned'
  <2>1. ASSUME NEW x \in alloc'
        PROVE  parent'[x] \in docs' /\ x \in Range(lruEntries'[parent'[x]])
    <3>1. parent[x] \in docs /\ parent[x] \in Docs /\ x \in Range(lruEntries[parent[x]])
      BY <1>8, LiveEntry
    <3> QED BY <3>1, <1>4, <1>5, <1>8
  <2>2. ASSUME NEW d \in Docs, NEW x \in Range(lruEntries'[d])
        PROVE  x \in alloc' /\ parent'[x] = d
    <3>1. x \in Range(lruEntries[d]) /\ x # e
      BY <2>2, <1>4, <1>5
    <3>2. x \in alloc /\ parent[x] = d
      BY <3>1 DEF IInv, EntriesOwned
    <3> QED BY <3>1, <3>2, <1>5, <1>8
  <2>3. \A x \in alloc' : path'[x] # NULL /\ value'[x] # NULL
    BY <1>8 DEF IInv, EntriesOwned
  <2> QED BY <2>1, <2>2, <2>3, <1>4, <1>5 DEF EntriesOwned
<1>10. OneEntryPerPath'
  BY <1>8 DEF IInv, OneEntryPerPath
<1>11. ClearSound'
  BY <1>5 DEF IInv, ClearSound
<1> QED BY <1>7, <1>9, <1>10, <1>11 DEF IInv

\* JSONTypeFree of a document without entries, when no clearing is running.
LEMMA FreeDocIInv == ASSUME IInv, NEW d \in Docs, FreeDoc(d) PROVE IInv'
BY FreeIInv DEF FreeDoc, Idle

\* No step.
LEMMA StutterIInv == ASSUME IInv, UNCHANGED vars PROVE IInv'
<1>1. ClearSound'
  BY DEF vars, IInv, ClearSound
<1> QED BY <1>1, UnchangedCache DEF vars, IInv, TypeOK

\* Every step keeps the inductive invariant.
LEMMA NextIInv == IInv /\ [Next]_vars => IInv'
<1> SUFFICES ASSUME IInv, [Next]_vars PROVE IInv'
  OBVIOUS
<1>1. ASSUME NEW d \in Docs, CreateDoc(d) \/ FreeBegin(d) \/ FreeDoc(d)
      PROVE  IInv'
  BY <1>1, CreateDocIInv, FreeBeginIInv, FreeDocIInv
<1>2. ASSUME NEW c \in Configs, JSONCacheInit(c)
      PROVE  IInv'
  BY <1>2, JSONCacheInitIInv
<1>3. ASSUME NEW d \in Docs, NEW p \in Paths, LruCache_GetValue(d, p) \/ ClearBegin(d, p)
      PROVE  IInv'
  BY <1>3, GetValueIInv, ClearBeginIInv
<1>4. ASSUME NEW d \in Docs, NEW p \in Paths, NEW v \in Values,
             \/ AddTooSmall(d, p, v)
             \/ AddEvict(d, p, v)
             \/ AddCrash(d, p, v)
             \/ \E e \in Entries : AddFresh(d, p, v, e)
      PROVE  IInv'
  <2>1. CASE AddTooSmall(d, p, v)
    BY <2>1, StutterIInv DEF AddTooSmall
  <2>2. CASE AddEvict(d, p, v)
    BY <2>2, AddEvictIInv
  <2>3. CASE AddCrash(d, p, v)
    BY <2>3, AddCrashIInv
  <2>4. CASE \E e \in Entries : AddFresh(d, p, v, e)
    BY <2>4, AddFreshIInv
  <2> QED BY <1>4, <2>1, <2>2, <2>3, <2>4
<1>5. CASE ClearStep
  BY <1>5, ClearKeepIInv, ClearPurgeIInv, ClearEndIInv DEF ClearStep
<1>6. CASE Restart
  BY <1>6, RestartIInv
<1>7. CASE UNCHANGED vars
  BY <1>7, StutterIInv
<1> QED BY <1>1, <1>2, <1>3, <1>4, <1>5, <1>6, <1>7 DEF Next

\* The invariant always holds.
LEMMA AlwaysIInv == Spec => []IInv
BY InitIInv, NextIInv, PTL DEF Spec

-----------------------------------------------------------------------------
(* The theorems.                                                           *)

\* In every reachable state every variable has its type, and a cell that
\* purgeEntry has freed holds no document, path or value.
THEOREM TypeCorrect == Spec => []TypeOK
<1>1. IInv => TypeOK
  BY DEF IInv
<1> QED BY <1>1, AlwaysIInv, PTL

\* In every reachable state the pointers that pluckEntry and touchEntry write
\* make one list of live entries, without cycles, which lru_next walks from
\* entries used later to entries used earlier.
THEOREM RecencyListAlwaysSound == Spec => []RecencyListSound
<1>1. IInv => RecencyListSound
  BY DEF IInv
<1> QED BY <1>1, AlwaysIInv, PTL

\* In every reachable state every live entry is exactly once on the list of
\* its document and on no other, and that document is allocated: purgeEntry's
\* assert(found) never fails and no list leads to freed memory.
THEOREM EntriesAlwaysOwned == Spec => []EntriesOwned
<1>1. IInv => EntriesOwned
  BY DEF IInv
<1> QED BY <1>1, AlwaysIInv, PTL

\* In every reachable state a document has at most one entry for a path, as
\* LruCache_AddValue assumes.
THEOREM OneEntryAlways == Spec => []OneEntryPerPath
<1>1. IInv => OneEntryPerPath
  BY DEF IInv
<1> QED BY <1>1, AlwaysIInv, PTL

\* No step takes the number of entries above maxEntries: only AddValue below
\* the limit raises it, by one.
THEOREM GrowthAlwaysBounded == Spec => GrowthBounded
<1>1. ASSUME TypeOK, [Next]_vars
      PROVE  [numEntries' > numEntries => numEntries' <= config.maxEntries]_vars
  <2>1. numEntries \in Int /\ config.maxEntries \in Nat
    BY <1>1, ConfigsAssumption DEF TypeOK, Config
  <2>2. ASSUME NEW d \in Docs, CreateDoc(d) \/ FreeBegin(d) \/ FreeDoc(d)
        PROVE  numEntries' = numEntries
    BY <2>2 DEF CreateDoc, FreeBegin, FreeDoc, counters
  <2>3. ASSUME NEW c \in Configs, JSONCacheInit(c)
        PROVE  numEntries' = numEntries
    BY <2>3 DEF JSONCacheInit, counters
  <2>4. ASSUME NEW d \in Docs, NEW p \in Paths, LruCache_GetValue(d, p) \/ ClearBegin(d, p)
        PROVE  numEntries' = numEntries
    BY <2>4 DEF LruCache_GetValue, ClearBegin, counters
  <2>5. ASSUME NEW d \in Docs, NEW p \in Paths, NEW v \in Values,
               AddTooSmall(d, p, v) \/ AddEvict(d, p, v) \/ AddCrash(d, p, v)
        PROVE  numEntries' = numEntries
    BY <2>5 DEF AddTooSmall, AddEvict, AddCrash, counters, vars
  <2>6. ASSUME NEW d \in Docs, NEW p \in Paths, NEW v \in Values, NEW e \in Entries,
               AddFresh(d, p, v, e)
        PROVE  numEntries' <= config.maxEntries
    BY <2>1, <2>6 DEF AddFresh, LimitReached
  <2>7. CASE ClearStep
    <3>1. numEntries' \in {numEntries, numEntries - 1}
      BY <2>7 DEF ClearStep, ClearKeep, ClearPurge, ClearEnd, counters
    <3> QED BY <2>1, <3>1
  <2>8. CASE Restart
    BY <2>1, <2>8 DEF Restart
  <2>9. CASE UNCHANGED vars
    BY <2>9
  <2> QED BY <1>1, <2>1, <2>2, <2>3, <2>4, <2>5, <2>6, <2>7, <2>8, <2>9 DEF Next
<1> QED BY <1>1, TypeCorrect, PTL DEF Spec, GrowthBounded

\* In every reachable state numEntries, which decides when to evict, is the
\* number of live entries, however entries are added, reused and purged.
THEOREM EntriesAlwaysCounted == Spec => []EntriesCounted
<1>1. ASSUME Init PROVE EntriesCounted
  BY <1>1, FS_EmptySet DEF Init, EntriesCounted
<1>2. ASSUME IInv, EntriesCounted, [Next]_vars PROVE EntriesCounted'
  <2>1. IsFiniteSet(alloc)
    BY <1>2, EntriesAssumption, FS_Subset DEF IInv, TypeOK
  <2>2. ASSUME NEW d \in Docs, CreateDoc(d) \/ FreeBegin(d) \/ FreeDoc(d)
        PROVE  alloc' = alloc /\ numEntries' = numEntries
    BY <2>2 DEF CreateDoc, FreeBegin, FreeDoc, cells, counters
  <2>3. ASSUME NEW c \in Configs, JSONCacheInit(c)
        PROVE  alloc' = alloc /\ numEntries' = numEntries
    BY <2>3 DEF JSONCacheInit, cells, counters
  <2>4. ASSUME NEW d \in Docs, NEW p \in Paths, LruCache_GetValue(d, p) \/ ClearBegin(d, p)
        PROVE  alloc' = alloc /\ numEntries' = numEntries
    BY <2>4 DEF LruCache_GetValue, ClearBegin, cells, counters
  <2>5. ASSUME NEW d \in Docs, NEW p \in Paths, NEW v \in Values,
               AddTooSmall(d, p, v) \/ AddEvict(d, p, v) \/ AddCrash(d, p, v)
        PROVE  alloc' = alloc /\ numEntries' = numEntries
    BY <2>5 DEF AddTooSmall, AddEvict, AddCrash, cells, counters, vars
  <2>6. ASSUME NEW d \in Docs, NEW p \in Paths, NEW v \in Values, NEW e \in Entries,
               AddFresh(d, p, v, e)
        PROVE  EntriesCounted'
    <3>1. alloc' = alloc \cup {e} /\ e \notin alloc /\ numEntries' = numEntries + 1
      BY <2>6 DEF AddFresh
    <3>2. Cardinality(alloc \cup {e}) = Cardinality(alloc) + 1
      BY <2>1, <3>1, FS_AddElement
    <3> QED BY <1>2, <3>1, <3>2 DEF EntriesCounted
  <2>7. CASE ClearPurge
    <3>1. ent \in alloc
      BY <1>2, <2>7, ListedEntry DEF ClearPurge, Iterating, ClearList, ent, IInv, TypeOK, ClearSound
    <3>2. alloc' = alloc \ {ent} /\ numEntries' = numEntries - 1
      BY <2>7 DEF ClearPurge
    <3>3. Cardinality(alloc \ {ent}) = Cardinality(alloc) - 1
      BY <2>1, <3>1, FS_RemoveElement
    <3> QED BY <1>2, <3>2, <3>3 DEF EntriesCounted
  <2>8. CASE ClearKeep \/ ClearEnd
    BY <1>2, <2>8 DEF ClearKeep, ClearEnd, cells, counters, EntriesCounted
  <2>9. CASE Restart
    BY <2>9, FS_EmptySet DEF Restart, EntriesCounted
  <2>10. CASE UNCHANGED vars
    BY <1>2, <2>10 DEF vars, cells, counters, EntriesCounted
  <2>11. ASSUME alloc' = alloc, numEntries' = numEntries PROVE EntriesCounted'
    BY <1>2, <2>11 DEF EntriesCounted
  <2> QED BY <1>2, <2>2, <2>3, <2>4, <2>5, <2>6, <2>7, <2>8, <2>9, <2>10, <2>11
      DEF Next, ClearStep
<1> QED BY <1>1, <1>2, AlwaysIInv, PTL DEF Spec
-----------------------------------------------------------------------------
(* The sum of the sizes of the entries.                                    *)

Adding == INSTANCE Folding WITH op <- LAMBDA sum, n : n + sum

\* What CountersExact calls numBytes, for any values of the cells.
SizeOf(v, S) == MapThenSumSet(LAMBDA e : SdsLen[v[e]], S)

AnyOf(S) == [s \in SUBSET S |-> CHOOSE x \in s : TRUE]
Sizes(v, S) == [e \in S |-> SdsLen[v[e]]]

\* That sum is a fold over the entries.
LEMMA SizeFolds ==
    ASSUME NEW S, IsFiniteSet(S), NEW v
    PROVE  \E g : /\ Adding!Folds(0, g, S, AnyOf(S), Sizes(v, S))
                  /\ Adding!Picks(AnyOf(S), S)
                  /\ SizeOf(v, S) = g[S]
<1> DEFINE E(g) == [s \in SUBSET S |->
                      IF s = {} THEN 0
                      ELSE SdsLen[v[CHOOSE x \in s : TRUE]] + g[s \ {CHOOSE x \in s : TRUE}]]
           it == CHOOSE g : g = E(g)
<1>1. Adding!Picks(AnyOf(S), S)
  BY DEF Adding!Picks, AnyOf
<1>2. \A g : Adding!Folds(0, g, S, AnyOf(S), Sizes(v, S)) <=> g = E(g)
  <2>1. \A s \in SUBSET S : s # {} =>
          /\ AnyOf(S)[s] = CHOOSE x \in s : TRUE
          /\ (CHOOSE x \in s : TRUE) \in S
          /\ Sizes(v, S)[AnyOf(S)[s]] = SdsLen[v[CHOOSE x \in s : TRUE]]
    BY DEF AnyOf, Sizes
  <2> QED BY <2>1 DEF Adding!Folds
<1>3. \E g : g = E(g)
  <2>1. \E g : Adding!Folds(0, g, S, AnyOf(S), Sizes(v, S))
    <3> DEFINE C == AnyOf(S)
               f == Sizes(v, S)
    <3>1. Adding!Picks(C, S)
      BY <1>1
    <3> HIDE DEF C, f
    <3>2. \E g : Adding!Folds(0, g, S, C, f)
      <4>1. Adding!IsFiniteSet(S)
        BY DEF IsFiniteSet, Adding!IsFiniteSet
      <4> QED BY <3>1, <4>1, Adding!FoldsExist
    <3> QED BY <3>2 DEF C, f
  <2> HIDE DEF E
  <2> QED BY <1>2, <2>1
<1>4. it = E(it)
  <2> HIDE DEF E
  <2> QED BY <1>3
<1>5. SizeOf(v, S) = it[S]
  BY DEF SizeOf, MapThenSumSet, MapThenFoldSet
<1>6. Adding!Folds(0, it, S, AnyOf(S), Sizes(v, S))
  <2> HIDE DEF it
  <2> QED BY <1>2, <1>4
<1> QED BY <1>1, <1>5, <1>6

\* No entries have no size.
LEMMA SizeEmpty == \A v : SizeOf(v, {}) = 0
<1> TAKE v
<1>1. PICK g : Adding!Folds(0, g, {}, AnyOf({}), Sizes(v, {})) /\ SizeOf(v, {}) = g[{}]
  BY SizeFolds, FS_EmptySet
<1> QED BY <1>1 DEF Adding!Folds

\* In w, cell e has a value and those of S have the values they have in v.
Extends(S, e, v, w) ==
    /\ IsFiniteSet(S)
    /\ e \notin S
    /\ \A x \in S : v[x] = w[x]
    /\ \A x \in S : w[x] \in Values
    /\ w[e] \in Values

\* The sizes of one more entry e, when the other cells keep their values.
LEMMA SizeAdded ==
    ASSUME NEW S, NEW e, NEW v, NEW w, Extends(S, e, v, w)
    PROVE  /\ SizeOf(v, S) \in Int
           /\ SizeOf(w, S \cup {e}) = SizeOf(v, S) + SdsLen[w[e]]
<1> DEFINE T == S \cup {e}
           C == AnyOf(S)
           D == AnyOf(T)
           f == Sizes(v, S)
           k == Sizes(w, T)
<1> USE DEF Extends
<1>1. IsFiniteSet(T) /\ S \subseteq T /\ T \ {e} = S /\ e \in T /\ S \in SUBSET T
  BY FS_AddElement
<1>2. PICK g : Adding!Folds(0, g, S, C, f) /\ Adding!Picks(C, S) /\ SizeOf(v, S) = g[S]
  BY SizeFolds
<1>3. PICK h : Adding!Folds(0, h, T, D, k) /\ Adding!Picks(D, T) /\ SizeOf(w, T) = h[T]
  <2> HIDE DEF T
  <2> QED BY <1>1, SizeFolds
<1>4. Adding!IsFiniteSet(S) /\ Adding!IsFiniteSet(T)
  <2>1. IsFiniteSet(S) /\ IsFiniteSet(T)
    BY <1>1
  <2> HIDE DEF T
  <2> QED BY <2>1 DEF IsFiniteSet, Adding!IsFiniteSet
<1>5. \A s \in SUBSET S : s # {} => C[s] = D[s]
  BY <1>1 DEF AnyOf
<1>6. \A x \in S : f[x] = k[x]
  BY <1>1 DEF Sizes
<1>7. \A x \in T : k[x] \in Nat
  BY SdsLenAssumption DEF Sizes
<1>8. k[e] = SdsLen[w[e]]
  BY <1>1 DEF Sizes
<1> HIDE DEF T, C, D, f, k, Extends
<1>9. g[S] = h[S]
  BY <1>1, <1>2, <1>3, <1>4, <1>5, <1>6, Adding!FoldsAgree
<1>10. h[S] \in Int /\ h[T] = h[S] + k[e]
  <2> DEFINE Typ == Int
  <2>1. Adding!Closed(0, Typ, T, k)
    BY <1>7 DEF Adding!Closed
  <2>2. Adding!Commutes(Typ, T, k)
    <3>1. ASSUME NEW sum \in Int, NEW m \in Nat, NEW n \in Nat
          PROVE  n + (m + sum) = m + (n + sum)
      OBVIOUS
    <3> QED BY <1>7, <3>1 DEF Adding!Commutes
  <2>3. \A s \in SUBSET T : h[s] \in Typ /\ \A x \in s : h[s] = k[x] + h[s \ {x}]
    <3> HIDE DEF Typ
    <3>1. Adding!FoldsFreely(0, Typ, h, T, D, k)
      BY <1>3, <1>4, <2>1, <2>2 DEF Adding!FoldsFreely
    <3> QED BY <3>1, Adding!FoldsAnyOrder
  <2>4. h[T] = k[e] + h[T \ {e}] /\ h[S] \in Typ
    <3> HIDE DEF Typ
    <3>1. T \in SUBSET T
      OBVIOUS
    <3>2. \A x \in T : h[T] = k[x] + h[T \ {x}]
      BY <2>3, <3>1
    <3> QED BY <1>1, <2>3, <3>2
  <2>5. h[T] = k[e] + h[S]
    BY <1>1, <2>4
  <2>6. h[S] \in Int /\ k[e] \in Int
    BY <1>1, <1>7, <2>4
  <2> QED BY <2>5, <2>6
<1> QED BY <1>2, <1>3, <1>8, <1>9, <1>10 DEF T

BytesCounted == numBytes = SizeOf(value, alloc)

\* A step that gives cell e the value w, and leaves the other entries, changes
\* the sum by what e was worth, if it was live, and is worth, if it is.
LEMMA BytesMoved ==
    ASSUME IInv, BytesCounted, NEW e \in Entries, NEW w,
           \A x \in alloc \ {e} : value[x] = w[x]
    PROVE  /\ e \in alloc => SizeOf(w, alloc \ {e}) = BytesWithout(e)
           /\ e \notin alloc => SizeOf(w, alloc) = numBytes
           /\ w[e] \in Values /\ e \in alloc => SizeOf(w, alloc) = BytesWithout(e) + SdsLen[w[e]]
           /\ w[e] \in Values /\ e \notin alloc =>
                SizeOf(w, alloc \cup {e}) = numBytes + SdsLen[w[e]]
<1> DEFINE S == alloc \ {e}
<1>1. IsFiniteSet(S) /\ e \notin S /\ \A x \in S : value[x] = w[x]
  BY EntriesAssumption, FS_Subset DEF IInv, TypeOK
<1>2. \A x \in alloc : value[x] \in Values
  BY LiveEntry
<1>3. \A x \in S : value[x] \in Values /\ w[x] \in Values
  BY <1>1, <1>2
<1>4. e \in alloc => S \cup {e} = alloc
  OBVIOUS
<1>5. e \notin alloc => S = alloc
  OBVIOUS
<1> HIDE DEF S
<1>6. CASE e \in alloc
  <2>1. value[e] \in Values /\ SdsLen[value[e]] \in Nat
    BY <1>2, <1>6, SdsLenAssumption
  <2>2. SizeOf(w, S) \in Int /\ SizeOf(value, S \cup {e}) = SizeOf(w, S) + SdsLen[value[e]]
    <3>1. Extends(S, e, w, value)
      BY <1>1, <1>3, <2>1 DEF Extends
    <3> QED BY <3>1, SizeAdded
  <2>3. numBytes = SizeOf(w, S) + SdsLen[value[e]]
    BY <1>4, <1>6, <2>2 DEF BytesCounted
  <2>4. SizeOf(w, S) = BytesWithout(e)
    BY <2>1, <2>2, <2>3 DEF BytesWithout
  <2>5. ASSUME w[e] \in Values
        PROVE  SizeOf(w, S \cup {e}) = SizeOf(w, S) + SdsLen[w[e]]
    <3>1. Extends(S, e, w, w)
      BY <1>1, <1>3, <2>5 DEF Extends
    <3> QED BY <3>1, SizeAdded
  <2> QED BY <1>4, <1>6, <2>4, <2>5 DEF S
<1>7. CASE e \notin alloc
  <2>1. SizeOf(value, S) = SizeOf(w, S)
    <3>1. S = {} \/ \E x \in S : TRUE
      OBVIOUS
    <3>2. ASSUME NEW x \in S PROVE SizeOf(value, S) = SizeOf(w, S)
      <4> DEFINE R == S \ {x}
      <4>1. IsFiniteSet(R) /\ x \notin R /\ R \cup {x} = S
        BY <1>1, FS_Subset
      <4>2. Extends(R, x, w, value) /\ Extends(R, x, w, w) /\ value[x] = w[x]
        BY <1>1, <1>3, <4>1 DEF Extends
      <4> HIDE DEF R
      <4>3. SizeOf(value, R \cup {x}) = SizeOf(w, R) + SdsLen[value[x]]
        BY <4>2, SizeAdded
      <4>4. SizeOf(w, R \cup {x}) = SizeOf(w, R) + SdsLen[w[x]]
        BY <4>2, SizeAdded
      <4> QED BY <4>1, <4>2, <4>3, <4>4
    <3> QED BY <3>1, <3>2, SizeEmpty
  <2>2. ASSUME w[e] \in Values
        PROVE  SizeOf(w, S \cup {e}) = SizeOf(value, S) + SdsLen[w[e]]
    <3>1. Extends(S, e, value, w)
      BY <1>1, <1>3, <2>2 DEF Extends
    <3> QED BY <3>1, SizeAdded
  <2> QED BY <1>5, <1>7, <2>1, <2>2 DEF BytesCounted
<1> QED BY <1>6, <1>7

\* In every reachable state numEntries and numBytes, which decide when to
\* evict, are the number and the total size of the live entries: no addition,
\* reuse of a cell, purge or restart counts an entry twice or forgets one.
THEOREM CountersAlwaysExact == Spec => []CountersExact
<1>1. ASSUME Init PROVE BytesCounted
  BY <1>1, SizeEmpty DEF Init, BytesCounted
<1>2. ASSUME IInv, BytesCounted, [Next]_vars PROVE BytesCounted'
  <2>1. ASSUME alloc' = alloc, value' = value, numBytes' = numBytes PROVE BytesCounted'
    BY <1>2, <2>1 DEF BytesCounted
  <2>2. ASSUME NEW d \in Docs, CreateDoc(d) \/ FreeBegin(d) \/ FreeDoc(d)
        PROVE  BytesCounted'
    BY <2>1, <2>2 DEF CreateDoc, FreeBegin, FreeDoc, cells, counters
  <2>3. ASSUME NEW c \in Configs, JSONCacheInit(c)
        PROVE  BytesCounted'
    BY <2>1, <2>3 DEF JSONCacheInit, cells, counters
  <2>4. ASSUME NEW d \in Docs, NEW p \in Paths, LruCache_GetValue(d, p) \/ ClearBegin(d, p)
        PROVE  BytesCounted'
    BY <2>1, <2>4 DEF LruCache_GetValue, ClearBegin, cells, counters
  <2>5. ASSUME NEW d \in Docs, NEW p \in Paths, NEW v \in Values,
               AddTooSmall(d, p, v) \/ AddCrash(d, p, v)
        PROVE  BytesCounted'
    BY <2>1, <2>5 DEF AddTooSmall, AddCrash, cells, counters, vars
  <2>6. ASSUME NEW d \in Docs, NEW p \in Paths, NEW v \in Values, NEW e \in Entries,
               AddFresh(d, p, v, e)
        PROVE  BytesCounted'
    <3>1. /\ e \notin alloc /\ alloc' = alloc \cup {e}
          /\ value' = [value EXCEPT ![e] = v] /\ numBytes' = numBytes + SdsLen[v]
      BY <2>6 DEF AddFresh
    <3>2. value'[e] = v /\ \A x \in alloc \ {e} : value[x] = value'[x]
      BY <1>2, <3>1 DEF IInv, TypeOK
    <3>3. SizeOf(value', alloc \cup {e}) = numBytes + SdsLen[v]
      BY <1>2, <3>1, <3>2, BytesMoved
    <3> QED BY <3>1, <3>3 DEF BytesCounted
  <2>7. ASSUME NEW d \in Docs, NEW p \in Paths, NEW v \in Values, AddEvict(d, p, v)
        PROVE  BytesCounted'
    <3> DEFINE e == lru.oldest
    <3>1. e \in alloc /\ e \in Entries
      BY <1>2, <2>7, LiveEntry DEF AddEvict, IInv, RecencyListSound, NoDanglingPointer
    <3>2. /\ alloc' = alloc /\ value' = [value EXCEPT ![e] = v]
          /\ numBytes' = BytesWithout(e) + SdsLen[v]
      BY <2>7 DEF AddEvict
    <3> HIDE DEF e
    <3>3. value'[e] = v /\ \A x \in alloc \ {e} : value[x] = value'[x]
      BY <1>2, <3>1, <3>2 DEF IInv, TypeOK
    <3>4. SizeOf(value', alloc) = BytesWithout(e) + SdsLen[v]
      BY <1>2, <3>1, <3>3, BytesMoved
    <3> QED BY <3>2, <3>4 DEF BytesCounted
  <2>8. CASE ClearPurge
    <3> DEFINE e == ent
    <3>1. e \in alloc /\ e \in Entries
      BY <1>2, <2>8, ListedEntry, LiveEntry
         DEF ClearPurge, Iterating, ClearList, ent, IInv, TypeOK, ClearSound
    <3>2. /\ alloc' = alloc \ {e} /\ value' = [value EXCEPT ![e] = NULL]
          /\ numBytes' = BytesWithout(e)
      BY <2>8 DEF ClearPurge
    <3> HIDE DEF e
    <3>3. \A x \in alloc \ {e} : value[x] = value'[x]
      BY <1>2, <3>2 DEF IInv, TypeOK
    <3>4. SizeOf(value', alloc \ {e}) = BytesWithout(e)
      BY <1>2, <3>1, <3>3, BytesMoved
    <3> QED BY <3>2, <3>4 DEF BytesCounted
  <2>9. CASE ClearKeep \/ ClearEnd
    BY <2>1, <2>9 DEF ClearKeep, ClearEnd, cells, counters
  <2>10. CASE Restart
    BY <2>10, SizeEmpty DEF Restart, BytesCounted
  <2>11. CASE UNCHANGED vars
    BY <2>1, <2>11 DEF vars, cells, counters
  <2> QED BY <1>2, <2>2, <2>3, <2>4, <2>5, <2>6, <2>7, <2>8, <2>9, <2>10, <2>11
      DEF Next, ClearStep
<1>3. ASSUME EntriesCounted, BytesCounted PROVE CountersExact
  BY <1>3 DEF CountersExact, BytesCounted, SizeOf
<1> QED BY <1>1, <1>2, <1>3, AlwaysIInv, EntriesAlwaysCounted, PTL DEF Spec

-----------------------------------------------------------------------------
(* The map that the cache implements.                                      *)

\* LruCache_ClearValues has passed no entry that it should have purged.
ClearProgress ==
    clear # NoClear =>
        \A i \in 1..(clear.pos - 1) :
            i \in DOMAIN ClearList /\ ~shouldClearPath(path[ClearList[i]], clear.path)

RInv == IInv /\ ClearProgress

-----------------------------------------------------------------------------
(* Paths and lists.                                                        *)

\* The comparison of strings, whose bound is the shorter one, finds a path
\* affected exactly if it is above, at or below the changed one.
LEMMA AffectedPath ==
    ASSUME NEW S, NEW p \in Seq(S), NEW q \in Seq(S)
    PROVE  shouldClearPath(p, q) <=> Abstract!Affected(p, q)
<1>1. SubSeq(p, 1, Len(p)) = p /\ SubSeq(q, 1, Len(q)) = q
  OBVIOUS
<1>2. SubSeq(p, 1, 0) = <<>> /\ SubSeq(q, 1, 0) = <<>>
  OBVIOUS
<1>3. Len(p) \in Nat /\ Len(q) \in Nat
  OBVIOUS
<1>4. (p = <<>> <=> Len(p) = 0) /\ (q = <<>> <=> Len(q) = 0)
  OBVIOUS
<1> QED BY <1>1, <1>2, <1>3, <1>4
    DEF shouldClearPath, IsPrefix, Abstract!Affected, Abstract!IsPrefix

\* The path of an entry, or of a clearing, is a sequence.
LEMMA PathSequence ==
    ASSUME NEW p \in Paths \cup {<<>>}
    PROVE  p \in Seq(UNION {Range(x) : x \in Paths})
<1> DEFINE S == UNION {Range(x) : x \in Paths}
<1>1. Paths \subseteq Seq(S)
  BY PathsAssumption
<1> HIDE DEF S
<1>2. <<>> \in Seq(S)
  OBVIOUS
<1>3. p \in Seq(S)
  BY <1>1, <1>2, Zenon
<1> QED BY <1>3 DEF S

\* Unlinking an entry moves only what is behind it.
LEMMA UnlinkedBefore ==
    ASSUME NEW S, NEW s \in Seq(S), IsInjective(s), NEW k \in DOMAIN s
    PROVE  \A i \in 1..(k - 1) : i \in DOMAIN Unlinked(s, s[k]) /\ Unlinked(s, s[k])[i] = s[i]
<1> DEFINE at == CHOOSE i \in DOMAIN s : s[i] = s[k]
           u == SubSeq(s, 1, k - 1)
           v == SubSeq(s, k + 1, Len(s))
<1>1. k \in 1..Len(s) /\ Len(s) \in Nat /\ DOMAIN s = 1..Len(s)
  OBVIOUS
<1>2. at = k
  BY DEF IsInjective
<1>3. Unlinked(s, s[k]) = u \o v
  BY <1>2 DEF Unlinked, RemoveAt
<1>4. u \in Seq(S) /\ Len(u) = k - 1 /\ \A i \in 1..(k - 1) : u[i] = s[i]
  BY <1>1
<1>5. v \in Seq(S) /\ Len(v) = Len(s) - k
  BY <1>1
<1> HIDE DEF u, v
<1> DEFINE w == u \o v
<1>6. /\ w \in Seq(S) /\ Len(w) = Len(u) + Len(v)
      /\ \A i \in 1..(Len(u) + Len(v)) : w[i] = IF i <= Len(u) THEN u[i] ELSE v[i - Len(u)]
  BY <1>4, <1>5, ConcatProperties
<1>7. Unlinked(s, s[k]) = w
  BY <1>3
<1> HIDE DEF w
<1>8. DOMAIN w = 1..Len(w) /\ Len(w) = Len(s) - 1
  BY <1>1, <1>4, <1>5, <1>6
<1>9. ASSUME NEW i \in 1..(k - 1)
      PROVE  i \in DOMAIN w /\ w[i] = s[i]
  <2>1. i \in 1..Len(w) /\ i <= Len(u) /\ w[i] = u[i]
    BY <1>1, <1>4, <1>5, <1>6, <1>8
  <2> QED BY <2>1, <1>4, <1>8
<1> QED BY <1>7, <1>9

-----------------------------------------------------------------------------
(* The clearing loop misses nothing.                                       *)

\* What the invariant says of the entry that LruCache_ClearValues looks at.
LEMMA ClearedEntry ==
    ASSUME IInv, Iterating
    PROVE  /\ clear \in ClearRecord /\ clear.doc \in docs /\ clear.doc \in Docs
           /\ clear.pos \in DOMAIN ClearList
           /\ ent \in alloc /\ ent \in Entries /\ parent[ent] = clear.doc
<1>1. /\ clear \in ClearRecord /\ clear.doc \in docs /\ clear.doc \in Docs
      /\ clear.pos \in DOMAIN lruEntries[clear.doc]
  BY DEF Iterating, ClearList, IInv, TypeOK, ClearSound
<1> QED BY <1>1, ListedEntry, LiveEntry DEF ent, ClearList

\* An entry that stays is behind the new position with all those before it.
LEMMA KeepProgress == ASSUME RInv, ClearKeep PROVE ClearProgress'
<1>1. clear \in ClearRecord /\ clear.pos \in Nat \ {0} /\ clear.pos \in DOMAIN ClearList
  BY ClearedEntry DEF RInv, ClearKeep, ClearRecord
<1>2. /\ clear'.doc = clear.doc /\ clear'.path = clear.path
      /\ clear'.pos = clear.pos + 1
  BY <1>1 DEF ClearKeep, ClearRecord
<1>3. ClearList' = ClearList /\ path' = path
  BY <1>2 DEF ClearKeep, ClearList, cells
<1>4. clear # NoClear
  BY DEF ClearKeep, Iterating
<1>5. ASSUME NEW i \in 1..clear.pos
      PROVE  i \in DOMAIN ClearList /\ ~shouldClearPath(path[ClearList[i]], clear.path)
  <2>1. CASE i = clear.pos
    BY <2>1, <1>1 DEF ClearKeep, ent
  <2>2. CASE i # clear.pos
    BY <2>2, <1>1, <1>4 DEF RInv, ClearProgress
  <2> QED BY <2>1, <2>2
<1>6. 1..(clear'.pos - 1) = 1..clear.pos
  BY <1>1, <1>2
<1> QED BY <1>2, <1>3, <1>5, <1>6 DEF ClearProgress

\* Taking an entry out leaves those before it where they are.
LEMMA PurgeProgress == ASSUME RInv, ClearPurge PROVE ClearProgress'
<1> DEFINE e == ent
           list == lruEntries[clear.doc]
<1>1. /\ IInv /\ clear \in ClearRecord /\ clear.doc \in Docs /\ parent[e] = clear.doc
      /\ clear.pos \in DOMAIN list /\ e = list[clear.pos]
  BY ClearedEntry DEF RInv, ClearPurge, ClearList, ent
<1>2. list \in Seq(Entries) /\ IsInjective(list)
  BY <1>1 DEF IInv, TypeOK, EntriesOwned
<1>3. ClearList' = Unlinked(list, e) /\ clear' = clear /\ path' = [path EXCEPT ![e] = NULL]
  BY <1>1 DEF ClearPurge, ClearList, IInv, TypeOK
<1>4. ASSUME NEW i \in 1..(clear.pos - 1)
      PROVE  /\ i \in DOMAIN ClearList'
             /\ ~shouldClearPath(path'[ClearList'[i]], clear.path)
  <2>1. i \in DOMAIN ClearList' /\ ClearList'[i] = list[i]
    BY <1>1, <1>2, <1>3, UnlinkedBefore
  <2>2. i \in DOMAIN list /\ ~shouldClearPath(path[list[i]], clear.path)
    BY DEF RInv, ClearProgress, ClearPurge, Iterating, ClearList
  <2>3. i # clear.pos
    BY <1>1 DEF ClearRecord
  <2>4. list[i] # e
    BY <2>2, <2>3, <1>1, <1>2 DEF IsInjective
  <2>5. list[i] \in Entries
    BY <2>2, <1>2
  <2>6. path'[list[i]] = path[list[i]]
    BY <2>4, <2>5, <1>1, <1>3 DEF IInv, TypeOK
  <2> QED BY <2>1, <2>2, <2>6
<1> QED BY <1>3, <1>4 DEF ClearProgress

\* Every step keeps what the clearing has done.
LEMMA ProgressStep == ASSUME RInv, [Next]_vars PROVE ClearProgress'
<1>1. CASE clear' = NoClear
  BY <1>1 DEF ClearProgress
<1>2. CASE UNCHANGED <<path, lruEntries, clear>>
  BY <1>2 DEF RInv, ClearProgress, ClearList
<1>3. ASSUME NEW d \in Docs, NEW p \in Paths, ClearBegin(d, p)
      PROVE  ClearProgress'
  <2>1. clear'.pos = 1
    BY <1>3 DEF ClearBegin
  <2> QED BY <2>1 DEF ClearProgress
<1>4. ASSUME NEW d \in Docs, CreateDoc(d) \/ FreeBegin(d) \/ FreeDoc(d)
      PROVE  ClearProgress'
  <2>1. CASE FreeBegin(d)
    <3>1. clear'.pos = 1
      BY <2>1 DEF FreeBegin
    <3> QED BY <3>1 DEF ClearProgress
  <2>2. CASE CreateDoc(d) \/ FreeDoc(d)
    BY <1>1, <2>2 DEF CreateDoc, FreeDoc, Idle
  <2> QED BY <1>4, <2>1, <2>2
<1>5. ASSUME NEW c \in Configs, JSONCacheInit(c)
      PROVE  ClearProgress'
  BY <1>1, <1>5 DEF JSONCacheInit, Idle
<1>6. ASSUME NEW d \in Docs, NEW p \in Paths, LruCache_GetValue(d, p)
      PROVE  ClearProgress'
  BY <1>1, <1>6 DEF LruCache_GetValue, Idle
<1>7. ASSUME NEW d \in Docs, NEW p \in Paths, NEW v \in Values,
             \/ AddTooSmall(d, p, v)
             \/ AddEvict(d, p, v)
             \/ AddCrash(d, p, v)
             \/ \E e \in Entries : AddFresh(d, p, v, e)
      PROVE  ClearProgress'
  <2>1. clear' = clear /\ clear = NoClear
    BY <1>7 DEF AddTooSmall, AddEvict, AddCrash, AddFresh, Miss, Idle, vars
  <2> QED BY <1>1, <2>1
<1>8. CASE ClearStep
  BY <1>1, <1>8, KeepProgress, PurgeProgress DEF ClearStep, ClearEnd
<1>9. CASE Restart
  BY <1>1, <1>9 DEF Restart
<1>10. CASE UNCHANGED vars
  BY <1>2, <1>10 DEF vars, cells
<1> QED BY <1>3, <1>4, <1>5, <1>6, <1>7, <1>8, <1>9, <1>10 DEF Next

\* The invariant of the refinement always holds.
LEMMA AlwaysRInv == Spec => []RInv
<1>1. Init => RInv
  BY InitIInv DEF Init, RInv, ClearProgress
<1>2. RInv /\ [Next]_vars => RInv'
  BY NextIInv, ProgressStep DEF RInv
<1> QED BY <1>1, <1>2, PTL DEF Spec

-----------------------------------------------------------------------------
(* What the map does in each step.                                         *)

\* The entries that the map still has.
Kept == {e \in alloc : ~ToBePurged(e)}

\* The abstract content is that of the entries kept.
LEMMA ContentOfKept == contentBar = {<<parent[e], path[e], value[e]>> : e \in Kept}
BY DEF contentBar, Kept

\* The map is the same if its entries and their fields are.
LEMMA SameContent ==
    ASSUME Kept' = Kept,
           \A e \in Kept : parent'[e] = parent[e] /\ path'[e] = path[e] /\ value'[e] = value[e]
    PROVE  contentBar' = contentBar
<1>1. contentBar' = {<<parent'[e], path'[e], value'[e]>> : e \in Kept'}
  BY DEF contentBar, Kept
<1> QED BY <1>1, ContentOfKept

\* While no clearing runs the map has every live entry.
LEMMA IdleContent ==
    ASSUME clear = NoClear
    PROVE  Kept = alloc /\ docsBar = docs
BY DEF Kept, ToBePurged, docsBar

\* Steps the map does not see.
LEMMA StutterMaps ==
    ASSUME UNCHANGED <<cells, docs, clear>>
    PROVE  UNCHANGED Abstract!avars
<1>1. Kept' = Kept
  BY DEF Kept, ToBePurged, cells
<1>2. contentBar' = contentBar
  BY <1>1, SameContent DEF cells
<1> QED BY <1>2 DEF docsBar, Abstract!avars

\* A step of the loop over an entry that is not affected.
LEMMA KeepMaps == ASSUME RInv, ClearKeep PROVE UNCHANGED Abstract!avars
<1>1. clear \in ClearRecord
  BY ClearedEntry DEF RInv, ClearKeep
<1>2. /\ clear' \in ClearRecord
      /\ clear'.doc = clear.doc /\ clear'.path = clear.path /\ clear'.free = clear.free
  BY <1>1 DEF ClearKeep, ClearRecord
<1>3. clear # NoClear /\ clear' # NoClear
  BY <1>1, <1>2, NoClearAssumption
<1>4. Kept' = Kept
  BY <1>2, <1>3 DEF ClearKeep, Kept, ToBePurged, cells
<1>5. contentBar' = contentBar
  BY <1>4, SameContent DEF ClearKeep, cells
<1>6. docsBar' = docsBar
  BY <1>2, <1>3 DEF ClearKeep, docsBar
<1> QED BY <1>5, <1>6 DEF Abstract!avars

\* The map has lost a purged entry when the clearing began.
LEMMA PurgeMaps == ASSUME RInv, ClearPurge PROVE UNCHANGED Abstract!avars
<1>1. /\ IInv /\ clear # NoClear /\ parent[ent] = clear.doc
      /\ shouldClearPath(path[ent], clear.path)
  BY ClearedEntry DEF RInv, ClearPurge, Iterating
<1>2. ent \notin Kept
  BY <1>1 DEF Kept, ToBePurged
<1> DEFINE e == ent
<1>3. /\ alloc' = alloc \ {e} /\ clear' = clear /\ docs' = docs
      /\ parent' = [parent EXCEPT ![e] = NULL]
      /\ path' = [path EXCEPT ![e] = NULL]
      /\ value' = [value EXCEPT ![e] = NULL]
  BY DEF ClearPurge
<1>4. e \notin Kept
  BY <1>2
<1> HIDE DEF e
<1>5. \A x \in Entries \ {e} :
        parent'[x] = parent[x] /\ path'[x] = path[x] /\ value'[x] = value[x]
  BY <1>1, <1>3 DEF IInv, TypeOK
<1>6. alloc \subseteq Entries
  BY <1>1 DEF IInv, TypeOK
<1>7. Kept' = Kept
  BY <1>3, <1>4, <1>5, <1>6 DEF Kept, ToBePurged
<1>8. contentBar' = contentBar
  BY <1>4, <1>5, <1>6, <1>7, SameContent DEF Kept
<1> QED BY <1>3, <1>8 DEF docsBar, Abstract!avars

\* At its end the loop has purged all that it had to.
LEMMA EndMaps == ASSUME RInv, ClearEnd PROVE UNCHANGED Abstract!avars
<1>1. /\ IInv /\ clear # NoClear /\ clear \in ClearRecord
      /\ clear.pos \in Nat \ {0} /\ clear.doc \in docs /\ clear.doc \in Docs
  BY DEF RInv, ClearEnd, IInv, TypeOK, ClearSound, ClearRecord
<1>2. ClearList \in Seq(Entries)
  BY <1>1 DEF ClearList, IInv, TypeOK
<1>3. \A i \in DOMAIN ClearList : i < clear.pos
  BY <1>1, <1>2 DEF RInv, ClearEnd, ClearProgress
<1>4. ASSUME NEW e \in alloc, parent[e] = clear.doc
      PROVE  ~shouldClearPath(path[e], clear.path)
  <2>1. PICK i \in DOMAIN ClearList : ClearList[i] = e
    BY <1>1, <1>4, LiveEntry DEF ClearList, Range
  <2>2. i \in 1..(clear.pos - 1)
    BY <1>1, <1>2, <1>3
  <2> QED BY <1>1, <2>1, <2>2 DEF RInv, ClearProgress
<1>5. Kept = alloc
  BY <1>4 DEF Kept, ToBePurged
<1>6. clear' = NoClear /\ alloc' = alloc
  BY DEF ClearEnd, cells
<1>7. Kept' = Kept
  BY <1>5, <1>6 DEF Kept, ToBePurged
<1>8. contentBar' = contentBar
  BY <1>7, SameContent DEF ClearEnd, cells
<1>9. docsBar' = docsBar
  BY <1>1, <1>6 DEF ClearEnd, docsBar
<1> QED BY <1>8, <1>9 DEF Abstract!avars

\* JSON.SET of a new key adds a document without entries.
LEMMA CreateMaps ==
    ASSUME NEW d \in Docs, CreateDoc(d)
    PROVE  Abstract!Create(d)
<1>1. clear = NoClear /\ clear' = NoClear
  BY DEF CreateDoc, Idle
<1>2. Kept' = Kept
  BY <1>1 DEF CreateDoc, Kept, ToBePurged, cells
<1>3. contentBar' = contentBar
  BY <1>2, SameContent DEF CreateDoc, cells
<1>4. docsBar = docs /\ docsBar' = docs'
  BY <1>1 DEF docsBar
<1> QED BY <1>3, <1>4 DEF CreateDoc, Abstract!Create

\* The document of a clearing that begins loses its affected entries at once.
LEMMA ClearBeginMaps ==
    ASSUME RInv, NEW d \in Docs, NEW p \in Paths, ClearBegin(d, p)
    PROVE  Abstract!Invalidate(d, p)
<1>1. /\ clear = NoClear /\ d \in docs /\ docs' = docs /\ UNCHANGED cells
      /\ clear' = [doc |-> d, path |-> p, pos |-> 1, free |-> FALSE]
  BY DEF ClearBegin, Idle
<1>2. clear' \in ClearRecord
  BY <1>1 DEF ClearRecord
<1>3. clear' # NoClear /\ clear'.doc = d /\ clear'.path = p /\ ~clear'.free
  BY <1>1, <1>2, NoClearAssumption
<1>4. docsBar = docs /\ docsBar' = docs
  BY <1>1, <1>3 DEF docsBar
<1>5. ASSUME NEW e \in alloc
      PROVE  shouldClearPath(path[e], p) <=> Abstract!Affected(path[e], p)
  <2>1. path[e] \in Paths
    BY LiveEntry DEF RInv
  <2> QED BY <2>1, PathSequence, AffectedPath
<1>6. Kept = alloc
  BY <1>1, IdleContent
<1>7. Kept' = {e \in alloc : ~(parent[e] = d /\ Abstract!Affected(path[e], p))}
  BY <1>1, <1>3, <1>5 DEF Kept, ToBePurged, cells
<1>8. contentBar' = {<<parent[e], path[e], value[e]>> : e \in Kept'}
  BY <1>1 DEF contentBar, Kept, cells
<1>9. contentBar = {<<parent[e], path[e], value[e]>> : e \in alloc}
  BY <1>6, ContentOfKept
<1>10. contentBar' = {t \in contentBar : ~(t[1] = d /\ Abstract!Affected(t[2], p))}
  BY <1>7, <1>8, <1>9
<1> QED BY <1>1, <1>4, <1>10 DEF Abstract!Invalidate

\* A document that is freed takes all its entries with it at once.
LEMMA FreeBeginMaps ==
    ASSUME RInv, NEW d \in Docs, FreeBegin(d)
    PROVE  Abstract!Free(d)
<1>1. /\ clear = NoClear /\ d \in docs /\ docs' = docs /\ UNCHANGED cells
      /\ clear' = [doc |-> d, path |-> <<>>, pos |-> 1, free |-> TRUE]
  BY DEF FreeBegin, Idle
<1>2. clear' \in ClearRecord
  BY <1>1 DEF ClearRecord
<1>3. clear' # NoClear /\ clear'.doc = d /\ clear'.path = <<>> /\ clear'.free
  BY <1>1, <1>2, NoClearAssumption
<1>4. docsBar = docs /\ docsBar' = docs \ {d}
  BY <1>1, <1>3 DEF docsBar
<1>5. Kept = alloc
  BY <1>1, IdleContent
<1>6. Kept' = {e \in alloc : parent[e] # d}
  BY <1>1, <1>3 DEF Kept, ToBePurged, cells, shouldClearPath
<1>7. contentBar' = {<<parent[e], path[e], value[e]>> : e \in Kept'}
  BY <1>1 DEF contentBar, Kept, cells
<1>8. contentBar = {<<parent[e], path[e], value[e]>> : e \in alloc}
  BY <1>5, ContentOfKept
<1>9. contentBar' = {t \in contentBar : t[1] # d}
  BY <1>6, <1>7, <1>8
<1> QED BY <1>1, <1>4, <1>9 DEF Abstract!Free

\* A document is freed.
LEMMA FreeDocMaps ==
    ASSUME RInv, NEW d \in Docs, FreeDoc(d)
    PROVE  Abstract!Free(d)
<1>1. /\ clear = NoClear /\ clear' = clear /\ d \in docs /\ docs' = docs \ {d}
      /\ UNCHANGED cells /\ lruEntries[d] = <<>>
  BY DEF FreeDoc, Idle
<1>2. \A e \in alloc : parent[e] # d
  BY <1>1, LiveEntry, EmptyRange DEF RInv
<1>3. docsBar = docs /\ docsBar' = docs \ {d}
  BY <1>1 DEF docsBar
<1>4. Kept = alloc
  BY <1>1, IdleContent
<1>5. Kept' = Kept
  BY <1>1 DEF Kept, ToBePurged, cells
<1>6. contentBar' = contentBar
  BY <1>1, <1>5, SameContent DEF cells
<1>7. contentBar = {<<parent[e], path[e], value[e]>> : e \in alloc}
  BY <1>4, ContentOfKept
<1>8. contentBar' = {t \in contentBar : t[1] # d}
  BY <1>2, <1>6, <1>7
<1> QED BY <1>1, <1>3, <1>8 DEF Abstract!Free

\* Putting a value in the cell e, new or taken from another entry, fills the
\* map at the missed path; only the triple that e held is lost.
LEMMA FillMaps ==
    ASSUME IInv, NEW d \in Docs, NEW p \in Paths, NEW v \in Values, NEW e \in Entries,
           Miss(d, p),
           alloc' = alloc \cup {e},
           parent' = [parent EXCEPT ![e] = d],
           path' = [path EXCEPT ![e] = p],
           value' = [value EXCEPT ![e] = v],
           UNCHANGED <<docs, clear>>
    PROVE  Abstract!Fill(d, p, v)
<1> DEFINE triple(x) == <<parent[x], path[x], value[x]>>
           lost == {triple(x) : x \in alloc \cap {e}}
<1>1. clear = NoClear /\ d \in docs
  BY DEF Miss, Idle
<1>2. docsBar = docs /\ docsBar' = docs
  BY <1>1 DEF docsBar
<1>3. Kept = alloc /\ Kept' = alloc'
  BY <1>1 DEF Kept, ToBePurged
<1>4. contentBar = {triple(x) : x \in alloc}
  BY <1>3, ContentOfKept
<1>5. contentBar' = {<<parent'[x], path'[x], value'[x]>> : x \in alloc'}
  BY <1>3 DEF contentBar, Kept
<1>6. \A t \in contentBar : ~(t[1] = d /\ t[2] = p)
  BY <1>4, MissedPath
<1>7. lost \subseteq contentBar
  BY <1>4
<1>8. Cardinality(lost) <= 1
  <2>1. CASE e \in alloc
    <3>1. lost = {triple(e)}
      BY <2>1
    <3>2. Cardinality({triple(e)}) = 1
      BY FS_Singleton
    <3> QED BY <3>1, <3>2
  <2>2. CASE e \notin alloc
    <3>1. lost = {}
      BY <2>2
    <3>2. Cardinality({}) = 0
      BY FS_EmptySet
    <3> QED BY <3>1, <3>2
  <2> QED BY <2>1, <2>2
<1>9. contentBar' = (contentBar \ lost) \cup {<<d, p, v>>}
  <2>1. /\ parent'[e] = d /\ path'[e] = p /\ value'[e] = v
        /\ \A x \in alloc \ {e} :
              parent'[x] = parent[x] /\ path'[x] = path[x] /\ value'[x] = value[x]
    BY DEF IInv, TypeOK
  <2>2. \A x \in alloc \ {e}, y \in alloc \cap {e} : triple(x) # triple(y)
    BY DEF IInv, OneEntryPerPath
  <2>3. contentBar' = {triple(x) : x \in alloc \ {e}} \cup {<<d, p, v>>}
    BY <1>5, <2>1
  <2>4. contentBar \ lost = {triple(x) : x \in alloc \ {e}}
    BY <1>4, <2>2
  <2> QED BY <2>3, <2>4
<1> HIDE DEF lost
<1>10. \E w \in SUBSET contentBar :
          Cardinality(w) <= 1 /\ contentBar' = (contentBar \ w) \cup {<<d, p, v>>}
  BY <1>7, <1>8, <1>9
<1>11. d \in docsBar /\ docsBar' = docsBar
  BY <1>1, <1>2
<1>12. \A w : Abstract!Cardinality(w) = Cardinality(w)
  BY DEF Abstract!Cardinality, Cardinality
<1> QED BY <1>6, <1>10, <1>11, <1>12 DEF Abstract!Fill

\* A fill below the limits.
LEMMA AddFreshMaps ==
    ASSUME RInv, NEW d \in Docs, NEW p \in Paths, NEW v \in Values, NEW e \in Entries,
           AddFresh(d, p, v, e)
    PROVE  Abstract!Fill(d, p, v)
BY FillMaps DEF RInv, AddFresh

\* The cell of the oldest entry keeps being allocated.
LEMMA AddEvictMaps ==
    ASSUME RInv, NEW d \in Docs, NEW p \in Paths, NEW v \in Values, AddEvict(d, p, v)
    PROVE  Abstract!Fill(d, p, v)
<1> DEFINE e == lru.oldest
<1>1. e \in alloc /\ e \in Entries
  BY LiveEntry DEF AddEvict, RInv, IInv, RecencyListSound, NoDanglingPointer
<1>2. /\ alloc' = alloc \cup {e}
      /\ parent' = [parent EXCEPT ![e] = d]
      /\ path' = [path EXCEPT ![e] = p]
      /\ value' = [value EXCEPT ![e] = v]
      /\ UNCHANGED <<docs, clear>>
      /\ Miss(d, p)
  BY <1>1 DEF AddEvict
<1> HIDE DEF e
<1> QED BY <1>1, <1>2, FillMaps DEF RInv

\* The initial states map.
LEMMA InitMaps == ASSUME Init PROVE Abstract!Init
<1>1. alloc = {} /\ docs = {} /\ clear = NoClear
  BY DEF Init
<1> QED BY <1>1 DEF contentBar, docsBar, Abstract!Init

\* A restart maps.
LEMMA RestartMaps == ASSUME Restart PROVE Abstract!Restart
<1>1. alloc' = {} /\ docs' = {} /\ clear' = NoClear
  BY DEF Restart
<1> QED BY <1>1 DEF contentBar, docsBar, Abstract!Restart

-----------------------------------------------------------------------------

\* Every step of the cache is a step of the map, or changes nothing in it.
LEMMA StepMaps == RInv /\ [Next]_vars => [Abstract!Next]_(Abstract!avars)
<1> SUFFICES ASSUME RInv, [Next]_vars PROVE [Abstract!Next]_(Abstract!avars)
  OBVIOUS
<1>1. ASSUME NEW d \in Docs, CreateDoc(d) \/ FreeBegin(d) \/ FreeDoc(d)
      PROVE  Abstract!Next
  BY <1>1, CreateMaps, FreeBeginMaps, FreeDocMaps DEF Abstract!Next
<1>2. ASSUME NEW c \in Configs, JSONCacheInit(c)
      PROVE  UNCHANGED Abstract!avars
  BY <1>2, StutterMaps DEF JSONCacheInit
<1>3. ASSUME NEW d \in Docs, NEW p \in Paths, LruCache_GetValue(d, p)
      PROVE  UNCHANGED Abstract!avars
  BY <1>3, StutterMaps DEF LruCache_GetValue
<1>4. ASSUME NEW d \in Docs, NEW p \in Paths, ClearBegin(d, p)
      PROVE  Abstract!Next
  BY <1>4, ClearBeginMaps DEF Abstract!Next
<1>5. ASSUME NEW d \in Docs, NEW p \in Paths, NEW v \in Values,
             AddTooSmall(d, p, v) \/ AddCrash(d, p, v)
      PROVE  UNCHANGED Abstract!avars
  BY <1>5, StutterMaps DEF AddTooSmall, AddCrash, vars
<1>6. ASSUME NEW d \in Docs, NEW p \in Paths, NEW v \in Values,
             AddEvict(d, p, v) \/ \E e \in Entries : AddFresh(d, p, v, e)
      PROVE  Abstract!Next
  BY <1>6, AddEvictMaps, AddFreshMaps DEF Abstract!Next
<1>7. CASE ClearStep
  BY <1>7, KeepMaps, PurgeMaps, EndMaps DEF ClearStep
<1>8. CASE Restart
  BY <1>8, RestartMaps DEF Abstract!Next
<1>9. CASE UNCHANGED vars
  BY <1>9, StutterMaps DEF vars
<1> QED BY <1>1, <1>2, <1>3, <1>4, <1>5, <1>6, <1>7, <1>8, <1>9 DEF Next

\* The two linked lists, the reuse of the oldest cell and the loop of
\* LruCache_ClearValues keep a map from documents and paths to values: a fill
\* loses one other entry at most, a clearing exactly the affected ones.
THEOREM CacheImplementsMap == Spec => ImplementsPathCache
BY InitMaps, StepMaps, AlwaysRInv, PTL DEF Spec, ImplementsPathCache, Abstract!Spec

=============================================================================
