------------------------------ MODULE LruCache ------------------------------
(***************************************************************************)
(* The cache of serialized values that JSON.GET keeps (cache.c, cache.h)   *)
(* and the two places that use it: getSerializedJson, which looks a path   *)
(* up and fills the cache on a miss, and maybeClearPathCache/JSONTypeFree, *)
(* which take entries out when a document changes or goes away.            *)
(*                                                                         *)
(* Every LruPathEntry is threaded on two lists: the global doubly linked   *)
(* recency list (lru_prev, lru_next, newest, oldest) and the singly linked *)
(* list of its document (lruEntries, key_next), kept here as a sequence.   *)
(* The recency list is modelled pointer by pointer, as the source writes   *)
(* it.  A path is the string that reaches the cache, a sequence of         *)
(* characters; a value is known by its length in bytes (SdsLen) only.      *)
(*                                                                         *)
(* The server runs one command at a time.  Each command is one step,       *)
(* except that the loop of LruCache_ClearValues is one step per iteration: *)
(* while clear # NoClear no other command runs.                            *)
(***************************************************************************)
EXTENDS Integers, Sequences, FiniteSets, SequencesExt

CONSTANTS
    Entries,        \* memory cells a LruPathEntry can be allocated in
    Docs,           \* JSONType_t objects
    Paths,          \* normalized path strings, sequences of characters
    Values,         \* serialized values
    SdsLen,         \* length in bytes of each value
    Configs,        \* settings JSON._CACHEINIT may install
    DefaultConfig,  \* settings the module starts with
    NULL,           \* the null pointer
    NoClear         \* no LruCache_ClearValues is running

Config == [maxEntries : Nat, maxBytes : Nat, minSize : Nat]

\* The locals of a running LruCache_ClearValues: pos is the entry it looks at.
ClearRecord == [doc : Docs, path : Paths \cup {<<>>}, pos : Nat \ {0}, free : BOOLEAN]

ASSUME PathsAssumption == Paths \subseteq Seq(UNION {Range(p) : p \in Paths})
ASSUME SdsLenAssumption == SdsLen \in [Values -> Nat]
ASSUME ConfigsAssumption == Configs \subseteq Config /\ DefaultConfig \in Configs
ASSUME NullAssumption == NULL \notin Entries \cup Docs \cup Paths \cup Values
ASSUME NoClearAssumption == NoClear \notin ClearRecord
\* There are always enough cells: malloc failure is not modelled.
ASSUME EntriesAssumption ==
    /\ IsFiniteSet(Entries)
    /\ \A c \in Configs : c.maxEntries <= Cardinality(Entries)

VARIABLES
    alloc,          \* cells that hold a live entry
    lru,            \* recency list: [prev, next, newest, oldest]
    parent,         \* document of each live entry
    path,           \* path of each live entry
    value,          \* value of each live entry
    lruEntries,     \* per document, its entries, latest first
    numEntries,     \* LruCache.numEntries
    numBytes,       \* LruCache.numBytes
    config,         \* LruCache.maxEntries, maxBytes, minSize
    docs,           \* JSONType_t objects that are allocated
    clear,          \* the running LruCache_ClearValues, or NoClear
    crashed,        \* the server has dereferenced a null pointer
    newer           \* history: newer[e] = entries used since e was last used

cells == <<alloc, parent, path, value>>
counters == <<numEntries, numBytes>>
vars == <<cells, lru, lruEntries, counters, config, docs, clear, crashed, newer>>

EntryOrNull == Entries \cup {NULL}

Idle == ~crashed /\ clear = NoClear

-----------------------------------------------------------------------------
(* The recency list.                                                       *)

EmptyList == [prev |-> [e \in Entries |-> NULL],
              next |-> [e \in Entries |-> NULL],
              newest |-> NULL,
              oldest |-> NULL]

\* pluckEntry: newest moves to the entry before, oldest to the one after.
pluckEntryKeepsBackLink(l, e) ==
    LET p == l.prev[e]
        n == l.next[e]
    IN  [prev |-> [l.prev EXCEPT ![e] = NULL],
         next |-> [x \in Entries |-> IF x = e THEN NULL
                                     ELSE IF x = p THEN n ELSE l.next[x]],
         newest |-> IF e = l.newest THEN p ELSE l.newest,
         oldest |-> IF e = l.oldest THEN n ELSE l.oldest]

pluckEntry(l, e) ==
    LET p == l.prev[e]
        n == l.next[e]
    IN  [prev |-> [x \in Entries |-> IF x = e THEN NULL
                                     ELSE IF x = n THEN p ELSE l.prev[x]],
         next |-> [x \in Entries |-> IF x = e THEN NULL
                                     ELSE IF x = p THEN n ELSE l.next[x]],
         newest |-> IF e = l.newest THEN p ELSE l.newest,
         oldest |-> IF e = l.oldest THEN n ELSE l.oldest]

\* touchEntry: pluck the entry, then put it in front of the newest one.
touchEntry(l, e) ==
    LET q == pluckEntry(l, e)
    IN  [prev |-> [x \in Entries |-> IF x = q.newest THEN e ELSE q.prev[x]],
         next |-> [q.next EXCEPT ![e] = q.newest],
         newest |-> e,
         oldest |-> IF q.oldest = NULL THEN e ELSE q.oldest]

\* What using, and forgetting, an entry does to the history of uses.
Used(e) == [x \in Entries |-> IF x = e THEN {}
                              ELSE IF x \in alloc THEN newer[x] \cup {e} ELSE {}]
Forgotten(e) == [x \in Entries |-> IF x = e THEN {} ELSE newer[x] \ {e}]

-----------------------------------------------------------------------------
(* The list of a document.                                                 *)

\* The search loop of purgeEntry for the entry, whose assert(found) is part
\* of EntriesOwned, and the unlinking after it, which keeps what comes before.
UnlinkedWithFront(s, e) == SubSeq(s, 1 + CHOOSE i \in DOMAIN s : s[i] = e, Len(s))

Unlinked(s, e) == RemoveAt(s, CHOOSE i \in DOMAIN s : s[i] = e)

\* numBytes without an entry: what purgeEntry leaves.
BytesWithoutForgotten(e) == numBytes
BytesWithout(e) == numBytes - SdsLen[value[e]]

\* The entries LruCache_GetValue's loop stops at.
Matches(d, p) == {i \in DOMAIN lruEntries[d] : path[lruEntries[d][i]] = p}

Cached(d, p) == Matches(d, p) # {}

Found(d, p) ==
    lruEntries[d][CHOOSE i \in Matches(d, p) : \A j \in Matches(d, p) : i <= j]

\* shouldClearPath: the cached path is above, at or below the cleared one.
shouldClearPathDescendantsOnly(curPath, p) == p = <<>> \/ IsPrefix(p, curPath)

shouldClearPath(curPath, p) ==
    \/ p = <<>>
    \/ curPath = <<>>
    \/ IF Len(curPath) > Len(p) THEN IsPrefix(p, curPath) ELSE IsPrefix(curPath, p)

-----------------------------------------------------------------------------
Init ==
    /\ alloc = {}
    /\ lru = EmptyList
    /\ parent = [e \in Entries |-> NULL]
    /\ path = [e \in Entries |-> NULL]
    /\ value = [e \in Entries |-> NULL]
    /\ lruEntries = [d \in Docs |-> <<>>]
    /\ numEntries = 0
    /\ numBytes = 0
    /\ config = DefaultConfig
    /\ docs = {}
    /\ clear = NoClear
    /\ crashed = FALSE
    /\ newer = [e \in Entries |-> {}]

\* JSON.SET on a new key, or the loading of a key: a document with no entries.
CreateDoc(d) ==
    /\ Idle
    /\ d \notin docs
    /\ docs' = docs \cup {d}
    /\ UNCHANGED <<cells, lru, lruEntries, counters, config, clear, crashed, newer>>

\* JSON._CACHEINIT changes the limits and leaves the content alone.
JSONCacheInitSwapped(c) ==
    /\ Idle
    /\ config' = [c EXCEPT !.maxEntries = c.maxBytes, !.maxBytes = c.maxEntries]
    /\ UNCHANGED <<cells, lru, lruEntries, counters, docs, clear, crashed, newer>>

JSONCacheInit(c) ==
    /\ Idle
    /\ config' = c
    /\ UNCHANGED <<cells, lru, lruEntries, counters, docs, clear, crashed, newer>>

\* getSerializedJson finds the path: LruCache_GetValue touches the entry.
LruCache_GetValue(d, p) ==
    /\ Idle
    /\ d \in docs
    /\ Cached(d, p)
    /\ lru' = touchEntry(lru, Found(d, p))
    /\ newer' = Used(Found(d, p))
    /\ UNCHANGED <<cells, lruEntries, counters, config, docs, clear, crashed>>

\* getSerializedJson does not find the path and hands the new serialization
\* v to LruCache_AddValue.
MissUnchecked(d, p) == Idle /\ d \in docs

Miss(d, p) == Idle /\ d \in docs /\ ~Cached(d, p)

LimitReachedOffByOne ==
    numEntries > config.maxEntries \/ numBytes >= config.maxBytes

LimitReached == numEntries >= config.maxEntries \/ numBytes >= config.maxBytes

\* Values shorter than minSize are not kept.
AddTooSmall(d, p, v) ==
    /\ Miss(d, p)
    /\ SdsLen[v] < config.minSize
    /\ UNCHANGED vars

\* Below the limits a new entry is allocated.
AddFresh(d, p, v, e) ==
    /\ Miss(d, p)
    /\ SdsLen[v] >= config.minSize
    /\ ~LimitReached
    /\ e \notin alloc
    /\ alloc' = alloc \cup {e}
    /\ parent' = [parent EXCEPT ![e] = d]
    /\ path' = [path EXCEPT ![e] = p]
    /\ value' = [value EXCEPT ![e] = v]
    /\ lruEntries' = [lruEntries EXCEPT ![d] = Cons(e, @)]
    /\ lru' = touchEntry(lru, e)
    /\ newer' = Used(e)
    /\ numEntries' = numEntries + 1
    /\ numBytes' = numBytes + SdsLen[v]
    /\ UNCHANGED <<config, docs, clear, crashed>>

\* At a limit the cell of the oldest entry is taken from its document and
\* reused: purgeEntry(cache, oldest, PURGE_NOFREE) and the rest of AddValue.
AddEvict(d, p, v) ==
    LET e == lru.oldest
        owner == parent[e]
        purged == [lruEntries EXCEPT ![owner] = Unlinked(@, e)]
    IN  /\ Miss(d, p)
        /\ SdsLen[v] >= config.minSize
        /\ LimitReached
        /\ e # NULL
        /\ parent' = [parent EXCEPT ![e] = d]
        /\ path' = [path EXCEPT ![e] = p]
        /\ value' = [value EXCEPT ![e] = v]
        /\ lruEntries' = [purged EXCEPT ![d] = Cons(e, @)]
        /\ lru' = touchEntry(pluckEntry(lru, e), e)
        /\ newer' = Used(e)
        /\ numBytes' = BytesWithout(e) + SdsLen[v]
        /\ UNCHANGED <<alloc, numEntries, config, docs, clear, crashed>>

\* At a limit with no oldest entry, pluckEntry reads through a null pointer.
AddCrash(d, p, v) ==
    /\ Miss(d, p)
    /\ SdsLen[v] >= config.minSize
    /\ LimitReached
    /\ lru.oldest = NULL
    /\ crashed' = TRUE
    /\ UNCHANGED <<cells, lru, lruEntries, counters, config, docs, clear, newer>>

\* maybeClearPathCache, and JSON.SET of a whole document, on a document that
\* has entries: LruCache_ClearValues starts (LruCache_ClearKey when p = <<>>).
ClearBegin(d, p) ==
    /\ Idle
    /\ d \in docs
    /\ lruEntries[d] # <<>>
    /\ clear' = [doc |-> d, path |-> p, pos |-> 1, free |-> FALSE]
    /\ UNCHANGED <<cells, lru, lruEntries, counters, config, docs, crashed, newer>>

\* JSONTypeFree of a document with entries: LruCache_ClearKey starts.
FreeBegin(d) ==
    /\ Idle
    /\ d \in docs
    /\ lruEntries[d] # <<>>
    /\ clear' = [doc |-> d, path |-> <<>>, pos |-> 1, free |-> TRUE]
    /\ UNCHANGED <<cells, lru, lruEntries, counters, config, docs, crashed, newer>>

\* JSONTypeFree of a document without entries.
FreeDoc(d) ==
    /\ Idle
    /\ d \in docs
    /\ lruEntries[d] = <<>>
    /\ docs' = docs \ {d}
    /\ UNCHANGED <<cells, lru, lruEntries, counters, config, clear, crashed, newer>>

\* One iteration of LruCache_ClearValues; ent is the entry it looks at.
ClearList == lruEntries[clear.doc]

ent == ClearList[clear.pos]

Iterating == ~crashed /\ clear # NoClear /\ clear.pos \in DOMAIN ClearList

\* The entry is not affected: go on to the next one.
ClearKeepStays ==
    /\ Iterating
    /\ ~shouldClearPath(path[ent], clear.path)
    /\ UNCHANGED vars

ClearKeep ==
    /\ Iterating
    /\ ~shouldClearPath(path[ent], clear.path)
    /\ clear' = [clear EXCEPT !.pos = @ + 1]
    /\ UNCHANGED <<cells, lru, lruEntries, counters, config, docs, crashed, newer>>

\* purgeEntry(cache, ent, 0): unlink the entry from both lists and free it.
\* Its successor takes its place on the document's list.
ClearPurge ==
    /\ Iterating
    /\ shouldClearPath(path[ent], clear.path)
    /\ alloc' = alloc \ {ent}
    /\ parent' = [parent EXCEPT ![ent] = NULL]
    /\ path' = [path EXCEPT ![ent] = NULL]
    /\ value' = [value EXCEPT ![ent] = NULL]
    /\ lru' = pluckEntry(lru, ent)
    /\ lruEntries' = [lruEntries EXCEPT ![parent[ent]] = Unlinked(@, ent)]
    /\ newer' = Forgotten(ent)
    /\ numEntries' = numEntries - 1
    /\ numBytes' = BytesWithout(ent)
    /\ UNCHANGED <<config, docs, clear, crashed>>

\* The list is exhausted; JSONTypeFree goes on to free the document.
ClearEnd ==
    /\ ~crashed
    /\ clear # NoClear
    /\ clear.pos \notin DOMAIN ClearList
    /\ docs' = IF clear.free THEN docs \ {clear.doc} ELSE docs
    /\ clear' = NoClear
    /\ UNCHANGED <<cells, lru, lruEntries, counters, config, crashed, newer>>

\* The process is started again after a crash, with an empty cache.
Restart ==
    /\ crashed
    /\ alloc' = {}
    /\ lru' = EmptyList
    /\ parent' = [e \in Entries |-> NULL]
    /\ path' = [e \in Entries |-> NULL]
    /\ value' = [e \in Entries |-> NULL]
    /\ lruEntries' = [d \in Docs |-> <<>>]
    /\ numEntries' = 0
    /\ numBytes' = 0
    /\ config' = DefaultConfig
    /\ docs' = {}
    /\ clear' = NoClear
    /\ crashed' = FALSE
    /\ newer' = [e \in Entries |-> {}]

ClearStep == ClearKeep \/ ClearPurge \/ ClearEnd

Next ==
    \/ \E d \in Docs : CreateDoc(d) \/ FreeBegin(d) \/ FreeDoc(d)
    \/ \E c \in Configs : JSONCacheInit(c)
    \/ \E d \in Docs, p \in Paths :
        \/ LruCache_GetValue(d, p)
        \/ ClearBegin(d, p)
        \/ \E v \in Values :
            \/ AddTooSmall(d, p, v)
            \/ AddEvict(d, p, v)
            \/ AddCrash(d, p, v)
            \/ \E e \in Entries : AddFresh(d, p, v, e)
    \/ ClearStep
    \/ Restart

\* A started LruCache_ClearValues runs to its end: nothing preempts it.
Spec == Init /\ [][Next]_vars /\ WF_vars(ClearStep)

-----------------------------------------------------------------------------
(* What makes the cache correct.                                           *)

\* Every variable has its type; a freed cell keeps no field.
TypeOK ==
    /\ alloc \subseteq Entries
    /\ \A e \in Entries \ alloc : parent[e] = NULL /\ path[e] = NULL /\ value[e] = NULL
    /\ lru \in [prev : [Entries -> EntryOrNull], next : [Entries -> EntryOrNull],
                newest : EntryOrNull, oldest : EntryOrNull]
    /\ parent \in [Entries -> Docs \cup {NULL}]
    /\ path \in [Entries -> Paths \cup {NULL}]
    /\ value \in [Entries -> Values \cup {NULL}]
    /\ lruEntries \in [Docs -> Seq(Entries)]
    /\ numEntries \in Int
    /\ numBytes \in Int
    /\ config \in Configs
    /\ docs \subseteq Docs
    /\ clear \in ClearRecord \cup {NoClear}
    /\ crashed \in BOOLEAN
    /\ newer \in [Entries -> SUBSET Entries]

\* The parts of RecencyListSound, for a list l over the live entries live.
NoDanglingPointer(l, live) ==
    /\ l.newest \in live \cup {NULL}
    /\ l.oldest \in live \cup {NULL}
    /\ \A e \in live : l.prev[e] \in live \cup {NULL} /\ l.next[e] \in live \cup {NULL}
    /\ \A e \in Entries \ live : l.prev[e] = NULL /\ l.next[e] = NULL

LinksPaired(l) ==
    \A e, f \in Entries : l.next[e] = f <=> l.prev[f] = e

NewestIsHead(l) == l.newest # NULL => l.prev[l.newest] = NULL

HistoryOrdered(nw, live) ==
    /\ \A e \in live : nw[e] \subseteq live \ {e}
    /\ \A e \in Entries \ live : nw[e] = {}
    /\ \A e, f, g \in live : f \in nw[e] /\ g \in nw[f] => g \in nw[e]

LinksFollowHistory(l, nw) ==
    \A e, f \in Entries : l.next[e] = f => e \in nw[f]

\* pluckEntry and touchEntry leave a sound list however hits, fills, evictions,
\* clears and frees follow each other: no pointer into a freed entry, the two
\* directions agree, newest has nothing before it, and lru_next only leads to
\* entries used longer ago.  So no entry is its own neighbour, which pluckEntry
\* asserts, and the list has no cycle.
RecencyListSound ==
    /\ NoDanglingPointer(lru, alloc)
    /\ LinksPaired(lru)
    /\ NewestIsHead(lru)
    /\ HistoryOrdered(newer, alloc)
    /\ LinksFollowHistory(lru, newer)

\* Every live entry is on the list of its parent, that document is allocated,
\* no entry is on two lists or twice on one, and no list holds a freed entry:
\* what assert(found) of purgeEntry and the loop of ClearValues rely on.
EntriesOwned ==
    /\ \A e \in alloc : parent[e] \in docs /\ e \in Range(lruEntries[parent[e]])
    /\ \A d \in Docs : IsInjective(lruEntries[d])
    /\ \A d \in Docs : \A e \in Range(lruEntries[d]) : e \in alloc /\ parent[e] = d
    /\ \A e \in alloc : path[e] # NULL /\ value[e] # NULL

EntriesCounted == numEntries = Cardinality(alloc)

\* numEntries and numBytes, which decide when to evict and which
\* JSON._CACHEINFO reports, are the count and the size of the live entries.
CountersExact ==
    /\ EntriesCounted
    /\ numBytes = MapThenSumSet(LAMBDA e : SdsLen[value[e]], alloc)

\* LruCache_AddValue takes the cache beyond maxEntries in no step; it can only
\* be above that limit after JSON._CACHEINIT lowered it.
GrowthBounded == [][numEntries' > numEntries => numEntries' <= config.maxEntries]_vars

\* A document holds at most one entry for a path: AddValue assumes "that the
\* value for the current path does not yet exist".
OneEntryPerPath ==
    \A e, f \in alloc : parent[e] = parent[f] /\ path[e] = path[f] => e = f

\* LruCache_ClearValues reaches the end of the list it is walking, although
\* it takes entries out of that list on the way.
ClearTerminates == (clear # NoClear) ~> (clear = NoClear)

\* AddValue inserts; it has an entry to evict whenever it needs one.
NeverCrashes == ~crashed

-----------------------------------------------------------------------------
(* The cache as an abstract map from paths to values.                      *)

\* An entry is gone for the abstract cache as soon as the clearing that will
\* reach it has started.
ToBePurged(e) ==
    /\ clear # NoClear
    /\ parent[e] = clear.doc
    /\ shouldClearPath(path[e], clear.path)

contentBar == {<<parent[e], path[e], value[e]>> : e \in {x \in alloc : ~ToBePurged(x)}}

docsBar == IF clear # NoClear /\ clear.free THEN docs \ {clear.doc} ELSE docs

Abstract == INSTANCE PathCache WITH content <- contentBar, docs <- docsBar

\* The linked lists, their counters and the clearing loop implement the map.
ImplementsPathCache == Abstract!Spec
=============================================================================
