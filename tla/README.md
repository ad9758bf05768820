# A verification development for valkey-json

valkey-json is a server module: it adds a JSON value type and the `JSON.*`
commands to Valkey. This directory holds TLA+ models of its own code
(`src/src/*.c`), the TLC configurations that check them on small instances,
and proofs about the cache, arrays, dictionaries, paths, commands and about
documents written and read back, that TLAPS checks for every instance. Paths
below are relative to the repository; `cache.c` alone means `src/cache.c`.

    tlc -config LruCache.cfg MCLruCache     # one run
    tlapm LruCacheProofs.tla                # the proofs of one module

## The system

The server calls the module in one thread, one command at a time. Nothing in
the module runs concurrently; what is hard here is state that lives across
commands (the cache, the tree of a document), conversions between several
representations of the same thing (a path string, its tokens, the node it
leads to, the text cached for it), and commands that stop half way.

| Part | State | Operations | Used by | What makes it correct |
|---|---|---|---|---|
| LRU cache of serialized values, `cache.c` | the recency list, the entries of each document, the counters and limits | `LruCache_GetValue`, `AddValue`, `ClearValues`, `ClearKey`, `JSON._CACHEINIT` | `JSON.GET`, every writing command, the freeing of a key | the lists are sound and lead to live entries only, the counters are exact, the limits hold, the least recent entry goes first, a clear drops what it affects and nothing else |
| Path tokenizer, `json_path.c` | token and state of one pass | `ParseJSONPath` | every command with a path | each documented notation means its keys and indexes; the normalized string names the same value |
| Search path, `path.c` | array of path nodes | append, `SearchPath_FindEx` | `NodeFromJSONPath` | nodes fit the array; node, parent, error and level are those of the path |
| Object tree, `object.c` | nodes, arrays and dictionaries | set, insert, delete, get, traverse | all commands, parser, loader | keys are unique, an operation touches only what it names, indexes stay inside |
| Commands, `valkeyjson.c` | none of their own | `JSON.SET`, `DEL`, `GET`, ... | clients | replies tell the document, errors change nothing, what changes is replicated and leaves no stale text |
| Numbers, in `valkeyjson.c` | none | `JSON.NUMINCRBY`, `NUMMULTBY` | clients | exact while doubles are; an integer only if an int64 holds it |
| Traversal, `Node_Serializer` in `object.c` | a stack of nodes and one of positions | its visitors write JSON, RDB and RESP | commands, the server | every node is visited once, in order, and the loop ends |
| Serializer and parser, `json_object.c` | the node stack of a parse, and a context that all texts share | `SerializeNodeToJSON`, `CreateNodeFromJSON` | commands, AOF | reading what was written gives the document back; a text is read as what it says |
| Persistence, `json_type.c`, `object_type.c` | the stacks of a load | RDB save and load, AOF rewrite, free | the server | a restart brings the same documents back |

How they interact: a command opens its key, resolves its path
(`NodeFromJSONPath`: tokenizer, then `SearchPath_FindEx` in the tree), works on
the node found or on its parent, clears the cache for the path
(`maybeClearPathCache`), replies, and hands itself to the replicas
(`ReplicateVerbatim`). `JSON.GET` goes through `getSerializedJson`, which reads
and fills the cache. The server calls `JSONTypeFree` back when a key is
deleted, overwritten or expires; that clears the entries of the document. The
server and its replicas are not in this repository: their part (`DEL`, `SET`
over a JSON key, a replica executing the stream) is modelled from what the code
relies on.

## The modules

| Module | Models | Composes |
|---|---|---|
| `LruCache` | `cache.c` pointer by pointer, with `getSerializedJson`, `maybeClearPathCache` and `JSONTypeFree` as its callers | |
| `PathCache` | what a caller may assume of the cache: a map from document and path to a value | implemented by `LruCache` |
| `LruCacheProofs` | proofs about `LruCache`, and that it implements `PathCache` | extends it |
| `JsonPath` | `json_path.c` and the building of the search path | |
| `TokenizerProofs` | lemmas about what the tokenizer makes of any string | extends `JsonPath` |
| `JsonPathProofs` | proofs about the paths that `MCJsonPath` reads | extends it and `TokenizerProofs` |
| `NodeTree` | `object.c` and `SearchPath_FindEx`, as operators on records | |
| `NodeArray`, `NodeDict` | `object.c` again: the buffers of an array and of a dictionary, with their capacities and the children they own | |
| `Containers` | what those buffers must do for the operators of `NodeTree` to be right | `NodeArray`, `NodeDict`, `NodeTree` |
| `ContainersProofs` | proofs about the three | extends them |
| `Tokens` | what readers and writers exchange: tokens of a text, items of a stream or reply | `NodeTree` |
| `Serializer` | `Node_Serializer` and its visitors for RDB, RESP and JSON | `Tokens` |
| `RdbLoader` | `JSONTypeRdbLoad`, `ObjectTypeRdbLoad` | `Tokens` |
| `JsonParser` | `CreateNodeFromJSON`, its callbacks, and the lexer of jsonsl | `Tokens` |
| `Meanings` | what a node adds to what its children are written as, for each of the three outputs | `Tokens` |
| `JsonText` | the three outputs of a document, by recursion over it | `Meanings` |
| `Documents` | a server that writes documents and reads them back, and reads the texts of clients | `Serializer`, `RdbLoader`, `JsonParser`, `Meanings` |
| `JsonParserProofs`, `DocumentsProofs` | lemmas about the two stacks of a parse; proofs about `Documents` | extend `JsonParser`, `Documents` |
| `Numbers` | int64 and double arithmetic of scaled-down widths | |
| `JsonStore` | the commands over a keyspace, with the cache, the replicas, the append-only file and `JSON.GET` of several paths | `JsonPath`, `Tokens`, `Numbers`, and the cache as `PathCache` states it |
| `JsonStoreProofs` | proofs about the commands, their documents, cache and replicas | extends it and `TokenizerProofs` |
| `Folding` | facts about folds of any operator, which those proofs instantiate | |
| `MCLruCache`, `MCJsonPath`, `MCJsonStore`, `MCDocuments` | instances for TLC | |

**LruCache.** Entries are memory cells (`alloc` is the set of live ones); the
links of the global recency list are functions on cells (`lru.prev`,
`lru.next`), with `newest` and `oldest`; the singly linked list of a document
is a sequence (`lruEntries[d]`). `pluckEntry` and `touchEntry` are the two
functions of the same names. A hit, an insertion below the limits, an
insertion that reuses the oldest cell and one that finds no oldest cell are an
action each. `LruCache_ClearValues` is one step per iteration, because it reads
the successor of an entry and then takes the entry out of the list; while it
runs no command does. `newer` is a history variable: which entries have been
used since an entry was last used. The source keeps the counters in `size_t`;
they are integers here, and `CountersExact` shows that they never go below
zero. `strncmp` on paths is comparison of sequences of characters.
The crash of a null pointer sets `crashed`, after which the process restarts
with an empty cache.

**JsonPath.** One step of the automaton per character. `IntBits` is the width
of the C type `int` an index is stored in, `CapLimit` the number (1024 in the
source) at which the capacity stops doubling. A node behind it is written behind
the array; `NodesFitCapacity` says that this happens just for paths of more than
`CapLimit` nodes, and nothing else is claimed of those: the other properties of
paths leave them out, and `JsonStore` assumes that no request has one
(`PathsAssumption`).

**NodeTree.** A node is a record with all the fields of the union. `NULL` is the
node of type null. Arrays are sequences; their buffers are in `NodeArray`. A
change deep in a document is the document rebuilt along the
trail of nodes passed (`Replaced`).

**JsonStore.** What a command does to the document of its key is an operator
from document, resolved path and request to an outcome (the new document, what
happens to the cache, whether the command is replicated, the replies, whether
it ran into undefined behaviour). A command action commits the outcome to
`db`, `cache`, `log` and `last` in one step, as the server does; a replica
evaluates the same operator on its own copy. `JSON.GET` of one path is one
step; of several it is `MultiBegin`, a `MultiStep` per path and `MultiEnd`,
because a value cached for one path is read for the next. The cache is the map
of `PathCache`: a fill may push out any one entry, or not be kept.
`Parsed` holds each path of the instance parsed once. What a document is written
as and read back as are parameters (`TextOf`, `RespReplyOf`, `ReadBackOf`), for
which the configurations give the recursive definitions of `JsonText`; so the
module itself needs no recursion, and its theorems hold for every way to write a
document. `Level` is the set of nodes a number of steps below the root, and
`MaxDepth` the number of levels that `DocumentsWellFormed` looks at. `BGREWRITEAOF` writes each
document as one `JSON.SET` of its text at the root, behind which the commands of
the log follow; `AofReplays` says what a restart makes of that.

**Serializer, RdbLoader.** The source writes both as a loop over a switch on a
state, to need no recursion: one action per state (`S_INIT`, `S_BEGIN_VALUE`,
...). The traversal keeps the stack of nodes and that of positions, the loader
the containers it fills and the number of children each still lacks. A visitor
is a record of its kind and of the strings of the formatting options; what it
writes is a sequence of tokens or items, `ser.out`. `SerializedRight` compares it
with `WrittenAs`, `SavedAs` and `RespReplyOf`, of which `MeaningsAssumption` says that
each gives a document from what it gives its entries, as `TextFrom`, `RdbFrom` and
`RespFrom` of `Meanings` do it. They are parameters of `Documents` for the same
reason as in `JsonStore`: the configurations give the recursive `Serialize`, `RdbOf`
and `RespOf` of `JsonText`, and TLC evaluates the assumption for the documents of
the run; the module itself needs no recursion.

**JsonParser.** One step per token: the push-down automaton of `jsonsl_feed` and,
within the same step, the callbacks it makes, `pushCallback`, `popCallback` and
`errorCallback`, which keep the stack of nodes. That stack has `Levels` slots, one
per level of the lexer, and `_pushNode` does not look: a node behind the last one
ends the parse with the outcome `"undefined"`. A number or literal name is one
token and ends, as in the lexer, with the token after it. What survives
`resetJSONObjectCtx` is the field `escapes`: of every slot of the lexer's stack,
whether its count `nescapes` is not zero. jsonsl itself is third-party code; its
lexer is modelled because the callbacks run inside it.

**Documents.** A behaviour starts a command (save, reply, write, or a client's
text), runs it token by token to its end, reads back what was written, and
returns to the start.

**NodeArray, NodeDict.** A buffer is a function from slot numbers, read and
written as the source does with `realloc`, `memmove` and `memcpy`; a slot behind
the length keeps what was last in it, and a write outside the buffer sets
`overrun`. `live` is the set of children allocated. `Containers` reads a buffer as
the sequence or the map that `NodeTree` computes with and states, as action
properties, that each operation on the one is the operation on the other.

## What TLC checks

| Run | Bounds | Properties |
|---|---|---|
| `lru_cache` | 3 cells, 2 documents, 3 paths (`f`, `f.x`, `b`), values of 1 and 3 bytes, two settings | `TypeOK`, `RecencyListSound`, `EntriesOwned`, `CountersExact`, `OneEntryPerPath`, `GrowthBounded` |
| `lru_refines` | 2 cells, 2 documents, 4 paths with the root, one setting | `ImplementsPathCache`, `ClearTerminates` |
| `paths` | all strings of up to 6 of 8 characters; all mixtures of notations of up to 5 nodes, `CapLimit = 4` | `CachePathFaithful`, `SpellingsUnderstood`, `NodesFitCapacity` |
| `store_dicts` | two keys, objects, strings of one character; a replica one command behind | `DocumentsWellFormed`, `CacheCoherent`, `ReplicaConverges`, `ErrorsChangeNothing`, `OthersUntouched` |
| `store_arrays` | an array of up to 2 elements, 4-bit integers, doubles of 2 significant bits up to 8; and another of up to 3 elements, strings of up to 2 characters | `NeverCrashes`, `CacheCoherent`, `ErrorsChangeNothing`, `SmallArithmeticExact`, `AofReplays` |
| `documents` | documents of up to three levels, three formats; client texts of up to 7 tokens of an alphabet of 10, 7 levels in the lexer | `SerializedRight`, `RdbRoundTrip`, `TextReadBack`, `StacksParallel`, `ParsedFaithfully`, `CommandsEnd` |
| the same | arrays of up to 4 of 5 children, inserted and deleted up to 2 at a time at indexes from -5 to 5, chunks of 2; dictionaries of up to 3 of 3 keys with 4 values, capacities from 0 | `OwnedOnce`, `WithinCapacity`, `ArrayIsSequence`, `DictSound`, `DictIsMap` |

Why the bounds are enough for what they are for:

* Three entries are the fewest with a first, a middle and a last one, and with
  an entry between `oldest` and `newest` when either moves; two documents are
  the fewest between which a cell can be reused. The settings reach each limit:
  one by number (2 of 3 cells), one by bytes, and one has a minimum size.
  `f`, `f.x` and `b` are a path, one below it, and one apart; `lru_refines`
  adds the root. Entries and documents are interchangeable, so `lru_cache` uses
  symmetry; `lru_refines` checks a liveness property and does not.
* Six characters reach every transition of the tokenizer, those between two
  nodes included; five nodes exceed the capacities 1 and 2, reach the limit where
  doubling stops (`CapLimit = 4`) and go beyond it.
* The workloads of `JsonStore` are sets of requests (`MCJsonStore`), each with
  the commands that concern one kind of value. Paths of one to three nodes,
  indexes at 0, at either end and beyond, and conditions that hold and do not.
  `MaxLen` bounds arrays and strings, `MaxLag` the stream not yet replicated.
  `store_arrays` has three documents that a `JSON.SET` at the root exchanges for
  each other, so that their state spaces add: one under the commands that clear
  the cache, which is read through it; one under the commands that leave the cache
  as it is or shift elements, which is not; and one of a number, which a
  `JSON.GET` of several paths reads, since a text it caches would be wrong
  (`store_multi_wrong`). An index of -7 is before the beginning of an array of three
  even after the length was added twice, once by `JSON.ARRPOP` and once by
  `Node_ArrayDelRange`: clamping it in between is what `NeverCrashes` is about.
  `JSON.ARRINSERT` cannot step outside by its index, which `Node_ArrayInsert` clamps
  again; that this is enough is `ArrayIsSequence` and `WithinCapacity`.
* `documents` is three systems that share no state; which one a behaviour is about
  is chosen at its start (`kind`), so that their state spaces add instead of
  multiplying. Its documents have empty containers first, between, last and
  within each other, which is where a stack of positions or of counts could go
  wrong. Seven tokens reach every state of the lexer, nested containers and the
  ends of all kinds of values, but no object with the same key twice: the shortest
  such text has eleven tokens. Seven levels are the slots that the
  stack of nodes needs for the deepest documents, an object in an object in an object;
  the lexer alone would do with five, and with six the last value is written behind
  the stack (`parse_deep`). The texts of clients reach the limit of levels by
  opening arrays, and the end of the stack by opening objects. `InStrings` are the tokens tried
  within a string, `Alphabet` those outside.
* `CHUNK_SIZE = 2`, `MaxGrowth = 1` and capacities from 0 reach every way in
  which a buffer grows (first allocation, doubling, rounding to a chunk; by one,
  by doubling, by the largest step) within four elements. The allocator takes the
  least free address (`LeastFree`): which one it takes makes no difference but to
  the number of states.
* Widths are scaled: 4-bit integers against 2-bit significands keep the order
  of the real ones (64 against 53): most integers of the wider type have no
  double, and the largest one rounds up to a power of two.

Fairness. `LruCache` assumes weak fairness of the clearing loop, and `JsonStore`
of the loop over the paths of a `JSON.GET`: each is a plain C loop in the
server's only thread, which nothing preempts or blocks. `MCDocuments` assumes it
of `ServeStep`, the steps of a command that has begun: the loops over the
states of the traversal and of the loader, and over the characters of a text. No
command, and no replica, is assumed ever to run. Of `JsonStore` only safety is
checked: the loop over the paths of a `JSON.GET` counts to their number and ends by
its form.

Every property above is broken by at least one listed mutant of the code, kept
beside the operator it changes (for instance `pluckEntryKeepsBackLink`,
`JSONArrInsertAsParsed`).

### Where the code and its documentation part

Each of these runs checks one statement of the source or its documents, and TLC
finds it violated.

| Run | Statement | What happens |
|---|---|---|
| `lru_crash` | `cache.h`: `AddValue` "will insert" | purging the oldest entry leaves `oldest` empty while others are live; the next insertion at a limit goes through a null pointer |
| `store_pop_stale` | "Return the value at `path`" | `JSON.ARRPOP` does not clear the cache, `JSON.GET` shows the popped element |
| `store_multi_wrong` | the same | `JSON.GET` of several paths caches the reply so far as the value of a path |
| `store_big_number` | an integer "providing an int64 can hold it" | `(double)INT64_MAX` is 2^63, which passes the test and does not fit |
| `parse_stale` | `README.md`: "Full support of the JSON standard" | the number `1e999` is refused and leaves its count of escapes in a slot of the lexer, and the next text `""` is refused for it; `TextReadBack` holds in the run `documents`, where every text finds a fresh context (`Reused = FALSE`) |
| `parse_deep` | the same, and `json_object.h`: a context has "the maximum number of levels" | the stack of nodes has one slot per level of the lexer, but an object of which a member is being read takes two, and `_pushNode` writes without a look at the size: objects nested beyond half of the levels, which the lexer takes, are written behind it; with the 512 levels of the server, 256 objects in one another with a member in the last |

Read in the code while modelling, and without a run of their own; the model has
what the code does, or, for writes outside of memory, that nothing is known of
what follows. The workloads of the passing runs keep clear of them where they
would break the property checked, or the property says that it leaves them out:

* `pluckEntry` moves `oldest` to the neighbour on the side of older entries, where
  there is none: `oldest` is left empty (`lru_crash` shows where that leads) or, if
  the entry is touched, becomes the entry just used, which is then evicted first;
* `foo` and `["foo"]` are different paths to the cache: a change made by one leaves
  the text cached for the other;
* one value is evicted for one added whatever their sizes, so `numBytes` can
  exceed `maxBytes` ("Maximum number of bytes allowed in the LRU");
* `JSON.STRAPPEND` does not clear the cache either, and for a value that is no
  string it replies with an error and then appends bytes of the union all the
  same, a null value being a null pointer;
* deleting, inserting or popping in an array shifts the followers, whose texts
  stay cached under the old indexes;
* the array of path nodes grows to 1024 nodes and no further
  (`MIN(p->cap * 2, 1024)`, `path.c:100`), while `__searchPath_append` goes on: the
  1025th node of a path is written behind it. `NodesFitCapacity` states where this
  begins, for the scaled limit;
* `JSON.DEL key` without a path deletes the document and replies 0 (`argc - 2`);
* the empty path resolves to the root but is not "the root path": replacing the
  value there goes on to a parent that does not exist;
* a path that starts with a bracket cannot be prefixed by the root dot, and a
  quoted key may be anything, although `docs/path.md` says otherwise;
* `JSON.GET key` without a path is never served from the cache, since
  `spacestr` stays `NULL`; formatting given as arguments is not either;
* `foo[0]bar` is accepted as a path, as `foo[0].bar` is;
* a path given twice in one `JSON.GET` is a member twice in the reply, but once if
  a formatting option is given;
* `JSON.OBJKEYS` replies to an empty object with an empty array and
  `JSON.ARRLEN`, `OBJLEN` and `STRLEN` to a missing path with an error, where
  `docs/commands.md` says null; `JSON.ARRTRIM` counts a negative start from the end,
  where it says that the start is treated as 0;
* the lexer does not check that a string follows a comma: `["a""b"]`, `[[] "a"]` and
  `[1 "a"]` are accepted; `ParsedFaithfully` is about texts whose commas are
  standard (`StandardCommas`);
* commas outside all containers are accepted: `1,2` is read as 1, `[1],[2]` as
  `[1,[2]]`, `],[` as `[]`, because the text is wrapped in an array and the value
  taken out of it; a second value after an object is set into the first one,
  whatever its kind, so `StacksParallel` is about texts with one value;
* a whole double below 10^17 is printed like an integer, so it becomes one when
  the append-only file is read (`Reread`).

## What is proved

Eight theorem modules, for every value of the constants:

| Module | Theorem | Statement |
|---|---|---|
| `LruCacheProofs` | `TypeCorrect`, `RecencyListAlwaysSound`, `EntriesAlwaysOwned`, `OneEntryAlways`, `CountersAlwaysExact` | `Spec => []` of `TypeOK`, `RecencyListSound`, `EntriesOwned`, `OneEntryPerPath`, `CountersExact` |
| | `EntriesAlwaysCounted` | `Spec => []EntriesCounted`, the first half of `CountersExact` |
| | `GrowthAlwaysBounded` | `Spec => GrowthBounded` |
| | `CacheImplementsMap` | `Spec => ImplementsPathCache` |
| `ContainersProofs` | `ArrayTypeCorrect`, `ArrayAlwaysOwnsOnce`, `ArrayAlwaysWithinCapacity` | `ArraySpec => []` of `ArrayTypeOK`, `OwnedOnce`, `WithinCapacity` |
| | `DictAlwaysSound` | `DictSpec => []DictSound` |
| | `ArrayAlwaysSequence`, `DictAlwaysMap` | `ArraySpec => ArrayIsSequence`, `DictSpec => DictIsMap` |
| `JsonPathProofs` | `NodesAlwaysFit`, `CachePathAlwaysFaithful`, `SpellingsAlwaysUnderstood` | `Spec => []` of `NodesFitCapacity`, `CachePathFaithful`, `SpellingsUnderstood`, for strings of any length; the last two for paths of up to `CapLimit` nodes |
| `JsonStoreProofs` | `ErrorsAlwaysChangeNothing` | `Spec => ErrorsChangeNothing` |
| | `ReplicaAlwaysConverges` | `Spec => []ReplicaConverges` |
| | `DocumentsAlwaysWellFormed` | `Spec => []DocumentsWellFormed` |
| | `NeverAnyCrash` | `Spec => []NeverCrashes` |
| | `OthersAlwaysUntouched` | `Spec => OthersUntouched` |
| | `CacheAlwaysCoherent` | `Spec => []CacheCoherent` |
| `DocumentsProofs` | `StacksAlwaysParallel`, `SerializedAlwaysRight`, `RdbAlwaysRoundTrips` | `DocSpec => []` of `StacksParallel`, `SerializedRight`, `RdbRoundTrip`, for documents and texts of any size; the first until a node is written behind the stack |
| | `TextAlwaysReadBack` | `DocSpec => []TextReadBack`, for documents of any width, of depth below half of the levels |

`Folding`, `TokenizerProofs` and `JsonParserProofs` hold no result of their own:
they say what a fold computes, step by step, what the tokenizer does with a
character, and, of a parse, what a token does to its two stacks from any state and
what the tokens that the serializer writes do to the whole of its state.

The assumptions are those that the modules declare of their constants. Of
`LruCache`: paths are sequences, values have a length in `Nat`, settings are
records of naturals, `NULL` is no cell, document, path or value, `NoClear` is no
record of a running clearing, and there are finitely many cells. Of `NodeArray`
(`ArrayAssumption`): the slot content before a write is no child, the chunk is
positive, and for every length up to the bound there is a power of two not below
it. Of `NodeDict` (`DictAssumption`): the largest step of the capacity is
positive, initial capacities are naturals, and an unwritten slot is no entry.
Of `JsonPath`: letters are neither digits nor marks of a path; of the strings read
(`AlphabetAssumption`): their characters are strings; and of the written paths: a name is not empty and consists of letters, `$`, `_` and digits, a digit
not first; a number is digits, perhaps with a minus sign, and its value is their
`Decimal` value as an `int`. Of `JsonStore`:
requests have the arguments that the server's check of the arity and the key
specification of the command guarantee (`SET` and `DEL` name no path), and the
bounds are naturals; no path of a request has more nodes than `CapLimit`
(`PathsAssumption`). Of `JsonParser` (`ParserAssumption`): white space,
brackets and the other structural characters are no literal names and no numbers. Of `Documents` (`DocumentsAssumption`, `FormatsAssumption`,
`MeaningsAssumption`): a node of a document is what the constructors of `object.c`
make, a dictionary with each key once; the children of a document are documents
of lesser depth, none deeper than some number; and the meanings are those of
`Meanings`. What is read back (`ReadBackAssumption`) is what `Meanings` makes of
what is read back of the children; the literal name or number written of a scalar
is one that `strtoll` and `strtod`, which are parameters, read as that scalar; and
the characters of strings and keys are characters, not quotes and escapes as they
stand in a text. TLC evaluates each of them in the run `documents`.

The theorems about the commands have hypotheses about the requests as well, and
the one about texts read back has some about the parser. Each is there because the code is wrong without it, or does something else on purpose:

| Hypothesis | Of | Without it |
|---|---|---|
| `StringsAppended`: the value given to `JSON.STRAPPEND` is a string or not JSON | `ErrorsAlwaysChangeNothing` | the command replies with an error and then appends all the same |
| `RequestsOf({"BGREWRITEAOF"}) = {}` | `ReplicaAlwaysConverges` | a file rewritten with a whole double in it is read back with an integer; what then holds is `AofReplays` |
| `ArgumentsAreTrees`: what the parser makes of an argument is a set of well-formed nodes | `DocumentsAlwaysWellFormed`, `NeverAnyCrash`, `OthersAlwaysUntouched`, `CacheAlwaysCoherent` | it is the parser's promise (`ParsedFaithfully`); TLC evaluates it for each workload (`ArgumentsAssumption`) |
| `NoEmptyPath` | `NeverAnyCrash` | the empty path leads to the root without being the root path, and replacing the value there goes on to a parent that does not exist |
| `NoNullAppended` | `NeverAnyCrash` | the bytes of a null value are appended through a null pointer |
| `SinglePathsCached`: a `JSON.GET` that uses the cache names one path | `CacheAlwaysCoherent` | the text of a second path is cached together with what was written before it (`store_multi_wrong`) |
| `ClearingCommands`: no `JSON.ARRPOP` and no `JSON.STRAPPEND` | `CacheAlwaysCoherent` | they change a value and clear nothing (`store_pop_stale`) |
| `PathsKnownApart`: a changed path and a cached one are above or below each other as strings, or part at two keys | `CacheAlwaysCoherent` | deleting `a[0]` leaves the text of `a[1]`, now another value, in the cache; a change at `["a"]` leaves that of `a` |
| `~Reused`: each text finds a fresh parser context | `TextAlwaysReadBack` | a number refused leaves its mark in a slot of the lexer, and a text read later is refused for it (`parse_stale`) |
| `Spaced`: the strings for indentation, newlines and spaces are whitespace | `TextAlwaysReadBack` | `JSON.GET` takes any string for them, and writes a text that is no JSON |
| `Roomy`: twice the depth of documents, and one more, is within the levels, of which there are at least three | `TextAlwaysReadBack` | nested objects are written behind the stack of nodes (`parse_deep`); the server has 512 levels (`JSONSL_MAX_LEVELS`), so the theorem is about documents up to depth 255 |

**The cache.** The inductive invariant is

    IInv == TypeOK /\ RecencyListSound /\ EntriesOwned /\ OneEntryPerPath /\ ClearSound

None of the parts is inductive alone. `RecencyListSound` speaks of live entries,
and which entry is evicted, purged or touched is live only by `EntriesOwned` and
by `oldest` pointing to a live cell; `OneEntryPerPath` needs `EntriesOwned`,
because a missed lookup says something of the list of a document only;
`EntriesOwned` needs `ClearSound`, which says that the document being cleared is
allocated and that one being freed keeps no entry (its loop clears the root and
never leaves the head of the list). `RecencyListSound` contains its own
strengthening: the order of last uses (`newer`) is transitive and irreflexive
and `lru_next` follows it, so no sequence of relinking can make a cycle.

The argument is in three layers: `PluckSound` and `TouchSound` about the two
list operations for any sound list; `UnlinkedList` and `ConsList` about the list
of a document; then one lemma per action, `InsertedEntry` being shared by the
two ways of adding. `NextIInv` puts them together.

**The cache implements the map.** The mapping (`contentBar`, `docsBar`) lets an
entry go as soon as the clearing that will reach it has begun, so `ClearBegin` is
`Invalidate`, `FreeBegin` is `Free`, and the steps of the loop change nothing. Two
of them need more than `IInv`: at its end the loop must have purged all it had to.
`RInv` adds `ClearProgress`, that no entry before the loop's position is affected;
a purge keeps it because taking an entry out leaves those before it in place
(`UnlinkedBefore`). `AffectedPath` shows that the bounded comparison of
`shouldClearPath` finds exactly the paths above, at or below the changed one.
`FillMaps` is shared by the two ways of adding: what a reused cell held is the one
victim of the abstract fill, by `OneEntryPerPath`.

**Arrays and dictionaries.** `ArrayIInv` and `DictIInv` join the types to
`OwnedOnce` and `WithinCapacity`, and to `DictSound`: that a slot written is within
the buffer follows from the capacity computed before it (`CapForAbove`), that no
child is lost or kept twice from where each slot's content goes. `ContainersProofs`
lifts this to sequences: `GapFilled` describes a buffer in which a gap was opened
and filled, and `SplicedBuffer` and `CutBuffer` show that reading it as a sequence
gives the sequence spliced or cut, element by element. For the dictionary,
`FoundAmongKeys` relates `__obj_find` on the buffer to the search among the keys,
and `InsertIsMap`, `ReplaceIsMap` and `DeleteIsMap` treat keys and values as two
sequences that are extended, updated and shortened alike.

**The counters.** `CountersAlwaysExact` needs no stronger invariant than `IInv`,
but an induction over the set of live entries: `numBytes` is their sum. The
provers take no induction theorem with an operator parameter; `Folding` is
therefore a module with an operator constant, whose lemmas are proved for any
`op` and cited through `INSTANCE Folding WITH op <- ...`. It derives, from the
library's definition of a fold by `CHOOSE`, that it exists, that it is unique,
that for an operator that commutes any element may be folded last
(`FoldsAnyOrder`), and for sequences the values it goes through
(`FoldLeftTrace`), its last step (`FoldLeftAppend`) and its first one
(`FoldLeftHead`).

**Paths.** The tokenizer is a fold of `ReadAt` over the places of the string.
`NodesAlwaysFit` follows from the invariant that each state of the fold with no
more nodes than the limit has room for them (`Fits`), and that no capacity is
beyond the limit. `CachePathAlwaysFaithful` compares two such folds, of the string with its leading
dot and of the string without it: `hasLeadingDot` can only be raised by a dot that
is the first character (`DotIsFirst`); the name that must follow it may begin a
path as well (`StepSameAtStart`); from then on the two are in the same state but
for that flag and the capacity (`Same`), and every step keeps them so
(`StepSame`), or the longer string is refused.

`SpellingsAlwaysUnderstood` is about strings that grow, while the tokenizer looks
at the character behind a quote and at the end of the string. `Course(z, n, s)`
says that the first `n` characters of `z` lead to the state `s` whatever follows
them, but for a token that ends with the string; `Holding` gives what that state
keeps. One lemma per kind of character (`TakeOne`, `GoOne`, `EndOne`, `EndQuote`)
extends it, `TakeAll` takes it through a name or number of any length, and one
lemma per notation (`DottedMeant`, `QuotedMeant`, `IndexMeant`) shows that the
string with one more part means one more node. The invariant, `Meant`, leaves open
whether the last name has ended, since a dotted name goes on until something else
follows. `DigitsRead` relates the number that the loop computes, which passes over
the minus sign, to the decimal value of the digits.

**Commands.** Every lookup is a fold of `FindStep`; `Finds` says what it leaves:
a trail of nodes, each the child of the one before it that the path names
(`Trail`), and at its end a node or the error met there. On that rest, one lemma
per command, three facts about its outcome: if a reply is an error, nothing
changed and nothing is replicated (`Lawful`); if it is not replicated, nothing
changed (`Replicated`); if the document was a tree it is a tree, and no step left
an array or went on to a parent that does not exist (`SetSound` ... `TrimSound`).
`Steps` reduces the next-state relation to a command that writes, one that does
not, a rewrite of the file, and a step of the replica.

`ReplicaConverges` is inductive once joined to what the stream holds:

    Converging == Documents(db) /\ Stream /\ db = Replayed

A command appended to the stream is the last step of the fold `Replayed`, a
command run by the replica its first, and neither changes the value of the rest.

For documents of any depth, `WellFormed` of every level cannot be carried through
a step level by level: a value is moved by a command from one level to another.
The invariant speaks instead of a set of nodes closed under children:

    Grounded == Documents(db) /\ \E S : Stock(S) /\ \A k \in Keys : db[k].root \in S

`Stock(S)` says that `S` holds well-formed nodes only, their children, and the
arguments of all requests. A command leaves a document whose nodes are in a
larger stock (`Grown`): it may insert a node of the stock in an array or
dictionary, and what rebuilds the document along the trail are nodes with the
same keys and one other child (`ReplacedTree`). `LevelInside` then finds every
level of a document in the stock. The rules on keys are where the work is:
`KeyDeleted` shows that the entry moved into the hole keeps its key, and
`FirstPosition` that a key appended was not there.

`OthersUntouched` compares two searches in one document, and one search in the
document before and after the command. Two paths that part at two keys pass
through the same nodes until they part, and there the command has changed
one key of an object, the one its own path names. `LookupApart` says that every
other key leads to the same child as before (`Alike`), whether the entry was replaced, one
was appended or the last one was moved into the hole; `EditApart` carries this back
along the trail to the root, where what was rebuilt has the same keys and one other
child. `WriteApart` has one case per command: each edits the node its path leads
to, or its parent in one key or element.

`CacheCoherent` is inductive only when it remembers where a text comes from:

    Cached == multi = Idle /\ \A c \in cache : Right(c, db)

`Right` says that an entry stands for one of the paths that requests read, under
the string without the leading dot, and has the text of the value it leads to.
Every handler that clears nothing has changed nothing (`Cleaned`), and one that
clears a path leaves the entries that part from it as strings; by the hypothesis
they part at two keys, and there `WriteApart` finds the same value before and
after. `CachedLookup` returns from the requested path to the cached string, which
the tokenizer reads as the same path (`CachePathReads`). The hypotheses hold in
`store_dicts`; in `store_arrays` the elements `a[0]` and `a[1]` part at two indexes,
and that setting or adding to the one leaves the other alone is checked by TLC only.

**The traversal.** The invariant `Writing` describes the two stacks of
`Node_Serializer`. With each level of them goes a depth and what had been written
before its node was begun; what has been written since is

    Opening(v, n, d, k) == fBegin(v, n, d) \o FlattenSeq(Parts(v, n, d, k))

the beginning of the node and the first `k` of its children, each with the
delimiter before it. `OpeningNext` adds a child, and a node that ends has been
written whole. That the whole of a node is what `Meanings` makes of its children
is one lemma per visitor and kind of node; a member of an object, which the
traversal visits as a node of its own with a key and one child, is where the
meaning and the traversal differ in shape. `AllWritten` needs an induction over
the depth of documents, by a set of naturals (`NatInduction` takes an operator).

**The loader.** `Reloading` reads the stream from the side of the document. Each
node on the stack is `Partial(n, i)`, the node `n` with its first `i` children
only, its number on the other stack is that of the children it still lacks, and
what is left of the stream is the rest of the node on top followed by the rests
of those below it (`Pending`). A node just read is `Loaded` and on its way into the one
below it; a container just begun or given a child is `Filled`. One lemma per case
(`ScalarLoads`, `ContainerLoads`, `EndLoads`, `ChildLoads`) takes the loader through the
stream. It never meets an item of a kind it does not expect, because the type that
it reads is the one that was written (`TypesRead`), and `Writing` gives
what the stream is when the load begins.

**The parser's stacks.** `StacksParallel` is not inductive: whether the slot of
an object stands for one node or two depends on whether a member is being read.
`Sound` adds what decides it. `Shape`: every slot between the first and the
last is a container. `Matched`: in an object a key is being read exactly when the
count of its elements is odd, which is when the lexer takes a string to be a key.
As in the property, this holds while there is one value at level 0; a text may
begin a second one and then pop out of the first, so the invariant says more of it. `Reading` joins this to the texts that have not begun.

**A text read back.** The invariant is `Writing /\ Reading /\ Returning`. `Writing`
gives what the text is when its reading begins, `Reading` that a text not read to
its end is still being parsed, and `Returning` where it leads (`Halfway`): nothing
of it has been read; or handling the rest of its tokens one by one (`Lexes`) ends
in a context that accepts the document (`Accepted`); or it has been accepted. A
token takes one step off the rest (`TokenReturns`), so the work is in the first
step, that the whole text of a document leads to its node (`DocumentAccepted`).

That is an induction over the depth of documents (`AllFill`). `Ready` is a context
in which a value is due, on whatever stacks, with free slots in the stack of nodes
for what the value takes (`Fits`); `Valued` the same context with the
value set where it belongs: at the end of the list or under the key on top.
`ScalarFills` reads one scalar. For a container, `ReadTo` is the invariant of its
children: what has been written up to the first `i` of them leads to a context
with the container's state and a node of these `i` on top of the stacks. `NextRead`
takes it over a comma, the key of a member and the child, and `ContainerFills`
closes the container. The lexer notices the end of a number or literal name by the
token after it, when the node of it is not yet made: `Fills` therefore compares
contexts by what they make of any token that may follow a value (`SameAfter`), and
`ScalarAccepted` finds such a token at the end of a text in the bracket that
`CreateNodeFromJSON` puts around a scalar.

Only model-checked, and why:

* the liveness properties: fairness is out of the prover's reach;
* `ParsedFaithfully`: it compares what the parser makes of a client's text with a
  recursive grammar, and a text may be refused at any token; of such texts the two
  stacks are proved parallel, of those that the serializer writes the whole;
* `AofReplays`: what it expects of a document read back is recursive (`Typeless`);
* `CacheCoherent` where a changed path and a cached one part at two indexes, and
  with the two commands that clear nothing when no cached path is near them;
* `SmallArithmeticExact`: rounding is defined by powers of two, on which the
  provers do no arithmetic.

## What is not modelled

* Memory usage (`ObjectTypeMemoryUsage`), malloc failures, and the ownership of
  nodes other than the children of an array or dictionary.
* The text of errors, argument parsing, formatting options of `JSON.GET` other
  than the white space they insert and their effect on the cache, the option
  `noescape`, escapes of the form `\uXXXX`, fractions and the digits of numbers.
* `JSON.DEBUG` and `JSON._CACHEINFO`, which only read.
* `Node_Print` and `Node_Traverse`, which no command calls.
* Module loading and the registration of commands.
* The background freeing of the server (`FLUSHALL ASYNC`, lazy free), which
  would run `JSONTypeFree` in another thread: it is the server's, and the code
  here shows nothing about it.
* Vendored code (`deps/`) other than jsonsl's lexer, tests, benchmarks, build files.

## Plan

Done: all modules and proofs above. The order was the cache and its refinement,
the paths, the commands; then the traversal with its three outputs, the loader,
the parser, the buffers of arrays and dictionaries, and the append-only file;
then the proofs.

Left:

1. Client texts long enough for repeated keys.
2. Runs that show a text cached for an element that was shifted (`JSON.DEL` of
   `a[0]`, `JSON.GET` of `a[1]`), the `JSON.STRAPPEND` of a value that is no string,
   and a path longer than its array.
3. `ReplicaConverges` proved for requests that rewrite the file while no whole
   double is in it.
4. `ParsedFaithfully` for texts of clients: what `AllFill` shows of the texts
   written, for those that may be refused, with the commas that the lexer does not check.
5. `CacheCoherent` proved for paths that part at two indexes, when no command
   shifts the elements.
6. `SmallArithmeticExact` as a theorem.
