----------------------------- MODULE JsonStore ------------------------------
(***************************************************************************)
(* The commands of the module (valkeyjson.c) over a keyspace of documents, *)
(* the cache of serialized values that JSON.GET reads and the writing      *)
(* commands clear, and the stream of commands handed to replicas.          *)
(*                                                                         *)
(* What a writing command does to the document of its key is an operator   *)
(* from document and request to outcome, so that a replica runs the same   *)
(* code on its own copy.  The cache is the abstract one of PathCache,      *)
(* which LruCache implements: filling it may push out one entry.           *)
(*                                                                         *)
(* What a document is written as is a parameter: JsonText defines it.      *)
(*                                                                         *)
(* The server runs one command at a time; the loop over the paths of a     *)
(* JSON.GET with several paths is one step per path (multi).               *)
(***************************************************************************)
EXTENDS JsonPath, Tokens, Numbers

CONSTANTS
    Keys,       \* keys of the database
    Requests,   \* the commands clients send, with their arguments
    MaxLen,     \* bound on the length of arrays and strings
    MaxLag,     \* bound on the commands a replica has not run yet
    Idle,       \* no JSON.GET is in progress
    MaxDepth,   \* levels of a document that DocumentsWellFormed looks at
    TextOf(_),      \* the JSON text of a node, without options
    RespReplyOf(_), \* its RESP reply
    ReadBackOf(_)   \* what is read back from its text

VARIABLES
    db,         \* document of each key
    cache,      \* cached serializations: [key, path, text]
    log,        \* commands replicated and not yet run by the replica
    replica,    \* the documents of a replica, or of a server started from the AOF
    last,       \* the last command and the replies it sent
    multi,      \* the JSON.GET with several paths in progress, or Idle
    crashed     \* a command ran into undefined behaviour

vars == <<db, cache, log, replica, last, multi, crashed>>

-----------------------------------------------------------------------------
(* Requests, documents, replies and outcomes.                              *)

\* Only JSON.MGET has several keys.  flag is nx or xx for JSON.SET, format for
\* a JSON.GET with formatting options, and none otherwise; jsons are the parsed
\* JSON arguments, a node of type "invalid" standing for text that
\* CreateNodeFromJSON refuses.
Request(cmd, keys, paths, jsons, start, stop, flag) ==
    [cmd |-> cmd, keys |-> keys, paths |-> paths, jsons |-> jsons,
     start |-> start, stop |-> stop, flag |-> flag]

KeyOf(r) == r.keys[1]

\* What the server hands to a command: its arity, and the key of the table it
\* is about, are checked before the command runs.
NeedsJson == {"JSON.SET", "JSON.NUMINCRBY", "JSON.NUMMULTBY", "JSON.STRAPPEND", "JSON.ARRINDEX"}

ASSUME RequestsAssumption ==
    \A r \in Requests :
        /\ r = Request(r.cmd, r.keys, r.paths, r.jsons, r.start, r.stop, r.flag)
        /\ r.keys \in Seq(Keys) /\ r.keys # <<>>
        /\ r.paths \in Seq(Seq(STRING))
        /\ r.jsons \in Seq(Range(r.jsons))
        /\ r.cmd \in NeedsJson => r.jsons # <<>>
        /\ r.cmd \in {"DEL", "SET"} => r.paths = <<>>
        /\ r.start \in Int /\ r.stop \in Int
ASSUME BoundsAssumption == MaxLen \in Nat /\ MaxLag \in Nat /\ MaxDepth \in Nat

InvalidJson == New("invalid", 0, <<>>, <<>>, <<>>)

Empty == [type |-> "empty", root |-> NullNode]
OtherType == [type |-> "other", root |-> NullNode]
Json(root) == [type |-> "json", root |-> root]

Reply(kind, num, text) == [kind |-> kind, num |-> num, text |-> text]
Error == Reply("error", 0, <<>>)
Null == Reply("null", 0, <<>>)
OK == Reply("ok", 0, <<>>)
LongLong(n) == Reply("int", n, <<>>)
Bulk(text) == Reply("bulk", 0, text)

\* clear is what happens to the cache: nothing, the entries that the path
\* affects, or all entries of the document because it is freed.
Outcome(doc, clear, replicate, replies, crash) ==
    [doc |-> doc, clear |-> clear, replicate |-> replicate,
     replies |-> replies, crash |-> crash]

Answer(doc, reply) == Outcome(doc, "nothing", FALSE, <<reply>>, FALSE)
RefuseReplicated(doc) == Outcome(doc, "nothing", TRUE, <<Error>>, FALSE)

Refuse(doc) == Answer(doc, Error)
Crash(doc) == Outcome(doc, "nothing", FALSE, <<>>, TRUE)

\* A change below the root: the cache is cleared and the command replicated.
ChangedUncleared(root, reply) == Outcome(Json(root), "nothing", TRUE, <<reply>>, FALSE)
ChangedUnreplicated(root, reply) == Outcome(Json(root), "path", FALSE, <<reply>>, FALSE)

Changed(root, reply) == Outcome(Json(root), "path", TRUE, <<reply>>, FALSE)

\* The path argument, which defaults to the root.
PathArg(r) == IF r.paths = <<>> THEN <<".">> ELSE r.paths[1]

\* The parsed form of every path that clients or the cache can name.
RequestPaths == {<<".">>} \cup UNION {Range(r.paths) : r \in Requests}

Parsed == [path \in RequestPaths \cup {CachePath(p) : p \in RequestPaths} |->
              LET sp == ParseJSONPath(path)
              IN  [ok |-> sp.ok, nodes |-> sp.nodes, isRoot |-> SearchPath_IsRootPath(sp.nodes)]]

\* Longer paths are written behind their array by __searchPath_append.
ASSUME PathsAssumption ==
    \A p \in RequestPaths : Len(ParseJSONPath(p).nodes) <= CapLimit

\* The search path together with what it finds; the root path has no parent.
PathOf(sp) == IF sp.isRoot THEN <<>> ELSE sp.nodes

FoundBy(sp, root) ==
    LET f == SearchPath_FindEx(PathOf(sp), root)
    IN  [ok |-> sp.ok, nodes |-> sp.nodes, isRoot |-> sp.isRoot, n |-> f.n, p |-> f.p,
         err |-> f.err, errlevel |-> f.errlevel, trail |-> f.trail]

NodeFromJSONPath(root, path) == FoundBy(Parsed[path], root)

\* The document after the parent of the node, or the node, has changed.
WithParent(j, p) == Replaced(SubSeq(j.trail, 1, Len(j.nodes) - 1), p)
WithNode(j, n) == Replaced(j.trail, n)

LastKey(j) == Last(j.nodes).key
LastIndex(j) == Last(j.nodes).index

\* Replacing the value at an existing path, by the container it is in.
SetInContainer(doc, j, n, reply) ==
    LET i == FromEnd(Len(j.p.entries), LastIndex(j))
    IN  CASE j.isRoot -> Outcome(Json(n), "document", TRUE, <<reply>>, FALSE)
          [] j.p.type = "dict" -> Changed(WithParent(j, Node_DictSet(j.p, LastKey(j), n)), reply)
          [] j.p.type = "array" -> Changed(WithParent(j, [j.p EXCEPT !.entries[i + 1] = n]), reply)
          [] OTHER -> Crash(doc)

-----------------------------------------------------------------------------
(* JSON.SET                                                                *)

SetOnNewKey(doc, j, n) ==
    IF j.err = "OK" /\ j.isRoot
    THEN Outcome(Json(n), "document", TRUE, <<OK>>, FALSE) ELSE Refuse(doc)

SetOnExisting(doc, j, n, flag) ==
    LET atRoot == j.isRoot
        refused ==
            \/ j.err \notin {"OK", "NOKEY"}
            \/ j.err = "NOKEY" /\ j.errlevel # Len(j.nodes) - 1
            \/ j.err = "OK" /\ j.p.type = "array" /\ flag # "none"
        unmet ==
            \/ j.err = "OK" /\ flag = "nx" /\ (atRoot \/ j.p.type = "dict")
            \/ j.err = "NOKEY" /\ flag = "xx"
    IN  CASE refused -> Refuse(doc)
          [] ~refused /\ unmet -> Answer(doc, Null)
          [] ~refused /\ ~unmet /\ j.err = "OK" -> SetInContainer(doc, j, n, OK)
          [] ~refused /\ ~unmet /\ j.err = "NOKEY" ->
                Changed(WithParent(j, Node_DictSet(j.p, LastKey(j), n)), OK)

JSONSet(doc, j, r) ==
    LET n == r.jsons[1]
        new == doc.type = "empty"
    IN  IF doc.type = "other" THEN Refuse(doc)
        ELSE IF r.flag = "xx" /\ new THEN Answer(doc, Null)
        ELSE IF n.type = "invalid" \/ ~j.ok THEN Refuse(doc)
        ELSE IF new THEN SetOnNewKey(doc, j, n)
        ELSE SetOnExisting(doc, j, n, r.flag)

-----------------------------------------------------------------------------
(* JSON.DEL                                                                *)

\* An index or key that does not exist is not an error, and is replicated.
\* The reply counts the path arguments: argc - 2.
JSONDel(doc, j, r) ==
    LET count == LongLong(Len(r.paths))
        index == LastIndex(j)
    IN  CASE doc.type = "empty" -> Answer(doc, LongLong(0))
          [] doc.type = "other" -> Refuse(doc)
          [] doc.type = "json" /\ (~j.ok \/ j.err = "BADTYPE") -> Refuse(doc)
          [] doc.type = "json" /\ j.ok /\ j.err \in {"NOINDEX", "NOKEY"} ->
                Outcome(doc, "nothing", TRUE, <<LongLong(0)>>, FALSE)
          [] doc.type = "json" /\ j.ok /\ j.err = "OK" ->
                CASE j.isRoot -> Outcome(Empty, "document", TRUE, <<count>>, FALSE)
                  [] j.p.type = "dict" ->
                        Changed(WithParent(j, Node_DictDel(j.p, LastKey(j))), count)
                  [] j.p.type = "array" ->
                        IF DelRangeSafe(Len(j.p.entries), index, 1)
                        THEN Changed(WithParent(j, [j.p EXCEPT !.entries =
                                        Node_ArrayDelRange(@, index, 1)]), count)
                        ELSE Crash(doc)
                  [] OTHER -> Crash(doc)

-----------------------------------------------------------------------------
(* Commands that need an existing document and a resolvable path.          *)

\* What the key, path and error checks of these commands let through.
Resolves(doc, j) == doc.type = "json" /\ j.ok /\ j.err = "OK"

IsNumber(n) == n.type \in {"integer", "number"}

\* JSON.NUMINCRBY and JSON.NUMMULTBY compute with doubles.
NumResultOfTarget(m, n, multiply) ==
    LET a == AsDouble(m.num)
        b == AsDouble(n.num)
        rz == AsDouble(IF multiply THEN a * b ELSE a + b)
    IN  IF m.type = "integer" /\ FitsInt64(rz) THEN NewIntNode(ToInt64(rz)) ELSE NewDoubleNode(rz)

NumResult(m, n, multiply) ==
    LET a == AsDouble(m.num)
        b == AsDouble(n.num)
        rz == AsDouble(IF multiply THEN a * b ELSE a + b)
    IN  IF m.type = "integer" /\ n.type = "integer" /\ FitsInt64(rz)
        THEN NewIntNode(ToInt64(rz)) ELSE NewDoubleNode(rz)

JSONNum(doc, j, r) ==
    LET by == r.jsons[1]
        n == NumResult(j.n, by, r.cmd = "JSON.NUMMULTBY")
    IN  IF ~Resolves(doc, j) \/ ~IsNumber(j.n) \/ ~IsNumber(by) \/ IsInf(n.num)
        THEN Refuse(doc)
        ELSE SetInContainer(doc, j, n, Bulk(TextOf(n)))

\* JSON.STRAPPEND does not clear the cache.  A value that is not a string
\* draws an error and is appended all the same: the union's bytes are read
\* as a string, of length 0 for a scalar, and of the container's length,
\* with bytes of its pointers, for a container.  The null pointer is read.
BytesOf(n) ==
    CASE n.type = "string" -> n.str
      [] n.type \in {"boolean", "integer", "number"} -> <<>>
      [] n.type \in {"array", "dict"} -> [i \in 1..Len(n.entries) |-> "?"]

JSONStrAppend(doc, j, r) ==
    LET n == r.jsons[1]
        str == j.n.str \o BytesOf(n)
        warned == IF n.type = "string" THEN <<>> ELSE <<Error>>
    IN  IF ~Resolves(doc, j) \/ j.n.type # "string" \/ n.type = "invalid" THEN Refuse(doc)
        ELSE IF n.type = "null" THEN Crash(doc)
        ELSE Outcome(Json(WithNode(j, NewStringNode(str))), "nothing", TRUE,
                     Append(warned, LongLong(Len(str))), FALSE)

Invalid(jsons) == \E i \in DOMAIN jsons : jsons[i].type = "invalid"

JSONArrInsertAsParsed(doc, j, r) ==
    LET index == FromEnd(Len(j.n.entries), r.start)
        valid == SelectSeq(r.jsons, LAMBDA n : n.type # "invalid")
        items == Node_ArrayInsert(j.n.entries, index, valid)
    IN  IF ~Resolves(doc, j) \/ j.n.type # "array" \/ index \notin 0..Len(j.n.entries)
        THEN Refuse(doc)
        ELSE Changed(WithNode(j, NewArrayNode(items)),
                     IF Invalid(r.jsons) THEN Error ELSE LongLong(Len(items)))

JSONArrInsert(doc, j, r) ==
    LET len == Len(j.n.entries)
        index == FromEnd(len, r.start)
        items == Node_ArrayInsert(j.n.entries, index, r.jsons)
    IN  IF ~Resolves(doc, j) \/ j.n.type # "array" \/ index \notin 0..len \/ Invalid(r.jsons)
        THEN Refuse(doc)
        ELSE Changed(WithNode(j, NewArrayNode(items)), LongLong(Len(items)))

JSONArrAppend(doc, j, r) ==
    LET items == Node_ArrayInsert(j.n.entries, Len(j.n.entries), r.jsons)
    IN  IF ~Resolves(doc, j) \/ j.n.type # "array" \/ Invalid(r.jsons) THEN Refuse(doc)
        ELSE Changed(WithNode(j, NewArrayNode(items)), LongLong(Len(items)))

\* The element that JSON.ARRPOP takes: an index from either end, clamped.
PopIndexUnclamped(len, index) ==
    IF FromEnd(len, index) >= len THEN len - 1 ELSE FromEnd(len, index)

PopIndex(len, index) ==
    LET low == IF FromEnd(len, index) < 0 THEN 0 ELSE FromEnd(len, index)
    IN  IF low >= len THEN len - 1 ELSE low

\* JSON.ARRPOP does not clear the cache.  Popping from an empty array is
\* replicated too.
JSONArrPop(doc, j, r) ==
    LET len == Len(j.n.entries)
        index == PopIndex(len, r.start)
        items == Node_ArrayDelRange(j.n.entries, index, 1)
    IN  IF ~Resolves(doc, j) \/ j.n.type # "array" THEN Refuse(doc)
        ELSE IF len = 0 THEN Outcome(doc, "nothing", TRUE, <<Null>>, FALSE)
        ELSE IF ~DelRangeSafe(len, index, 1) THEN Crash(doc)
        ELSE Outcome(Json(WithNode(j, NewArrayNode(items))), "nothing", TRUE,
                     <<Bulk(TextOf(Node_ArrayItem(j.n.entries, index)))>>, FALSE)

JSONArrTrim(doc, j, r) ==
    LET len == Len(j.n.entries)
        start == IF FromEnd(len, r.start) < 0 THEN 0 ELSE FromEnd(len, r.start)
        stop == FromEnd(len, r.stop)
        none == start > stop \/ start >= len
        left == IF none THEN len ELSE start
        right == IF none THEN 0 ELSE len - (IF stop >= len THEN len - 1 ELSE stop) - 1
        cut == Node_ArrayDelRange(j.n.entries, 0, left)
        items == Node_ArrayDelRange(cut, -right, right)
    IN  IF ~Resolves(doc, j) \/ j.n.type # "array" THEN Refuse(doc)
        ELSE IF ~DelRangeSafe(Len(cut), -right, right) THEN Crash(doc)
        ELSE Changed(WithNode(j, NewArrayNode(items)), LongLong(Len(items)))

-----------------------------------------------------------------------------
(* Commands that only read.                                                *)

JSONType(doc, j, r) ==
    IF doc.type = "empty" THEN Null
    ELSE IF doc.type = "other" \/ ~j.ok THEN Error
    ELSE IF j.err = "OK" THEN Reply("type", 0, <<j.n.type>>) ELSE Null

Expected(cmd) ==
    CASE cmd = "JSON.ARRLEN" -> "array" [] cmd = "JSON.OBJLEN" -> "dict"
      [] cmd = "JSON.STRLEN" -> "string"

JSONLen(doc, j, r) ==
    IF doc.type = "empty" THEN Null
    ELSE IF ~Resolves(doc, j) \/ j.n.type # Expected(r.cmd) THEN Error
    ELSE LongLong(Node_Length(j.n))

JSONObjKeys(doc, j, r) ==
    IF doc.type = "empty" THEN Null
    ELSE IF doc.type = "other" \/ ~j.ok THEN Error
    ELSE IF j.err \in {"NOINDEX", "NOKEY"} THEN Null
    ELSE IF j.err # "OK" \/ j.n.type # "dict" THEN Error
    ELSE Reply("array", Len(j.n.keys), FlattenSeq(j.n.keys))

JSONArrIndex(doc, j, r) ==
    LET n == r.jsons[1]
    IN  IF ~Resolves(doc, j) \/ j.n.type # "array" \/ n.type = "invalid" THEN Error
        ELSE LongLong(Node_ArrayIndex(j.n.entries, n, ToInt(r.start), ToInt(r.stop)))

\* JSON.MGET replies null for what it does not find, and uses no cache.
MGetItem(doc, path) ==
    LET j == NodeFromJSONPath(doc.root, path)
    IN  IF doc.type = "json" /\ j.err = "OK" THEN TextOf(j.n) ELSE <<"nil">>

\* JSON.RESP
JSONResp(doc, j, r) ==
    IF doc.type = "empty" THEN Null
    ELSE IF ~Resolves(doc, j) THEN Error
    ELSE Reply("resp", 0, RespReplyOf(j.n))

JSONMGet(docs, r) ==
    IF ~Parsed[PathArg(r)].ok THEN Error
    ELSE Reply("array", Len(r.keys),
               FlattenSeq([i \in DOMAIN r.keys |-> MGetItem(docs[r.keys[i]], PathArg(r))]))

ReadReply(doc, j, r) ==
    CASE r.cmd = "JSON.TYPE" -> JSONType(doc, j, r)
      [] r.cmd \in {"JSON.ARRLEN", "JSON.OBJLEN", "JSON.STRLEN"} -> JSONLen(doc, j, r)
      [] r.cmd = "JSON.OBJKEYS" -> JSONObjKeys(doc, j, r)
      [] r.cmd = "JSON.ARRINDEX" -> JSONArrIndex(doc, j, r)
      [] r.cmd = "JSON.RESP" -> JSONResp(doc, j, r)
      [] r.cmd = "JSON.MGET" -> JSONMGet(db, r)

-----------------------------------------------------------------------------
(* The cache.                                                              *)

\* shouldClearPath on normalized path strings.
RelatedBelowOnly(p, q) == IsPrefix(p, q)

Related(p, q) == IsPrefix(p, q) \/ IsPrefix(q, p)

\* maybeClearPathCache, or the freeing of the document.
Cleared(key, path, clear) ==
    {c \in cache : \/ c.key # key
                   \/ clear = "nothing"
                   \/ clear = "path" /\ ~Related(CachePath(path), c.path)}

\* Types "which aren't costly to serialize" are not cached.
Cacheable(n) == n.type \notin {"null", "boolean", "integer", "number"}

\* isCachableOptions: without a path argument spacestr stays NULL, and the
\* test on it fails.
CachableOptions(r) == r.flag = "none" /\ r.paths # <<>>

\* For a normalized path.
Hits(key, path) == {c \in cache : c.key = key /\ c.path = path}

\* LruCache_AddValue, which ignores values below minSize and may evict.
Fill(key, path, text) ==
    \/ UNCHANGED cache
    \/ \E victims \in SUBSET cache :
        /\ Cardinality(victims) <= 1
        /\ cache' = (cache \ victims) \cup {[key |-> key, path |-> path, text |-> text]}

-----------------------------------------------------------------------------
Init ==
    /\ db = [k \in Keys |-> Empty]
    /\ cache = {}
    /\ log = <<>>
    /\ replica = [k \in Keys |-> Empty]
    /\ last = [req |-> Request("none", <<>>, <<>>, <<>>, 0, 0, "none"), replies |-> <<>>]
    /\ multi = Idle
    /\ crashed = FALSE

Ready == ~crashed /\ multi = Idle

Replied(r, replies) == last' = [req |-> r, replies |-> replies]

\* Commands of the server itself that free or overwrite a document.
ServerCommand(r) ==
    IF r.cmd = "DEL" THEN Outcome(Empty, "document", TRUE, <<OK>>, FALSE)
    ELSE Outcome(OtherType, "document", TRUE, <<OK>>, FALSE)

\* What a writing command makes of the document, j being what its path leads
\* to.  JSON.SET of a new key looks the path up in the new value.
HandlerOutcome(doc, j, r) ==
    CASE r.cmd = "JSON.SET" -> JSONSet(doc, j, r)
      [] r.cmd = "JSON.DEL" -> JSONDel(doc, j, r)
      [] r.cmd \in {"JSON.NUMINCRBY", "JSON.NUMMULTBY"} -> JSONNum(doc, j, r)
      [] r.cmd = "JSON.STRAPPEND" -> JSONStrAppend(doc, j, r)
      [] r.cmd = "JSON.ARRINSERT" -> JSONArrInsert(doc, j, r)
      [] r.cmd = "JSON.ARRAPPEND" -> JSONArrAppend(doc, j, r)
      [] r.cmd = "JSON.ARRPOP" -> JSONArrPop(doc, j, r)
      [] r.cmd = "JSON.ARRTRIM" -> JSONArrTrim(doc, j, r)
      [] r.cmd \in {"DEL", "SET"} -> ServerCommand(r)

LookedUpIn(doc, r) ==
    IF r.cmd = "JSON.SET" /\ doc.type = "empty" THEN r.jsons[1] ELSE doc.root

WriteOutcome(doc, r) ==
    HandlerOutcome(doc, NodeFromJSONPath(LookedUpIn(doc, r), PathArg(r)), r)

\* The reply of a growing command is the new length.
WithinBound(out) ==
    \A i \in DOMAIN out.replies : out.replies[i].kind = "int" => out.replies[i].num <= MaxLen

Commit(r, out) ==
    /\ WithinBound(out)
    /\ db' = [db EXCEPT ![KeyOf(r)] = out.doc]
    /\ cache' = Cleared(KeyOf(r), PathArg(r), out.clear)
    /\ log' = IF out.replicate THEN Append(log, r) ELSE log
    /\ crashed' = out.crash
    /\ Replied(r, out.replies)
    /\ UNCHANGED <<replica, multi>>

\* The node that the path of the command leads to.
Argument(r) == NodeFromJSONPath(LookedUpIn(db[KeyOf(r)], r), PathArg(r))

Writable == Ready /\ Len(log) < MaxLag

SetCommand(r) == Writable /\ Commit(r, JSONSet(db[KeyOf(r)], Argument(r), r))
DelCommand(r) == Writable /\ Commit(r, JSONDel(db[KeyOf(r)], Argument(r), r))
NumCommand(r) == Writable /\ Commit(r, JSONNum(db[KeyOf(r)], Argument(r), r))
StrAppendCommand(r) == Writable /\ Commit(r, JSONStrAppend(db[KeyOf(r)], Argument(r), r))
ArrInsertCommand(r) == Writable /\ Commit(r, JSONArrInsert(db[KeyOf(r)], Argument(r), r))
ArrAppendCommand(r) == Writable /\ Commit(r, JSONArrAppend(db[KeyOf(r)], Argument(r), r))
ArrPopCommand(r) == Writable /\ Commit(r, JSONArrPop(db[KeyOf(r)], Argument(r), r))
ArrTrimCommand(r) == Writable /\ Commit(r, JSONArrTrim(db[KeyOf(r)], Argument(r), r))
ServerWrite(r) == Writable /\ Commit(r, ServerCommand(r))

ReadCommands == {"JSON.TYPE", "JSON.ARRLEN", "JSON.OBJLEN", "JSON.STRLEN",
                 "JSON.OBJKEYS", "JSON.ARRINDEX", "JSON.RESP", "JSON.MGET"}

ReadCommand(r) ==
    /\ Ready
    /\ Replied(r, <<ReadReply(db[KeyOf(r)], Argument(r), r)>>)
    /\ UNCHANGED <<db, cache, log, replica, multi, crashed>>

-----------------------------------------------------------------------------
(* JSON.GET                                                                *)

GetPaths(r) == IF r.paths = <<>> THEN <<<<".">>>> ELSE r.paths

Target(key, path) == NodeFromJSONPath(db[key].root, path)

GetResolves(r) ==
    \A i \in DOMAIN GetPaths(r) : Resolves(db[KeyOf(r)], Target(KeyOf(r), GetPaths(r)[i]))

\* No such key, another type, or a path that is wrong or leads nowhere.
GetRefused(r) ==
    /\ Ready
    /\ ~GetResolves(r)
    /\ Replied(r, <<IF db[KeyOf(r)].type = "empty" THEN Null ELSE Error>>)
    /\ UNCHANGED <<db, cache, log, replica, multi, crashed>>

\* The members of the object that several paths are replied as; a path that
\* is given twice is one member when the cache is not used.
Members(r) ==
    LET key == KeyOf(r)
        first == {i \in DOMAIN r.paths : \A k \in 1..(i - 1) : r.paths[k] # r.paths[i]}
        part(i) == Quoted(r.paths[i]) \o <<":">> \o TextOf(Target(key, r.paths[i]).n)
    IN  Joined([i \in 1..Cardinality(first) |-> part(SetToSortSeq(first, <)[i])], <<",">>)

\* JSON.GET with formatting options, or without a path: no cache.
GetUncached(r) ==
    /\ Ready
    /\ GetResolves(r)
    /\ ~CachableOptions(r)
    /\ Replied(r, <<Bulk(IF Len(r.paths) <= 1
                         THEN TextOf(Target(KeyOf(r), PathArg(r)).n)
                         ELSE <<"{">> \o Members(r) \o <<"}">>)>>)
    /\ UNCHANGED <<db, cache, log, replica, multi, crashed>>

\* sendSingleResponse through getSerializedJson.
GetSingle(r) ==
    LET n == Target(KeyOf(r), PathArg(r)).n
        path == CachePath(PathArg(r))
        hits == Hits(KeyOf(r), path)
    IN  /\ Ready
        /\ GetResolves(r)
        /\ CachableOptions(r)
        /\ Len(r.paths) = 1
        /\ \/ /\ Cacheable(n)
              /\ \E c \in hits : Replied(r, <<Bulk(c.text)>>)
              /\ UNCHANGED cache
           \/ /\ Cacheable(n) => hits = {}
              /\ Replied(r, <<Bulk(TextOf(n))>>)
              /\ IF Cacheable(n) THEN Fill(KeyOf(r), path, TextOf(n))
                 ELSE UNCHANGED cache
        /\ UNCHANGED <<db, log, replica, multi, crashed>>

\* sendMultiResponse: the paths are resolved, then the object is opened.
MultiBegin(r) ==
    /\ Ready
    /\ GetResolves(r)
    /\ CachableOptions(r)
    /\ Len(r.paths) > 1
    /\ LET part(p) == [name |-> p, path |-> CachePath(p), n |-> Target(KeyOf(r), p).n]
       IN  multi' = [req |-> r, parts |-> [i \in DOMAIN r.paths |-> part(r.paths[i])],
                     i |-> 1, buf |-> <<"{">>]
    /\ UNCHANGED <<db, cache, log, replica, last, crashed>>

\* One path: getSerializedJson appends to the buffer, and on a miss caches
\* the buffer it has appended to.
MultiStep ==
    LET key == KeyOf(multi.req)
        part == multi.parts[multi.i]
        n == part.n
        hits == Hits(key, part.path)
        member == multi.buf \o Quoted(part.name) \o <<":">>
        comma == IF multi.i < Len(multi.parts) THEN <<",">> ELSE <<>>
        goOn(buf) == multi' = [multi EXCEPT !.i = @ + 1, !.buf = buf \o comma]
    IN  /\ multi # Idle
        /\ multi.i <= Len(multi.parts)
        /\ \/ /\ Cacheable(n)
              /\ \E c \in hits : goOn(member \o c.text)
              /\ UNCHANGED cache
           \/ /\ Cacheable(n) => hits = {}
              /\ goOn(member \o TextOf(n))
              /\ IF Cacheable(n) THEN Fill(key, part.path, member \o TextOf(n))
                 ELSE UNCHANGED cache
        /\ UNCHANGED <<db, log, replica, last, crashed>>

\* Close the object and send it.
MultiEnd ==
    /\ multi # Idle
    /\ multi.i > Len(multi.parts)
    /\ Replied(multi.req, <<Bulk(multi.buf \o <<"}">>)>>)
    /\ multi' = Idle
    /\ UNCHANGED <<db, cache, log, replica, crashed>>

-----------------------------------------------------------------------------
\* A replica runs the next command of the stream with the same code.
Run(docs, r) == [docs EXCEPT ![KeyOf(r)] = WriteOutcome(@, r).doc]

ReplicaApply ==
    /\ log # <<>>
    /\ replica' = Run(replica, Head(log))
    /\ log' = Tail(log)
    /\ UNCHANGED <<db, cache, last, multi, crashed>>

\* JSONTypeAofRewrite: one JSON.SET of the root, of the text of the document.
RewrittenIfPresent(k) ==
    CASE db[k].type = "empty" -> <<>>
      [] db[k].type = "other" -> <<Request("SET", <<k>>, <<>>, <<>>, 0, 0, "none")>>
      [] db[k].type = "json" ->
            <<Request("JSON.SET", <<k>>, <<<<".">>>>, <<ReadBackOf(db[k].root)>>, 0, 0, "xx")>>

Rewritten(k) ==
    CASE db[k].type = "empty" -> <<>>
      [] db[k].type = "other" -> <<Request("SET", <<k>>, <<>>, <<>>, 0, 0, "none")>>
      [] db[k].type = "json" ->
            <<Request("JSON.SET", <<k>>, <<<<".">>>>, <<ReadBackOf(db[k].root)>>, 0, 0, "none")>>

\* The stream starts anew, from an empty database, with the rewritten keys.
RewriteAof(r) ==
    /\ Writable
    /\ log' = FlattenSeq([i \in 1..Cardinality(Keys) |-> Rewritten(SetToSeq(Keys)[i])])
    /\ replica' = [k \in Keys |-> Empty]
    /\ UNCHANGED <<db, cache, last, multi, crashed>>

RequestsOf(cmds) == {r \in Requests : r.cmd \in cmds}

Next ==
    \/ \E r \in RequestsOf({"JSON.SET"}) : SetCommand(r)
    \/ \E r \in RequestsOf({"JSON.DEL"}) : DelCommand(r)
    \/ \E r \in RequestsOf({"JSON.NUMINCRBY", "JSON.NUMMULTBY"}) : NumCommand(r)
    \/ \E r \in RequestsOf({"JSON.STRAPPEND"}) : StrAppendCommand(r)
    \/ \E r \in RequestsOf({"JSON.ARRINSERT"}) : ArrInsertCommand(r)
    \/ \E r \in RequestsOf({"JSON.ARRAPPEND"}) : ArrAppendCommand(r)
    \/ \E r \in RequestsOf({"JSON.ARRPOP"}) : ArrPopCommand(r)
    \/ \E r \in RequestsOf({"JSON.ARRTRIM"}) : ArrTrimCommand(r)
    \/ \E r \in RequestsOf({"DEL", "SET"}) : ServerWrite(r)
    \/ \E r \in RequestsOf(ReadCommands) : ReadCommand(r)
    \/ \E r \in RequestsOf({"JSON.GET"}) :
            GetRefused(r) \/ GetUncached(r) \/ GetSingle(r) \/ MultiBegin(r)
    \/ MultiStep \/ MultiEnd
    \/ \E r \in RequestsOf({"BGREWRITEAOF"}) : RewriteAof(r)
    \/ ReplicaApply

\* A started JSON.GET runs to its end: nothing preempts it.
Spec == Init /\ [][Next]_vars /\ WF_vars(MultiStep \/ MultiEnd)

-----------------------------------------------------------------------------
(* Properties.                                                             *)

\* A dictionary pairs each key with one value and has no key twice.
WellFormed(n) ==
    /\ n.type = "dict" => /\ Len(n.keys) = Len(n.entries)
                          /\ \A i, k \in DOMAIN n.keys : n.keys[i] = n.keys[k] => i = k
    /\ n.type # "dict" => n.keys = <<>>
    /\ n.type \notin {"dict", "array"} => n.entries = <<>>

\* A set of well formed nodes that holds the children of its nodes.
Trees(S) ==
    \A n \in S :
        /\ n = New(n.type, n.num, n.str, n.keys, n.entries)
        /\ n.type \in DOMAIN TypeCode \cup {"invalid"}
        /\ n.keys \in Seq(Range(n.keys)) /\ n.entries \in Seq(S)
        /\ WellFormed(n)

\* The nodes that a number of steps from parent to child lead to.
Children(ns, i) == UNION {Range(n.entries) : n \in ns}
Level(root, depth) == FoldLeft(Children, {root}, [i \in 1..depth |-> i])

\* Whatever sequence of commands made them, the documents are trees of the
\* shapes that object.c relies on, keys unique in spite of the appending of
\* Node_DictSet and the swapping of Node_DictDel.
DocumentsWellFormed ==
    \A k \in Keys, depth \in 0..MaxDepth : \A n \in Level(db[k].root, depth) : WellFormed(n)

\* Each cached text is what serializing the value at that path gives now, so
\* every JSON.GET of it is right whenever it comes.
CacheCoherent ==
    \A c \in cache :
        LET j == Target(c.key, c.path)
        IN  Resolves(db[c.key], j) /\ c.text = TextOf(j.n)

\* commands.md: JSON.GET returns "the value at `path` in JSON serialized form",
\* several paths as an object of them.
GetRepliesRight ==
    LET r == last.req
    IN  r.cmd = "JSON.GET" /\ multi = Idle /\ GetResolves(r) /\ last.replies[1].kind = "bulk" =>
            \/ Len(r.paths) <= 1 /\ last.replies[1].text = TextOf(Target(KeyOf(r), PathArg(r)).n)
            \/ Len(r.paths) > 1 /\ last.replies[1].text = <<"{">> \o Members(r) \o <<"}">>

\* The documents of a replica that runs the commands it has not run yet, or
\* of a server that replays the AOF to its end.
Replayed == FoldLeft(Run, replica, log)

\* They are the same documents: no command changes one without being
\* replicated, and none changes it differently from the replicated one.
ReplicaConverges == db = Replayed

\* A command that replies with an error has changed no document and nothing
\* is replicated: no error path leaves half of the work done.
ErrorsChangeNothing ==
    [][(last' # last /\ \E i \in DOMAIN last'.replies : last'.replies[i] = Error)
        => db' = db /\ log' = log]_vars

\* Paths that part at two different keys of the same object.
PartAtKeys(p, q) ==
    LET m == Parsed[p].nodes
        n == Parsed[q].nodes
    IN  \E i \in DOMAIN m \cap DOMAIN n :
            /\ \A k \in 1..(i - 1) : m[k] = n[k]
            /\ m[i].type = "key" /\ n[i].type = "key" /\ m[i] # n[i]

ProbePaths == {PathArg(r) : r \in Requests}

\* What a command leaves alone: the other documents, and every value whose
\* path parts from the command's at two keys, although Node_DictDel moves
\* entries about.
OthersUntouched ==
    [][db' # db => \A k \in Keys, q \in ProbePaths :
            k # KeyOf(last'.req) \/ PartAtKeys(q, PathArg(last'.req))
                => /\ NodeFromJSONPath(db'[k].root, q).n = NodeFromJSONPath(db[k].root, q).n
                   /\ NodeFromJSONPath(db'[k].root, q).err = NodeFromJSONPath(db[k].root, q).err]_vars

\* No command makes Node_ArrayDelRange start before the array, as an index
\* that JSON.ARRPOP or JSON.ARRTRIM has clamped wrongly does, or follows the
\* parent that the root does not have: "must be an array", the comment of the
\* last branch of JSON.SET, JSON.DEL and JSON.NUMINCRBY says of the container.
NeverCrashes == ~crashed

\* What NUMINCRBY and NUMMULTBY compute while every number involved is small
\* enough for a double to hold it: the exact result, an integer for integers.
SmallArithmeticExact ==
    [][last'.req.cmd \in {"JSON.NUMINCRBY", "JSON.NUMMULTBY"} /\ db' # db =>
        LET r == last'.req
            a == Target(KeyOf(r), PathArg(r)).n
            b == r.jsons[1]
            c == NodeFromJSONPath(db'[KeyOf(r)].root, PathArg(r)).n
            exact == IF r.cmd = "JSON.NUMINCRBY" THEN a.num + b.num ELSE a.num * b.num
        IN  Abs(a.num) < 2^Mantissa /\ Abs(b.num) < 2^Mantissa /\ Abs(exact) < 2^Mantissa
              => /\ c.num = exact
                 /\ (c.type = "integer") = (a.type = "integer" /\ b.type = "integer")]_vars

\* "the result is an integer only if both values were, and providing an int64
\* can hold it": otherwise it is the double.
IntegerOnlyIfHeld ==
    [][last'.req.cmd \in {"JSON.NUMINCRBY", "JSON.NUMMULTBY"} /\ db' # db =>
        LET r == last'.req
            a == Target(KeyOf(r), PathArg(r)).n
            b == r.jsons[1]
            c == NodeFromJSONPath(db'[KeyOf(r)].root, PathArg(r)).n
            exact == IF r.cmd = "JSON.NUMINCRBY" THEN a.num + b.num ELSE a.num * b.num
        IN  exact \notin INT64_MIN..INT64_MAX => c.type = "number"]_vars
=============================================================================
