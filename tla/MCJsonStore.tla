----------------------------- MODULE MCJsonStore ----------------------------
(***************************************************************************)
(* Small instances of JsonStore: each set of requests is a workload.       *)
(***************************************************************************)
EXTENDS JsonStore, JsonText

CONSTANTS k1, k2

MCLetters == {"a", "b", "s", "n"}

\* Requests with fewer arguments.
Req(cmd, k, path, jsons) == Request(cmd, <<k>>, <<path>>, jsons, 0, 0, "none")
At(cmd, k, path, start, stop) == Request(cmd, <<k>>, <<path>>, <<>>, start, stop, "none")
NoPath(cmd, k) == Request(cmd, <<k>>, <<>>, <<>>, 0, 0, "none")
Get(k, paths) == Request("JSON.GET", <<k>>, paths, <<>>, 0, 0, "none")
SetIf(k, path, n, flag) == Request("JSON.SET", <<k>>, <<path>>, <<n>>, 0, 0, flag)

Root == <<".">>
PathA == <<".", "a">>
PathB == <<"b">>
PathS == <<"s">>
PathN == <<".", "n">>
PathA0 == <<"a", "[", "0", "]">>
PathA1 == <<"a", "[", "1", "]">>
PathB0 == <<"b", "[", "0", "]">>
PathBLast == <<"b", "[", "-", "1", "]">>
PathBB == <<"b", ".", "b">>
PathAB == <<"a", ".", "b">>

One == NewIntNode(1)
Str(c) == NewStringNode(<<c>>)
DocA(items) == NewDictNode(<<<<"a">>>>, <<NewArrayNode(items)>>)
EmptyDict == NewDictNode(<<>>, <<>>)

\* Objects: keys that come and go in two documents.
DictRequests ==
    {Req("JSON.SET", k, p, <<n>>) : k \in {k1, k2}, p \in {Root}, n \in {EmptyDict}}
    \cup {Req("JSON.SET", k1, p, <<Str("s")>>) : p \in {PathB, PathAB}}
    \cup {Req("JSON.SET", k1, PathA, <<EmptyDict>>)}
    \cup {SetIf(k1, PathA, Str("s"), f) : f \in {"nx", "xx"}}
    \cup {SetIf(k2, Root, EmptyDict, "xx"), SetIf(k1, Root, EmptyDict, "nx"),
          Req("JSON.SET", k1, PathB, <<InvalidJson>>), Req("JSON.SET", k2, PathA, <<One>>)}
    \cup {Req("JSON.DEL", k1, p, <<>>) : p \in {Root, PathA, PathB, PathAB}}
    \cup {Get(k1, <<p>>) : p \in {PathA, PathB, PathAB}}
    \cup {Request("DEL", <<k1>>, <<>>, <<>>, 0, 0, "none"),
          Request("SET", <<k2>>, <<>>, <<>>, 0, 0, "none")}
    \cup {At("JSON.TYPE", k1, PathAB, 0, 0), At("JSON.OBJKEYS", k1, Root, 0, 0),
          At("JSON.OBJLEN", k1, PathA, 0, 0),
          Request("JSON.MGET", <<k1, k2>>, <<PathA>>, <<>>, 0, 0, "none"),
          NoPath("JSON.GET", k1), NoPath("JSON.RESP", k2),
          Request("BGREWRITEAOF", <<k1>>, <<>>, <<>>, 0, 0, "none"),
          Request("JSON.GET", <<k1>>, <<PathA, PathB, PathA>>, <<>>, 0, 0, "format")}

\* Arrays and numbers: the commands that clear the cache, and reads.
ArrayRequests ==
    {Req("JSON.SET", k1, Root, <<DocA(<<>>)>>)}
    \cup {Req("JSON.SET", k1, PathA0, <<Str("s")>>)}
    \cup {Request("JSON.ARRINSERT", <<k1>>, <<PathA>>, js, i, 0, "none") :
            js \in {<<One>>, <<Str("s"), InvalidJson>>}, i \in {0, -1, 3}}
    \cup {Req("JSON.ARRAPPEND", k1, p, <<Str("s")>>) : p \in {PathA, Root}}
    \cup {At("JSON.ARRTRIM", k1, PathA, i, j) : i \in {0, 1}, j \in {-1, 0, 3}}
    \cup {Req("JSON.NUMINCRBY", k1, PathA0, <<One>>)}
    \cup {Req("JSON.NUMMULTBY", k1, PathA0, <<NewDoubleNode(2)>>)}
    \cup {Get(k1, <<p>>) : p \in {PathA, PathA0, PathA1}}
    \cup {At("JSON.ARRLEN", k1, PathA, 0, 0), At("JSON.STRLEN", k1, PathA0, 0, 0),
          At("JSON.RESP", k1, PathA0, 0, 0),
          Request("JSON.ARRINDEX", <<k1>>, <<PathA>>, <<One>>, 0, -1, "none")}

\* Another array in a document of its own, under the commands that leave the
\* cache as it is (JSON.ARRPOP, JSON.STRAPPEND, and JSON.DEL of an element, which
\* clears nothing for those that move up), so it is read without the cache.  In
\* a third document, a JSON.GET of several paths to numbers, which are never
\* cached.  An index of -7 is twice the longest array before its beginning.
PopRequests ==
    {Req("JSON.SET", k1, Root, <<n>>) :
        n \in {NewDictNode(<<<<"b">>>>, <<NewArrayNode(<<NewDoubleNode(2), Str("s"), One>>)>>),
               NewDictNode(<<<<"n">>>>, <<One>>)}}
    \cup {At("JSON.ARRPOP", k1, PathB, i, 0) : i \in {0, -1, -7, 3}}
    \cup {Req("JSON.STRAPPEND", k1, PathB0, <<Str("b")>>)}
    \cup {Req("JSON.DEL", k1, p, <<>>) : p \in {PathB0, PathBLast, PathBB}}
    \cup {Req("JSON.SET", k1, PathBLast, <<Str("n")>>)}
    \cup {Req("JSON.ARRAPPEND", k1, PathB, <<Str("s")>>),
          Request("BGREWRITEAOF", <<k1>>, <<>>, <<>>, 0, 0, "none"),
          Get(k1, <<PathN, PathN>>)}

ArrayAndPopRequests == ArrayRequests \cup PopRequests

\* What the parser makes of a JSON argument is a tree.
Values == UNION {Level(n, depth) : n \in UNION {Range(r.jsons) : r \in Requests}, depth \in 0..MaxDepth}

ASSUME ArgumentsAssumption ==
    Trees(Values) /\ \A r \in Requests : Range(r.jsons) \subseteq Values

\* Workloads that show where the code and its documentation part.
FirstDoc == Req("JSON.SET", k1, Root, <<DocA(<<Str("a"), Str("b")>>)>>)
PopStale == {FirstDoc, Get(k1, <<PathA>>), At("JSON.ARRPOP", k1, PathA, -1, 0)}
MultiWrong == {FirstDoc, Get(k1, <<PathA0, PathA1>>), Get(k1, <<PathA1>>)}
BigNumber == {Req("JSON.SET", k1, Root, <<NewIntNode(6)>>),
              Req("JSON.NUMINCRBY", k1, Root, <<NewIntNode(2)>>)}

-----------------------------------------------------------------------------
RECURSIVE Typeless(_)
\* Numbers without the difference of integer and double.
Typeless(n) ==
    [n EXCEPT !.type = IF @ = "integer" THEN "number" ELSE @,
              !.entries = [i \in DOMAIN @ |-> Typeless(@[i])]]

\* A document survives an AOF rewrite between any two commands, whatever is
\* done to it on both sides afterwards, except that a whole double is an
\* integer from then on.
AofReplays ==
    \A k \in Keys : db[k].type = Replayed[k].type /\ Typeless(db[k].root) = Typeless(Replayed[k].root)
=============================================================================
