----------------------------- MODULE MCLruCache -----------------------------
(* Small instances of LruCache. *)
EXTENDS LruCache, TLC

CONSTANTS e1, e2, e3, d1, d2, short, long

\* The root, foo, foo.x and bar; one character stands for one key.
MCPaths == {<<>>, <<"f">>, <<"f", "x">>, <<"b">>}
MCKeyPaths == MCPaths \ {<<>>}
MCSdsLen == (short :> 1 @@ long :> 3)
\* JSON._CACHEINIT with few entries, with few bytes, and with a minimum size.
MCConfigs == {[maxEntries |-> 2, maxBytes |-> 9, minSize |-> 0],
              [maxEntries |-> 3, maxBytes |-> 3, minSize |-> 2]}
MCDefaultConfig == [maxEntries |-> 2, maxBytes |-> 9, minSize |-> 0]
\* One setting of two entries, whose byte limit one long value reaches.
MCSmallConfig == [maxEntries |-> 2, maxBytes |-> 3, minSize |-> 0]
MCSmallConfigs == {MCSmallConfig}
\* Room for three entries: only the bytes limit the cache.
MCBytesConfig == [maxEntries |-> 3, maxBytes |-> 3, minSize |-> 0]
MCBytesConfigs == {MCBytesConfig}
MCSymmetry == Permutations({e1, e2, e3}) \cup Permutations({d1, d2})
=============================================================================
