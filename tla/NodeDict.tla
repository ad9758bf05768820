------------------------------ MODULE NodeDict ------------------------------
(***************************************************************************)
(* The memory of a dictionary (t_dict of object.c): a buffer of pointers   *)
(* to key-value nodes, which are not moved in memory themselves, and the   *)
(* values allocated.                                                       *)
(***************************************************************************)
EXTENDS Integers, FiniteSets

CONSTANTS
    DictKeys,
    Values,         \* addresses of values
    NoKeyVal,       \* what a slot holds before it is written
    MaxGrowth,      \* largest step of the capacity (1024 * 1024)
    InitialCaps,    \* capacities NewDictNode is called with
    MaxDict         \* bound on the length

VARIABLES
    slots, dlen, dcap,      \* dictval: the slots hold key and value of a node
    dlive,                  \* values allocated and not freed
    doverrun                \* something was written outside the buffer

dictVars == <<slots, dlen, dcap, dlive, doverrun>>

ASSUME DictAssumption ==
    /\ MaxGrowth \in Nat \ {0} /\ MaxDict \in Nat
    /\ InitialCaps \subseteq Nat
    /\ NoKeyVal \notin [key : DictKeys, val : Values]

KeyVals == [key : DictKeys, val : Values]

DictInit ==
    /\ dcap \in InitialCaps /\ dlen = 0
    /\ slots = [i \in 0..(dcap - 1) |-> NoKeyVal]
    /\ dlive = {} /\ doverrun = FALSE

\* __obj_find: the index of the key, or the length.
Found(key) ==
    LET at == {i \in 0..(dlen - 1) : slots[i].key = key}
    IN  IF at = {} THEN dlen ELSE CHOOSE i \in at : \A j \in at : i <= j

\* __obj_insert: the capacity, and the entry behind the last one.
Grown == dcap + (IF dcap = 0 THEN 1 ELSE IF dcap < MaxGrowth THEN dcap ELSE MaxGrowth)
CapForFull == IF dlen > dcap THEN Grown ELSE dcap

CapFor == IF dlen >= dcap THEN Grown ELSE dcap

obj_insert(kv) ==
    /\ dcap' = CapFor
    /\ slots' = [i \in 0..(CapFor - 1) |->
                    IF i = dlen THEN kv ELSE IF i < dcap THEN slots[i] ELSE NoKeyVal]
    /\ doverrun' = (doverrun \/ dlen >= CapFor)
    /\ dlen' = dlen + 1
    /\ dlive' = dlive \cup {kv.val}

Replace(i, kv) ==
    /\ slots' = [slots EXCEPT ![i] = kv]
    /\ dlive' = (dlive \ {slots[i].val}) \cup {kv.val}
    /\ UNCHANGED <<dlen, dcap, doverrun>>

\* The value of a key found is replaced (Node_DictSet) or its node is
\* (Node_DictSetKeyVal); the old value is freed in both.
DictSetTo(kv) ==
    /\ kv.val \notin dlive
    /\ IF Found(kv.key) < dlen THEN Replace(Found(kv.key), kv)
       ELSE dlen < MaxDict /\ obj_insert(kv)

\* The hole filled with the entry behind it.
DelKeyFromNext(key) ==
    LET i == Found(key)
    IN  /\ i < dlen
        /\ dlive' = dlive \ {slots[i].val}
        /\ slots' = IF i < dlen - 1 THEN [slots EXCEPT ![i] = slots[i + 1]] ELSE slots
        /\ dlen' = dlen - 1
        /\ UNCHANGED <<dcap, doverrun>>

\* The last entry fills the hole.
DelKey(key) ==
    LET i == Found(key)
    IN  /\ i < dlen
        /\ dlive' = dlive \ {slots[i].val}
        /\ slots' = IF i < dlen - 1 THEN [slots EXCEPT ![i] = slots[dlen - 1]] ELSE slots
        /\ dlen' = dlen - 1
        /\ UNCHANGED <<dcap, doverrun>>

DictSet == \E kv \in KeyVals : DictSetTo(kv)
DictDel == \E key \in DictKeys : DelKey(key)

DictNext == DictSet \/ DictDel

DictSpec == DictInit /\ [][DictNext]_dictVars

-----------------------------------------------------------------------------

\* A dictionary owns the value of each of its keys once, within its buffer, and
\* has no key twice, so that __obj_find's first match is the only one.
DictSound ==
    /\ dlen <= dcap /\ ~doverrun
    /\ \A i \in 0..(dlen - 1) : slots[i] \in KeyVals /\ slots[i].val \in dlive
    /\ \A i, j \in 0..(dlen - 1) :
            slots[i].key = slots[j].key \/ slots[i].val = slots[j].val => i = j
    /\ \A v \in dlive : \E i \in 0..(dlen - 1) : slots[i].val = v
=============================================================================
