---------------------------- MODULE MemoryCache ----------------------------
(***************************************************************************)
(* What a Memory cache promises its callers (src/memory.go and its resize *)
(* in src/memory_xconf_adapter.go), as one map from key to item with a     *)
(* capacity in entries.  Every change is one indivisible step: a Set that  *)
(* evicts another entry only when the cache is full, a delete, one second  *)
(* passing, and a resize that installs a new capacity together with a     *)
(* part of the current contents, each kept entry unchanged (same value,    *)
(* same remaining seconds).  Which entries a shrinking resize keeps is    *)
(* not promised: freecache evicts while the entries are copied, and an     *)
(* entry that displaced another may expire before the swap.               *)
(***************************************************************************)
EXTENDS Naturals, FiniteSets

CONSTANTS
    Keys, Values,
    Secs,     \* expiries, in seconds, a Set may be given (0: none)
    Sizes,    \* capacities the cache may have
    None

VARIABLES
    store,    \* store[k]: the item held for k, or None
    size      \* capacity

Item == [val : Values, ttl : Nat]

Held == {k \in Keys : store[k] /= None}

Init ==
    /\ store = [k \in Keys |-> None]
    /\ size \in Sizes

\* An existing key is overwritten; a new key goes in, and evicts one other
\* entry when the cache is full.
Set(k, v, s) ==
    LET item == [val |-> v, ttl |-> s] IN
    /\ \/ /\ store[k] /= None \/ Cardinality(Held) < size
          /\ store' = [store EXCEPT ![k] = item]
       \/ /\ store[k] = None /\ Cardinality(Held) >= size
          /\ \E x \in Held : store' = [store EXCEPT ![k] = item, ![x] = None]
    /\ UNCHANGED size

Del(k) ==
    /\ store' = [store EXCEPT ![k] = None]
    /\ UNCHANGED size

\* One second passes: an item on its last second expires.
Tick ==
    /\ store' = [k \in Keys |->
                   IF store[k] = None \/ store[k].ttl = 0 THEN store[k]
                   ELSE IF store[k].ttl = 1 THEN None
                   ELSE [store[k] EXCEPT !.ttl = @ - 1]]
    /\ UNCHANGED size

\* The capacity becomes n; the cache keeps a part of what it holds that
\* fits in n.
Resize(n) ==
    /\ size' = n
    /\ \E keep \in SUBSET Held :
          /\ Cardinality(keep) <= n
          /\ store' = [k \in Keys |-> IF k \in keep THEN store[k] ELSE None]

Next ==
    \/ \E k \in Keys, v \in Values, s \in Secs : Set(k, v, s)
    \/ \E k \in Keys : Del(k)
    \/ Tick
    \/ \E n \in Sizes : Resize(n)

Spec == Init /\ [][Next]_<<store, size>>
=============================================================================
