---------------------------- MODULE TieredCache ----------------------------
(***************************************************************************)
(* xcache.Multi: a composite Cache over an ordered list of caches.         *)
(*                                                                         *)
(* Several application goroutines (Clients) call Save, Load, TTL and       *)
(* Stats on the same Multi concurrently.  Each call walks the tiers one    *)
(* backend call at a time, so calls of different clients interleave at the *)
(* granularity of single backend calls.  Every backend call is atomic (a   *)
(* freecache call under its segment lock, or one Redis command), may fail, *)
(* and a failed write may still have been applied (a Redis timeout after   *)
(* the server executed the SET).  Entries with a finite TTL may expire at  *)
(* any moment.  The model follows one key: Multi handles keys independently.*)
(*                                                                         *)
(* The ghost variable `life` records, per value, the longest expiry any    *)
(* Multi.Save gave it; it is not part of the code and lets RepairTTLBound  *)
(* compare a repaired entry to the lifetimes its value was saved with.     *)
(***************************************************************************)
EXTENDS Integers, FiniteSets

CONSTANTS
    N,        \* number of caches given to NewMulti
    Clients,  \* concurrent callers of the Multi
    Values,   \* values a caller may save
    Exps,     \* expiry arguments of Save: < 0 delete, 0 NoExpire, > 0 a TTL
    NoValue   \* absence of an entry / of a value

ASSUME N \in Nat \ {0} /\ NoValue \notin Values /\ Exps \subseteq Int

Tiers == 0 .. N - 1

\* A Cache TTL: 0 is NoExpire, a positive number a finite lifetime.
TTLs == {e \in Exps : e >= 0}

Entry == [val : Values, ttl : TTLs]

\* Outcomes of one backend call.  "lost" is an error returned although the
\* write was applied (reply lost or timed out after the server executed it).
WriteOutcomes == {"ok", "fail", "lost"}
ReadOutcomes  == {"ok", "fail"}

Ops == {"none", "save", "load", "ttl", "stats"}
Errs == {"nil", "notfound", "failed"}
Obs == {"hit", "miss", "fail"}

Result == [op : Ops, err : Errs, val : Values \cup {NoValue},
           n : Int, obs : SUBSET Obs, fresh : BOOLEAN]

NoResult == [op |-> "none", err |-> "nil", val |-> NoValue, n |-> 0,
             obs |-> {}, fresh |-> FALSE]

VARIABLES
    store,      \* store[i]: the key's entry in cache i, or NoValue
    pc,         \* pc[c]: where client c is in its current Multi call
    idx,        \* idx[c]: loop index over cache.caches
    arg,        \* arg[c]: value and expiry of the Save being executed
    mErr,       \* mErr[c]: the *xerr.MultiError is non-nil
    found,      \* found[c]: the entry a Load hit
    rttl,       \* rttl[c]: TTL read from the winning cache for read-repair
    acc,        \* acc[c]: mStats accumulated by Stats (Keys field)
    obs,        \* obs[c]: what the backends answered in this call (ghost)
    ret,        \* ret[c]: what the last completed call returned
    \* ghost state for ReadAfterSave
    clean,      \* the last Save returned nil, overlapped no Save, and
                \* nothing expired since
    lastSaved,  \* arguments of that Save
    overlapped, \* overlapped[c]: another Save or an expiry happened during
                \* c's Save
    fresh,      \* fresh[c]: c's Load started while clean held and no Save
                \* or expiry happened since
    life        \* life[v]: longest expiry a Save gave v (-1: never saved)

vars == <<store, pc, idx, arg, mErr, found, rttl, acc, obs, ret,
          clean, lastSaved, overlapped, fresh, life>>

TypeOK ==
    /\ store \in [Tiers -> Entry \cup {NoValue}]
    /\ pc \in [Clients -> {"idle", "save", "load", "loadttl", "repair",
                            "ttl", "stats"}]
    /\ idx \in [Clients -> -1 .. N]
    /\ arg \in [Clients -> [val : Values \cup {NoValue}, exp : Exps \cup {-1}]]
    /\ mErr \in [Clients -> BOOLEAN]
    /\ found \in [Clients -> Entry \cup {NoValue}]
    /\ rttl \in [Clients -> Exps \cup {-1}]
    /\ acc \in [Clients -> 0 .. N]
    /\ obs \in [Clients -> SUBSET Obs]
    /\ ret \in [Clients -> Result]
    /\ clean \in BOOLEAN
    /\ lastSaved \in [val : Values \cup {NoValue}, exp : Exps \cup {-1}]
    /\ overlapped \in [Clients -> BOOLEAN]
    /\ fresh \in [Clients -> BOOLEAN]
    /\ life \in [Values -> TTLs \cup {-1}]

-----------------------------------------------------------------------------
(* The Cache contract of one backend, applied to the key's entry.          *)

\* Cache.Save: a negative expiry deletes the key.
CacheSave(v, exp) == IF exp < 0 THEN NoValue ELSE [val |-> v, ttl |-> exp]

\* Cache.TTL: negative when the key is not found, else its TTL.
CacheTTL(e) == IF e = NoValue THEN -1 ELSE e.ttl

\* Cache.Stats: the Keys counter, the only field the model tracks.
CacheKeys(e) == IF e = NoValue THEN 0 ELSE 1

\* The state of cache i after a write with the given outcome.
Written(i, e, outcome) == IF outcome = "fail" THEN store[i] ELSE e

SaveInFlight(c) == pc[c] = "save"

NoArg == [val |-> NoValue, exp |-> -1]

\* The call returns r; its local variables go out of scope (acc is reset
\* where Stats declares mStats).
Return(c, r) ==
    /\ pc' = [pc EXCEPT ![c] = "idle"]
    /\ ret' = [ret EXCEPT ![c] = r]
    /\ idx' = [idx EXCEPT ![c] = 0]
    /\ arg' = [arg EXCEPT ![c] = NoArg]
    /\ mErr' = [mErr EXCEPT ![c] = FALSE]
    /\ found' = [found EXCEPT ![c] = NoValue]
    /\ rttl' = [rttl EXCEPT ![c] = -1]
    /\ obs' = [obs EXCEPT ![c] = {}]
    /\ UNCHANGED acc

Init ==
    /\ store = [i \in Tiers |-> NoValue]
    /\ pc = [c \in Clients |-> "idle"]
    /\ idx = [c \in Clients |-> 0]
    /\ arg = [c \in Clients |-> NoArg]
    /\ mErr = [c \in Clients |-> FALSE]
    /\ found = [c \in Clients |-> NoValue]
    /\ rttl = [c \in Clients |-> -1]
    /\ acc = [c \in Clients |-> 0]
    /\ obs = [c \in Clients |-> {}]
    /\ ret = [c \in Clients |-> NoResult]
    /\ clean = TRUE
    /\ lastSaved = [val |-> NoValue, exp |-> -1]
    /\ overlapped = [c \in Clients |-> FALSE]
    /\ fresh = [c \in Clients |-> FALSE]
    /\ life = [v \in Values |-> -1]

\* Start of a call: var mErr *xerr.MultiError (nil).
Begin(c, op) ==
    /\ pc[c] = "idle"
    /\ pc' = [pc EXCEPT ![c] = op]
    /\ idx' = [idx EXCEPT ![c] = 0]
    /\ mErr' = [mErr EXCEPT ![c] = FALSE]
    /\ obs' = [obs EXCEPT ![c] = {}]

-----------------------------------------------------------------------------
(* Multi.Save: Save on every cache, collecting errors; ErrOrNil.           *)

SaveBegin(c, v, exp) ==
    /\ Begin(c, "save")
    /\ arg' = [arg EXCEPT ![c] = [val |-> v, exp |-> exp]]
    /\ clean' = FALSE
    /\ overlapped' = [d \in Clients |->
                        IF d = c THEN \E o \in Clients \ {c} : SaveInFlight(o)
                        ELSE overlapped[d] \/ SaveInFlight(d)]
    /\ fresh' = [d \in Clients |-> FALSE]
    \* the previous result of c is no longer observed; no earlier Load
    \* result is a read after the Save completing next
    /\ ret' = [d \in Clients |->
                 IF d = c THEN NoResult ELSE [ret[d] EXCEPT !.fresh = FALSE]]
    \* ghost: the longest lifetime v was ever saved with (0 is NoExpire)
    /\ life' = IF exp < 0 \/ life[v] = 0 \/ (exp > 0 /\ exp <= life[v])
               THEN life ELSE [life EXCEPT ![v] = exp]
    /\ UNCHANGED <<store, found, rttl, acc, lastSaved>>

\* Mutant: a failed c.Save not added to mErr.
SaveStepIgnoreFail(c) ==
    /\ pc[c] = "save"
    /\ idx[c] < N
    /\ \E o \in WriteOutcomes :
        LET i == idx[c] IN
        /\ store' = [store EXCEPT ![i] =
               Written(i, CacheSave(arg[c].val, arg[c].exp), o)]
        /\ mErr' = [mErr EXCEPT ![c] = @ \/ o = "lost"]
        /\ obs' = [obs EXCEPT ![c] = IF o = "ok" THEN @ ELSE @ \cup {"fail"}]
    /\ idx' = [idx EXCEPT ![c] = @ + 1]
    /\ UNCHANGED <<pc, arg, found, rttl, acc, ret, clean, lastSaved,
                   overlapped, fresh, life>>

SaveStep(c) ==
    /\ pc[c] = "save"
    /\ idx[c] < N
    /\ \E o \in WriteOutcomes :
        LET i == idx[c] IN
        /\ store' = [store EXCEPT ![i] =
               Written(i, CacheSave(arg[c].val, arg[c].exp), o)]
        /\ mErr' = [mErr EXCEPT ![c] = @ \/ o /= "ok"]
        /\ obs' = [obs EXCEPT ![c] = IF o = "ok" THEN @ ELSE @ \cup {"fail"}]
    /\ idx' = [idx EXCEPT ![c] = @ + 1]
    /\ UNCHANGED <<pc, arg, found, rttl, acc, ret, clean, lastSaved,
                   overlapped, fresh, life>>

SaveReturn(c) ==
    /\ pc[c] = "save"
    /\ idx[c] = N
    /\ Return(c, [NoResult EXCEPT !.op = "save",
                    !.err = IF mErr[c] THEN "failed" ELSE "nil",
                    !.obs = obs[c]])
    /\ clean' = (~mErr[c] /\ ~overlapped[c])
    /\ lastSaved' = IF ~mErr[c] /\ ~overlapped[c] THEN arg[c] ELSE lastSaved
    /\ UNCHANGED <<store, overlapped, fresh, life>>

-----------------------------------------------------------------------------
(* Multi.Load: scan the caches in order.  On a hit at idx > 0, ask the     *)
(* winning cache for the key's TTL; if that succeeds, Save the value with  *)
(* that TTL into caches idx-1 .. 0 (errors discarded).  NotFound answers   *)
(* are skipped, other errors collected; an exhausted scan returns the      *)
(* collected error, or ErrNotFound if there is none.                       *)

LoadBegin(c) ==
    /\ Begin(c, "load")
    /\ ret' = [ret EXCEPT ![c] = NoResult]
    /\ fresh' = [fresh EXCEPT ![c] = clean]
    /\ UNCHANGED <<store, arg, found, rttl, acc, clean, lastSaved,
                   overlapped, life>>

\* c.Load on cache idx: a hit, ErrNotFound, or another error.
LoadStep(c) ==
    /\ pc[c] = "load"
    /\ idx[c] < N
    /\ LET i == idx[c] IN
       \/ /\ store[i] /= NoValue
          /\ found' = [found EXCEPT ![c] = store[i]]
          /\ obs' = [obs EXCEPT ![c] = @ \cup {"hit"}]
          \* idx > 0: query the TTL; idx = 0: nothing to repair
          /\ pc' = [pc EXCEPT ![c] = IF i > 0 THEN "loadttl" ELSE "repair"]
          /\ idx' = [idx EXCEPT ![c] = IF i > 0 THEN i ELSE -1]
          /\ UNCHANGED mErr
       \/ /\ store[i] = NoValue
          /\ obs' = [obs EXCEPT ![c] = @ \cup {"miss"}]
          /\ idx' = [idx EXCEPT ![c] = @ + 1]
          /\ UNCHANGED <<pc, found, mErr>>
       \/ /\ mErr' = [mErr EXCEPT ![c] = TRUE]
          /\ obs' = [obs EXCEPT ![c] = @ \cup {"fail"}]
          /\ idx' = [idx EXCEPT ![c] = @ + 1]
          /\ UNCHANGED <<pc, found>>
    /\ UNCHANGED <<store, arg, rttl, acc, ret, clean, lastSaved,
                   overlapped, fresh, life>>

\* Mutant: read-repair saves with NoExpire instead of the winner's TTL.
LoadTTLNoExpire(c) ==
    /\ pc[c] = "loadttl"
    /\ pc' = [pc EXCEPT ![c] = "repair"]
    /\ \E o \in ReadOutcomes :
        /\ rttl' = [rttl EXCEPT ![c] = IF o = "ok" THEN 0 ELSE @]
        /\ idx' = [idx EXCEPT ![c] = IF o = "ok" THEN @ - 1 ELSE -1]
    /\ UNCHANGED <<store, arg, mErr, found, acc, obs, ret, clean, lastSaved,
                   overlapped, fresh, life>>

\* c.TTL on the winning cache.  On error the repair is skipped.
LoadTTL(c) ==
    /\ pc[c] = "loadttl"
    /\ pc' = [pc EXCEPT ![c] = "repair"]
    /\ \E o \in ReadOutcomes :
        /\ rttl' = [rttl EXCEPT ![c] = IF o = "ok" THEN CacheTTL(store[idx[c]])
                                                      ELSE @]
        /\ idx' = [idx EXCEPT ![c] = IF o = "ok" THEN @ - 1 ELSE -1]
    /\ UNCHANGED <<store, arg, mErr, found, acc, obs, ret, clean, lastSaved,
                   overlapped, fresh, life>>

\* _ = cache.caches[i].Save(ctx, key, val, ttl), i descending.
RepairStep(c) ==
    /\ pc[c] = "repair"
    /\ idx[c] >= 0
    /\ \E o \in WriteOutcomes :
        LET i == idx[c] IN
        store' = [store EXCEPT ![i] =
            Written(i, CacheSave(found[c].val, rttl[c]), o)]
    /\ idx' = [idx EXCEPT ![c] = @ - 1]
    /\ UNCHANGED <<pc, arg, mErr, found, rttl, acc, obs, ret, clean,
                   lastSaved, overlapped, fresh, life>>

LoadReturnHit(c) ==
    /\ pc[c] = "repair"
    /\ idx[c] = -1
    /\ Return(c, [NoResult EXCEPT !.op = "load", !.val = found[c].val,
                    !.obs = obs[c], !.fresh = fresh[c]])
    /\ UNCHANGED <<store, clean, lastSaved, overlapped, fresh, life>>

\* Mutant: an exhausted scan returns ErrNotFound even if a cache failed.
LoadReturnMissNoErr(c) ==
    /\ pc[c] = "load"
    /\ idx[c] = N
    /\ Return(c, [NoResult EXCEPT !.op = "load", !.err = "notfound",
                    !.obs = obs[c], !.fresh = fresh[c]])
    /\ UNCHANGED <<store, clean, lastSaved, overlapped, fresh, life>>

LoadReturnMiss(c) ==
    /\ pc[c] = "load"
    /\ idx[c] = N
    /\ Return(c, [NoResult EXCEPT !.op = "load",
                    !.err = IF mErr[c] THEN "failed" ELSE "notfound",
                    !.obs = obs[c], !.fresh = fresh[c]])
    /\ UNCHANGED <<store, clean, lastSaved, overlapped, fresh, life>>

-----------------------------------------------------------------------------
(* Multi.TTL: the first non-negative TTL wins; errors are collected.       *)

TTLBegin(c) ==
    /\ Begin(c, "ttl")
    /\ ret' = [ret EXCEPT ![c] = NoResult]
    /\ UNCHANGED <<store, arg, found, rttl, acc, clean, lastSaved,
                   overlapped, fresh, life>>

TTLStep(c) ==
    /\ pc[c] = "ttl"
    /\ idx[c] < N
    /\ LET t == CacheTTL(store[idx[c]]) IN
       \/ /\ mErr' = [mErr EXCEPT ![c] = TRUE]
          /\ obs' = [obs EXCEPT ![c] = @ \cup {"fail"}]
          /\ idx' = [idx EXCEPT ![c] = @ + 1]
          /\ UNCHANGED <<pc, ret, arg, found, rttl, acc>>
       \/ /\ t >= 0
          /\ Return(c, [NoResult EXCEPT !.op = "ttl", !.n = t,
                          !.obs = obs[c] \cup {"hit"}])
       \/ /\ t < 0
          /\ obs' = [obs EXCEPT ![c] = @ \cup {"miss"}]
          /\ idx' = [idx EXCEPT ![c] = @ + 1]
          /\ UNCHANGED <<pc, ret, mErr, arg, found, rttl, acc>>
    /\ UNCHANGED <<store, clean, lastSaved, overlapped, fresh, life>>

TTLReturn(c) ==
    /\ pc[c] = "ttl"
    /\ idx[c] = N
    /\ Return(c, [NoResult EXCEPT !.op = "ttl", !.n = -1,
                    !.err = IF mErr[c] THEN "failed" ELSE "nil",
                    !.obs = obs[c]])
    /\ UNCHANGED <<store, clean, lastSaved, overlapped, fresh, life>>

-----------------------------------------------------------------------------
(* Multi.Stats: sum the stats of the caches that answered; any error makes *)
(* the result Stats{} together with the collected error.                   *)

\* Mutant: mStats is not zeroed at the start of Stats (kept across calls).
StatsBeginNoReset(c) ==
    /\ Begin(c, "stats")
    /\ ret' = [ret EXCEPT ![c] = NoResult]
    /\ UNCHANGED <<store, arg, found, rttl, acc, clean, lastSaved,
                   overlapped, fresh, life>>

StatsBegin(c) ==
    /\ Begin(c, "stats")
    /\ ret' = [ret EXCEPT ![c] = NoResult]
    /\ acc' = [acc EXCEPT ![c] = 0]
    /\ UNCHANGED <<store, arg, found, rttl, clean, lastSaved,
                   overlapped, fresh, life>>

StatsStep(c) ==
    /\ pc[c] = "stats"
    /\ idx[c] < N
    /\ \E o \in ReadOutcomes :
        /\ mErr' = [mErr EXCEPT ![c] = @ \/ o = "fail"]
        /\ acc' = [acc EXCEPT ![c] =
                     IF o = "ok" THEN @ + CacheKeys(store[idx[c]]) ELSE @]
        /\ obs' = [obs EXCEPT ![c] = IF o = "ok" THEN @ ELSE @ \cup {"fail"}]
    /\ idx' = [idx EXCEPT ![c] = @ + 1]
    /\ UNCHANGED <<store, pc, arg, found, rttl, ret, clean, lastSaved,
                   overlapped, fresh, life>>

StatsReturn(c) ==
    /\ pc[c] = "stats"
    /\ idx[c] = N
    /\ Return(c, [NoResult EXCEPT !.op = "stats",
                    !.err = IF mErr[c] THEN "failed" ELSE "nil",
                    !.n = IF mErr[c] THEN 0 ELSE acc[c],
                    !.obs = obs[c]])
    /\ UNCHANGED <<store, clean, lastSaved, overlapped, fresh, life>>

-----------------------------------------------------------------------------
(* A backend drops an entry whose TTL elapsed.                             *)
Expire(i) ==
    /\ store[i] /= NoValue
    /\ store[i].ttl > 0
    /\ store' = [store EXCEPT ![i] = NoValue]
    /\ clean' = FALSE
    /\ fresh' = [c \in Clients |-> FALSE]
    /\ overlapped' = [c \in Clients |-> overlapped[c] \/ SaveInFlight(c)]
    /\ UNCHANGED <<pc, idx, arg, mErr, found, rttl, acc, obs, ret,
                   lastSaved, life>>

Next ==
    \/ \E c \in Clients :
        \/ \E v \in Values, e \in Exps : SaveBegin(c, v, e)
        \/ SaveStep(c) \/ SaveReturn(c)
        \/ LoadBegin(c) \/ LoadStep(c) \/ LoadTTL(c) \/ RepairStep(c)
        \/ LoadReturnHit(c) \/ LoadReturnMiss(c)
        \/ TTLBegin(c) \/ TTLStep(c) \/ TTLReturn(c)
        \/ StatsBegin(c) \/ StatsStep(c) \/ StatsReturn(c)
    \/ \E i \in Tiers : Expire(i)

Spec == Init /\ [][Next]_vars

-----------------------------------------------------------------------------
(* Properties                                                              *)

\* Error aggregation of every Multi method (Save, Load, TTL, Stats): a call
\* reports success exactly when the backends' answers justify it.  Save
\* returns nil iff no cache failed; Load returns a value only after a hit,
\* ErrNotFound only when every cache answered "not found", and the
\* collected error when some cache failed and none hit (failure wins over
\* a clean miss); TTL returns a non-negative TTL with nil, and -1 with nil
\* only when no cache failed; Stats returns Stats{} whenever it returns an
\* error and an error whenever a cache failed.
ErrorAggregation ==
    \A c \in Clients :
        LET r == ret[c] IN
        /\ r.op = "save" => (r.err = "nil" <=> "fail" \notin r.obs)
        /\ r.op = "load" =>
             /\ r.err = "nil" => "hit" \in r.obs /\ r.val /= NoValue
             /\ r.err = "notfound" => r.obs = {"miss"}
             /\ r.err = "failed" => "fail" \in r.obs /\ "hit" \notin r.obs
        /\ r.op = "ttl" =>
             /\ r.n >= 0 => r.err = "nil"
             /\ r.err = "failed" <=> (r.n < 0 /\ "fail" \in r.obs)
        /\ r.op = "stats" =>
             /\ r.err = "failed" <=> "fail" \in r.obs
             /\ r.err = "failed" => r.n = 0

\* Read after save (spec: "after Save(k, v, ttl) succeeds on all backends,
\* Load(k) returns v"): a Load that started after a Save returned nil, with
\* no other Save overlapping that Save and no Save or expiry since, and that
\* did not fail, returns the saved value (ErrNotFound after a delete).
ReadAfterSave ==
    \A c \in Clients :
        LET r == ret[c] IN
        (r.op = "load" /\ r.fresh /\ r.err /= "failed") =>
            IF lastSaved.exp < 0 THEN r.err = "notfound"
            ELSE r.err = "nil" /\ r.val = lastSaved.val

\* Read-repair keeps the lifetime of a value (spec: the repaired copy has a
\* TTL <= the TTL of the copy it was read from): no cache holds a value
\* with a longer TTL than any Multi.Save gave that value; 0 is NoExpire,
\* the longest.
WithinLife(e) == life[e.val] = 0 \/ (e.ttl > 0 /\ e.ttl <= life[e.val])

RepairTTLBound ==
    \A i \in Tiers : store[i] /= NoValue => WithinLife(store[i])

=============================================================================
