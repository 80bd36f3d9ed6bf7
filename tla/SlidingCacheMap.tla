--------------------------- MODULE SlidingCacheMap ---------------------------
(***************************************************************************)
(* The cache with sliding expiration                                       *)
(* (src/src/util/sliding_cache_map.{h,cc}), as operators on a cache value; *)
(* each method holds cache_lock from beginning to end.  An entry carries   *)
(* the time that is left to its expiry instead of the expiry itself, so    *)
(* that no clock is needed; the time left is not followed below -1.  All   *)
(* callers use the default time to live.                                   *)
(***************************************************************************)
EXTENDS Integers, FiniteSets

CONSTANTS Keys, Values,
          TTL,       \* DEFAULT_EXPIRATION_SEC, in ticks
          NoEntry    \* a key that is not in the cache

Entries == [value : Values, left : -1..TTL]
Caches  == [Keys -> Entries \cup {NoEntry}]

EmptyCache == [k \in Keys |-> NoEntry]

(* entry.expiry > now: the test of Get, Find and putIfAbsent.              *)
Live(c, k) == IF c[k] = NoEntry THEN FALSE ELSE c[k].left > 0

(* entry.expiry < now: the test of Size, which keeps an entry that expires *)
(* now.                                                                    *)
Expired(c, k) == IF c[k] = NoEntry THEN FALSE ELSE c[k].left < 0

Put(c, k, v) == [c EXCEPT ![k] = [value |-> v, left |-> TTL]]

(* What Get and Find do to the entry they look at.                         *)
Touched(c, k) ==
    [c EXCEPT ![k] = IF Live(c, k) THEN [value |-> c[k].value, left |-> TTL]
                                   ELSE NoEntry]

PutIfAbsent(c, k, v) == IF Live(c, k) THEN Touched(c, k) ELSE Put(c, k, v)

(* Find, called for each key of a set.                                     *)
AfterFinds(c, S) == [k \in Keys |-> IF k \in S THEN Touched(c, k)[k] ELSE c[k]]

(* Mutant of AfterSize: it counts and keeps everything.                    *)
SizeKeeps(c) == c

AfterSize(c) == [k \in Keys |-> IF Expired(c, k) THEN NoEntry ELSE c[k]]

Size(c) == Cardinality({k \in Keys : AfterSize(c)[k] # NoEntry})

Clear(c) == EmptyCache

(* The clock advances by one tick.                                         *)
Tick(c) ==
    [k \in Keys |-> IF c[k] = NoEntry THEN NoEntry
                    ELSE [c[k] EXCEPT !.left = IF @ < 0 THEN -1 ELSE @ - 1]]
=============================================================================
