---------------------------------- MODULE LRU ----------------------------------
(* The LRU cache of github.com/hashicorp/golang-lru/v2 as pkg/proxy/proxy.go    *)
(* uses it: a sequence of [key, value] entries, the most recently used first.   *)
(* Get and Add each run under the cache's own lock, so each is one step of the  *)
(* request that calls it.  The library is not part of the repository: these     *)
(* operators are external to it.                                                *)
EXTENDS Naturals, Sequences

(* The positions that hold key k: at most one in a well-formed cache. *)
Positions(cache, k) == {i \in 1..Len(cache) : cache[i].key = k}

Contains(cache, k) == Positions(cache, k) # {}

Position(cache, k) == CHOOSE i \in Positions(cache, k) : TRUE

Lookup(cache, k) == cache[Position(cache, k)].value

(* Entry e in front, everything that was before position i one place further,   *)
(* the entry at i gone.                                                         *)
ToFront(cache, i, e) ==
  [j \in 1..Len(cache) |-> IF j = 1 THEN e
                           ELSE IF j <= i THEN cache[j - 1]
                           ELSE cache[j]]

(* A hit makes the entry the most recently used one. *)
Touch(cache, k) == ToFront(cache, Position(cache, k), cache[Position(cache, k)])

(* Add replaces the value of a known key; a new key is put in front and the     *)
(* least recently used entry leaves a full cache.                               *)
Add(cache, k, v, size) ==
  LET e == [key |-> k, value |-> v]
  IN  IF Contains(cache, k) THEN ToFront(cache, Position(cache, k), e)
      ELSE IF Len(cache) < size
           THEN [j \in 1..(Len(cache) + 1) |-> IF j = 1 THEN e ELSE cache[j - 1]]
           ELSE ToFront(cache, Len(cache), e)

(* No key is stored twice, and the cache never outgrows its size. *)
UniqueKeys(cache) ==
  \A i, j \in 1..Len(cache) : cache[i].key = cache[j].key => i = j

WellFormed(cache, size) == UniqueKeys(cache) /\ Len(cache) <= size
================================================================================
