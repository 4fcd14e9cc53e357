------------------------------ MODULE LruCache ------------------------------
(***************************************************************************)
(* An LRU cache of a fixed number of ids, the most recent first.           *)
(***************************************************************************)
EXTENDS Naturals, Sequences

CONSTANT Sid
VARIABLE cache

Init == \A i, j \in DOMAIN cache : cache[i] = cache[j] => i = j

(* The ids after a request: it is the most recent, and what was before it  *)
(* moves back by one; on a miss all do, and the last goes.                 *)
Requested(ids, x) ==
    [i \in DOMAIN ids |->
        IF i = 1 THEN x
        ELSE IF \E j \in 1 .. i - 1 : ids[j] = x THEN ids[i] ELSE ids[i - 1]]

Request(x) == cache' = Requested(cache, x)

Next == \E x \in Sid : Request(x)

Spec == Init /\ [][Next]_cache
=============================================================================
