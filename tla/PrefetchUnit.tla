---------------------------- MODULE PrefetchUnit ----------------------------
(***************************************************************************)
(* The open prefetch unit, src/research/copper_prefetch_unit_open.sv: the  *)
(* pairs of source and value of the latest commits, and the number of      *)
(* prefetches in a queue that is outside of the unit.  queued is that      *)
(* queue: it takes a prefetch with each prefetch_valid, and with queue_pop *)
(* gives one up if it has one.  The unit is enabled.                       *)
(***************************************************************************)
EXTENDS Naturals

CONSTANTS Pair,             \* a source address with a value token
          ENTRIES, QUEUE_DEPTH,
          None              \* no commit, no demand; an invalid entry

VARIABLES table, insert_ptr, queue_count,
          queued            \* the prefetches in the queue

vars == <<table, insert_ptr, queue_count, queued>>

Demand == [pair : Pair, translation_ok : BOOLEAN, permission_ok : BOOLEAN]
Commit == [pair : Pair, speculative : BOOLEAN]

Hit(pair) == \E i \in 0 .. ENTRIES - 1 : table[i] = pair
QueueFull == queue_count >= QUEUE_DEPTH

PrefetchValid(demand) ==
    /\ demand # None
    /\ Hit(demand.pair)
    /\ demand.translation_ok /\ demand.permission_ok
    /\ ~QueueFull

-----------------------------------------------------------------------------
Init ==
    /\ table = [i \in 0 .. ENTRIES - 1 |-> None]
    /\ insert_ptr = 0
    /\ queue_count = 0 /\ queued = 0

Insert(commit) ==
    IF commit # None /\ ~commit.speculative
    THEN /\ table' = [table EXCEPT ![insert_ptr] = commit.pair]
         /\ insert_ptr' = (insert_ptr + 1) % ENTRIES
    ELSE UNCHANGED <<table, insert_ptr>>

(* Mutant: a pop is counted before a push.                                 *)
NextCountPopFirst(push, pop) ==
    CASE pop /\ queue_count # 0 -> queue_count - 1
      [] push /\ ~(pop /\ queue_count # 0) -> queue_count + 1
      [] OTHER -> queue_count

(* A pop in the cycle of a push is not counted.                            *)
NextCount(push, pop) ==
    CASE push -> queue_count + 1
      [] ~push /\ pop /\ queue_count # 0 -> queue_count - 1
      [] OTHER -> queue_count

Edge(commit, demand, pop) ==
    LET push == PrefetchValid(demand) IN
    /\ Insert(commit)
    /\ queue_count' = NextCount(push, pop)
    /\ queued' = queued + (IF push THEN 1 ELSE 0)
                        - (IF pop /\ queued # 0 THEN 1 ELSE 0)

Next == \E commit \in Commit \cup {None}, demand \in Demand \cup {None},
           pop \in BOOLEAN : Edge(commit, demand, pop)

Spec == Init /\ [][Next]_vars

-----------------------------------------------------------------------------
(* However pushes and pops meet, the count never falls below what is       *)
(* queued, so the queue is never asked to hold more than QUEUE_DEPTH.  The *)
(* count may run ahead of the queue: that is the price of this code.       *)
CountCovers == queued <= queue_count /\ queue_count <= QUEUE_DEPTH
=============================================================================
