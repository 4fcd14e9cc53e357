--------------------------- MODULE RevocationQueue --------------------------
(***************************************************************************)
(* One invalidation queue of src/research/                                 *)
(* copper_tlb_coherence_authority_filter.sv.  The filter has two, written  *)
(* out alike, for source lines and for target events: at an edge at most   *)
(* one item comes in, and one leaves if the consumer enables the drain.    *)
(* The variables are the registers <queue>_head, _tail and _count.         *)
(***************************************************************************)
EXTENDS Naturals, TLAPS

CONSTANTS
    Item,
    NoItem,     \* a valid bit that is low; also what reset leaves in a slot
    DEPTH       \* slots of the queue, at least one, which COUNT_W bits can count

VARIABLES queue, head, tail, count

-----------------------------------------------------------------------------
Slot == 0 .. DEPTH - 1

Bump(ptr) == IF ptr = DEPTH - 1 THEN 0 ELSE ptr + 1

(* (ptr + i) % DEPTH, where ptr is less than DEPTH and i at most DEPTH.     *)
SlotAfter(ptr, i) == IF ptr + i < DEPTH THEN ptr + i ELSE ptr + i - DEPTH

Init ==
    /\ queue = [s \in Slot |-> NoItem]
    /\ head = 0
    /\ tail = 0
    /\ count = 0

Dequeues(drain) == drain /\ count # 0

(* The item that is cleared in this cycle.                                 *)
Delivered(drain) == IF Dequeues(drain) THEN queue[head] ELSE NoItem

ReadyAfterDrain(drain) == count < DEPTH \/ Dequeues(drain)

Enqueues(item, drain) == item # NoItem /\ ReadyAfterDrain(drain)

NextTail(item, drain) == IF Enqueues(item, drain) THEN Bump(tail) ELSE tail

Edge(item, drain) ==
    /\ head' = IF Dequeues(drain) THEN Bump(head) ELSE head
    /\ tail' = NextTail(item, drain)
    /\ count' = count + (IF Enqueues(item, drain) THEN 1 ELSE 0)
                      - (IF Dequeues(drain) THEN 1 ELSE 0)
    /\ queue' = IF Enqueues(item, drain)
                THEN [queue EXCEPT ![tail] = item]
                ELSE queue

(* What the issue side compares its candidate with.                        *)
Queued == {queue[SlotAfter(head, i)] : i \in 0 .. count - 1}

-----------------------------------------------------------------------------
(* Registers have their types and pointers stay in the queue.              *)
TypeOK ==
    /\ queue \in [Slot -> Item \cup {NoItem}]
    /\ head \in Slot
    /\ tail \in Slot
    /\ count \in 0 .. DEPTH

(* Pointers and counter agree, and every counted slot has been written.    *)
Shape ==
    /\ tail = SlotAfter(head, count)
    /\ \A i \in 0 .. count - 1 : queue[SlotAfter(head, i)] # NoItem
-----------------------------------------------------------------------------
(* A slot after a slot is a slot.                                          *)
LEMMA SlotAfterType ==
    ASSUME DEPTH \in Nat \ {0}, NEW ptr \in Slot, NEW i \in 0 .. DEPTH
    PROVE  SlotAfter(ptr, i) \in Slot
  BY SMT DEF Slot, SlotAfter

(* After reset the queue is well-typed and in shape.                       *)
LEMMA QueueInit ==
    ASSUME DEPTH \in Nat \ {0}, Init
    PROVE  TypeOK /\ Shape
<1>1. head = 0 /\ tail = 0 /\ count = 0
  BY DEF Init
<1>2. 0 \in Slot /\ count \in 0 .. DEPTH /\ 0 .. count - 1 = {} /\ SlotAfter(0, 0) = 0
  BY <1>1 DEF Slot, SlotAfter
<1>3. queue \in [Slot -> Item \cup {NoItem}]
  BY DEF Init
<1> QED
  BY <1>1, <1>2, <1>3 DEF TypeOK, Shape

(* What an edge does to the pointers: those of the old queue are numbered  *)
(* from the old head, those of the new one from the new head.              *)
LEMMA PointersAfterEdge ==
    ASSUME DEPTH \in Nat \ {0}, TypeOK, Shape,
           NEW item \in Item \cup {NoItem}, NEW drain \in BOOLEAN,
           Edge(item, drain)
    PROVE  LET out == IF Dequeues(drain) THEN 1 ELSE 0
               in == IF Enqueues(item, drain) THEN 1 ELSE 0
           IN  /\ head' \in Slot /\ tail' \in Slot /\ count' \in 0 .. DEPTH
               /\ count' = count + in - out
               /\ out <= count
               /\ tail' = SlotAfter(head', count')
               /\ \A i \in 0 .. count' - 1 :
                     SlotAfter(head', i) = SlotAfter(head, i + out)
               /\ in = 1 => tail = SlotAfter(head', count' - 1)
               /\ \A i \in 0 .. count' - in - 1 :
                     in = 1 => SlotAfter(head', i) # tail
<1>1. /\ head \in 0 .. DEPTH - 1 /\ tail \in 0 .. DEPTH - 1 /\ count \in 0 .. DEPTH
      /\ tail = SlotAfter(head, count)
  BY DEF TypeOK, Shape, Slot
<1>2. CASE Dequeues(drain) /\ Enqueues(item, drain)
  BY <1>1, <1>2, SMTT(30)
     DEF Edge, NextTail, Dequeues, Enqueues, ReadyAfterDrain, Slot, SlotAfter, Bump
<1>3. CASE Dequeues(drain) /\ ~Enqueues(item, drain)
  BY <1>1, <1>3, SMTT(30)
     DEF Edge, NextTail, Dequeues, Enqueues, ReadyAfterDrain, Slot, SlotAfter, Bump
<1>4. CASE ~Dequeues(drain) /\ Enqueues(item, drain)
  BY <1>1, <1>4, SMTT(30)
     DEF Edge, NextTail, Dequeues, Enqueues, ReadyAfterDrain, Slot, SlotAfter, Bump
<1>5. CASE ~Dequeues(drain) /\ ~Enqueues(item, drain)
  BY <1>1, <1>5, SMTT(30)
     DEF Edge, NextTail, Dequeues, Enqueues, ReadyAfterDrain, Slot, SlotAfter, Bump
<1> QED
  BY <1>2, <1>3, <1>4, <1>5

(* One edge: types and shape are preserved, an item that finds room is     *)
(* queued, and only the delivered item leaves.                             *)
THEOREM QueueStep ==
    ASSUME DEPTH \in Nat \ {0}, NoItem \notin Item, TypeOK, Shape,
           NEW item \in Item \cup {NoItem}, NEW drain \in BOOLEAN,
           Edge(item, drain)
    PROVE  /\ TypeOK'
           /\ Shape'
           /\ Enqueues(item, drain) => item \in Queued'
           /\ Queued \ {Delivered(drain)} \subseteq Queued'
<1> DEFINE out == IF Dequeues(drain) THEN 1 ELSE 0
           in == IF Enqueues(item, drain) THEN 1 ELSE 0
<1>1. /\ head' \in Slot /\ tail' \in Slot /\ count' \in 0 .. DEPTH
      /\ count' = count + in - out
      /\ out <= count
      /\ tail' = SlotAfter(head', count')
      /\ \A i \in 0 .. count' - 1 : SlotAfter(head', i) = SlotAfter(head, i + out)
      /\ in = 1 => tail = SlotAfter(head', count' - 1)
      /\ \A i \in 0 .. count' - in - 1 : in = 1 => SlotAfter(head', i) # tail
  BY PointersAfterEdge
<1>2. /\ head \in Slot /\ tail \in Slot /\ count \in 0 .. DEPTH
      /\ queue \in [Slot -> Item \cup {NoItem}]
  BY DEF TypeOK
<1>3. /\ in \in {0, 1} /\ out \in {0, 1}
      /\ in = 1 <=> Enqueues(item, drain)
      /\ out = 1 <=> Dequeues(drain)
  OBVIOUS
<1>4. queue' = IF in = 1 THEN [queue EXCEPT ![tail] = item] ELSE queue
  BY <1>3 DEF Edge
<1>5. queue' \in [Slot -> Item \cup {NoItem}]
  BY <1>2, <1>4
<1>6. \A i \in 0 .. count - out - 1 :
         /\ i \in 0 .. count' - 1
         /\ i + out \in 0 .. count - 1
         /\ queue'[SlotAfter(head', i)] = queue[SlotAfter(head, i + out)]
  <2> SUFFICES ASSUME NEW i \in 0 .. count - out - 1
               PROVE  /\ i \in 0 .. count' - 1
                      /\ i + out \in 0 .. count - 1
                      /\ queue'[SlotAfter(head', i)] = queue[SlotAfter(head, i + out)]
    OBVIOUS
  <2>1. /\ i \in 0 .. count' - 1 /\ i + out \in 0 .. count - 1
        /\ i \in 0 .. count' - in - 1 /\ i \in 0 .. DEPTH
    BY <1>1, <1>2, <1>3
  <2>2. SlotAfter(head', i) = SlotAfter(head, i + out)
    BY <1>1, <2>1
  <2>3. SlotAfter(head', i) \in Slot
    BY <1>1, <2>1, SlotAfterType
  <2>4. in = 1 => SlotAfter(head', i) # tail
    BY <1>1, <2>1
  <2> QED
    BY <1>2, <1>4, <2>1, <2>2, <2>3, <2>4
<1>7. in = 1 => /\ count' - 1 \in 0 .. count' - 1
                /\ queue'[SlotAfter(head', count' - 1)] = item
  <2>1. in = 1 => count' - 1 \in 0 .. count' - 1
    BY <1>1, <1>2, <1>3
  <2>2. in = 1 => queue'[tail] = item
    BY <1>2, <1>4
  <2> QED
    BY <1>1, <2>1, <2>2
<1>8. \A i \in 0 .. count' - 1 :
         \/ i \in 0 .. count - out - 1
         \/ in = 1 /\ i = count' - 1
  BY <1>1, <1>2, <1>3
<1>9. Shape'
  <2>1. \A i \in 0 .. count' - 1 : queue'[SlotAfter(head', i)] # NoItem
    BY <1>3, <1>6, <1>7, <1>8 DEF Shape, Enqueues
  <2> QED
    BY <1>1, <2>1 DEF Shape
<1>10. Enqueues(item, drain) => item \in Queued'
  BY <1>3, <1>7 DEF Queued
<1>11. Queued \ {Delivered(drain)} \subseteq Queued'
  <2> SUFFICES ASSUME NEW i \in 0 .. count - 1,
                      queue[SlotAfter(head, i)] # Delivered(drain)
               PROVE  queue[SlotAfter(head, i)] \in Queued'
    BY DEF Queued
  <2>1. SlotAfter(head, 0) = head
    BY <1>2 DEF SlotAfter, Slot
  <2>2. out = 1 => i # 0
    BY <1>3, <2>1 DEF Delivered
  <2>3. i - out \in 0 .. count - out - 1 /\ (i - out) + out = i
    BY <1>2, <1>3, <2>2
  <2>4. /\ i - out \in 0 .. count' - 1
        /\ queue'[SlotAfter(head', i - out)] = queue[SlotAfter(head, i)]
    BY <1>6, <2>3
  <2> QED
    BY <2>4 DEF Queued
<1> QED
  BY <1>1, <1>5, <1>9, <1>10, <1>11 DEF TypeOK
=============================================================================
