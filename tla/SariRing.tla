------------------------------ MODULE SariRing ------------------------------
(***************************************************************************)
(* SARI-RQ, the ring-queued revoker of src/research/                       *)
(* copper_sari_ring_revoker.sv.  DMA writes, invalidating or writing CHI   *)
(* snoops and I/O writes name source lines whose pointer proofs must die.  *)
(* They arrive in bursts of up to three per clock, are admitted into a     *)
(* circular queue, and one queued line is cleared per clock.  A burst that *)
(* may not fit is dropped as a whole and sets overflow_sticky, which holds *)
(* the prefetcher for good.                                                *)
(*                                                                         *)
(* A step is one rising clock edge.  The variables have the names of the   *)
(* registers; owed is a history variable.                                  *)
(***************************************************************************)
EXTENDS Naturals, Sequences

CONSTANTS
    SourceLine,   \* source line tags
    NoLine,       \* a valid bit that is low; also what reset leaves in a slot
    DEPTH         \* slots of the queue, which COUNT_W bits can count

ASSUME DepthAssumption == DEPTH \in Nat \ {0}
ASSUME NoLineAssumption == NoLine \notin SourceLine

VARIABLES
    queue, head, tail, count, overflow_sticky,
    owed          \* lines revoked by an event and not cleared since

vars == <<queue, head, tail, count, overflow_sticky, owed>>

-----------------------------------------------------------------------------
Slot == 0 .. DEPTH - 1
OptLine == SourceLine \cup {NoLine}

Bump(ptr) == IF ptr = DEPTH - 1 THEN 0 ELSE ptr + 1

(* The slot i places after ptr, and how many places slot s is after ptr.   *)
SlotAfter(ptr, i) == IF ptr + i < DEPTH THEN ptr + i ELSE ptr + i - DEPTH
Places(ptr, s) == IF ptr <= s THEN s - ptr ELSE s + DEPTH - ptr

(* wr0, wr1, wr2: the valid events of a cycle, in the order DMA, CHI, I/O. *)
Packed(dma, chi, io) ==
    LET Event(line) == IF line = NoLine THEN << >> ELSE <<line>>
    IN  Event(dma) \o Event(chi) \o Event(io)

(* source_clear_line_tag: the line whose proofs are cleared in this cycle. *)
ClearLine == IF count # 0 THEN queue[head] ELSE NoLine

SpaceAfterDequeue == DEPTH - count + (IF count # 0 THEN 1 ELSE 0)

SourceEventsReady == SpaceAfterDequeue >= 3

(* dmp_revocation_hold without the events arriving in the same cycle.      *)
RevocationHold == overflow_sticky \/ count # 0

-----------------------------------------------------------------------------
Init ==
    /\ queue = [s \in Slot |-> NoLine]
    /\ head = 0
    /\ tail = 0
    /\ count = 0
    /\ overflow_sticky = FALSE
    /\ owed = {}

Drained == IF count # 0 THEN count - 1 ELSE count

(* Every edge clears the line at the head, if there is one.                *)
Dequeue == head' = IF count # 0 THEN Bump(head) ELSE head

LinesOf(burst) == {burst[k] : k \in 1 .. Len(burst)}

(* Mutant: the third write port is not connected.                          *)
AdmitTwoPorts(burst) ==
    /\ SourceEventsReady
    /\ Dequeue
    /\ queue' = [s \in Slot |-> IF Places(tail, s) < Len(burst) /\ Places(tail, s) < 2
                                THEN burst[Places(tail, s) + 1]
                                ELSE queue[s]]
    /\ tail' = SlotAfter(tail, Len(burst))
    /\ count' = Drained + Len(burst)
    /\ UNCHANGED overflow_sticky

(* The ready front door takes the whole burst, of 0 to 3 lines.            *)
Admit(burst) ==
    /\ SourceEventsReady
    /\ Dequeue
    /\ queue' = [s \in Slot |-> IF Places(tail, s) < Len(burst)
                                THEN burst[Places(tail, s) + 1]
                                ELSE queue[s]]
    /\ tail' = SlotAfter(tail, Len(burst))
    /\ count' = Drained + Len(burst)
    /\ UNCHANGED overflow_sticky

(* A burst that meets a front door that is not ready is lost, all of it.   *)
Drop(burst) ==
    /\ ~SourceEventsReady
    /\ burst # << >>
    /\ Dequeue
    /\ count' = Drained
    /\ overflow_sticky' = TRUE
    /\ UNCHANGED <<queue, tail>>

(* No source event while the front door is not ready: the queue drains.    *)
Drain(burst) ==
    /\ ~SourceEventsReady
    /\ burst = << >>
    /\ Dequeue
    /\ count' = Drained
    /\ UNCHANGED <<queue, tail, overflow_sticky>>

(* One clock edge at which the given burst is presented.                   *)
Edge(burst) ==
    /\ \/ Admit(burst)
       \/ Drop(burst)
       \/ Drain(burst)
    /\ owed' = (owed \ {ClearLine}) \cup LinesOf(burst)

Next == \E dma, chi, io \in OptLine : Edge(Packed(dma, chi, io))

Spec == Init /\ [][Next]_vars

-----------------------------------------------------------------------------
(* The lines waiting in the queue, oldest first.                           *)
Waiting == [i \in 1 .. count |-> queue[SlotAfter(head, i - 1)]]

(* Every register has its type and no pointer leaves the queue.            *)
TypeOK ==
    /\ queue \in [Slot -> OptLine]
    /\ head \in Slot
    /\ tail \in Slot
    /\ count \in 0 .. DEPTH
    /\ overflow_sticky \in BOOLEAN
    /\ owed \subseteq SourceLine

(* The two pointers and the counter, three registers updated apart from    *)
(* one another, agree: count slots lie between head and tail, and each of  *)
(* them holds a line that was presented, never what reset left.            *)
RingShape ==
    /\ tail = SlotAfter(head, count)
    /\ \A i \in 0 .. count - 1 : queue[SlotAfter(head, i)] \in SourceLine

(* A revocation that has arrived is never forgotten: until its line is     *)
(* cleared it is in the queue, or the prefetcher is held by the overflow   *)
(* bit.  Dropping bursts and wrapping pointers is where it could be lost.  *)
OwedIsHeld ==
    \A l \in owed : \/ overflow_sticky
                    \/ \E i \in 0 .. count - 1 : queue[SlotAfter(head, i)] = l
=============================================================================
