--------------------------- MODULE SariRqContract ---------------------------
(***************************************************************************)
(* The contract of the ring-queued revoker, as                             *)
(* src/research/copper_sari_rq_state_space.py states it: the shift queue   *)
(* and the ring run side by side on the same bursts, a burst either obeys  *)
(* ready (and then waits outside while there is no room) or violates it.   *)
(* Target events hold the prefetcher without any state and are left out.   *)
(***************************************************************************)
EXTENDS Naturals, Sequences

CONSTANTS SourceLine, DEPTH

VARIABLES shift_q, ring_q, shift_overflow, ring_overflow

vars == <<shift_q, ring_q, shift_overflow, ring_overflow>>

Burst == UNION {[1 .. n -> SourceLine] : n \in 0 .. 3}

Ready(q) == DEPTH - Len(q) + (IF q # << >> THEN 1 ELSE 0) >= 3

Popped(q) == IF q # << >> THEN Tail(q) ELSE q

Init == /\ shift_q = << >> /\ ring_q = << >>
        /\ shift_overflow = FALSE /\ ring_overflow = FALSE

(* A queue after the k-th line, if there is one, has been appended, and    *)
(* after all lines of a burst have been, one at a time, up to its depth.   *)
AppendedLine(q, lines, k) ==
    IF k <= Len(lines) /\ Len(q) < DEPTH THEN Append(q, lines[k]) ELSE q

Appended(q, lines) ==
    AppendedLine(AppendedLine(AppendedLine(q, lines, 1), lines, 2), lines, 3)

ShiftTransition(sources, obey) ==
    IF sources # << >> /\ ~Ready(shift_q)
    THEN /\ shift_q' = Popped(shift_q)
         /\ shift_overflow' = (shift_overflow \/ ~obey)
    ELSE /\ shift_q' = Appended(Popped(shift_q), sources)
         /\ shift_overflow' = \/ shift_overflow
                              \/ Len(Popped(shift_q)) + Len(sources) > DEPTH

(* Mutant: the ring admits a burst that its free slots would just hold     *)
(* before the slot of the head is counted, without asking ready.           *)
RingTransitionUnready(sources, obey) ==
    LET q == Popped(ring_q) \o sources
    IN  /\ ring_q' = IF Len(q) > DEPTH THEN SubSeq(q, 1, DEPTH) ELSE q
        /\ ring_overflow' = (ring_overflow \/ Len(q) > DEPTH)

RingTransition(sources, obey) ==
    IF sources # << >> /\ ~Ready(ring_q)
    THEN /\ ring_q' = Popped(ring_q)
         /\ ring_overflow' = (ring_overflow \/ ~obey)
    ELSE LET q == Popped(ring_q) \o sources
         IN  /\ ring_q' = IF Len(q) > DEPTH THEN SubSeq(q, 1, DEPTH) ELSE q
             /\ ring_overflow' = (ring_overflow \/ Len(q) > DEPTH)

Transition(sources, obey) == /\ ShiftTransition(sources, obey)
                             /\ RingTransition(sources, obey)

Next == \E sources \in Burst, obey \in BOOLEAN : Transition(sources, obey)

Spec == Init /\ [][Next]_vars

-----------------------------------------------------------------------------
(* The ring is the shift queue: the same lines wait in the same order and  *)
(* the overflow bit is the same, also after bursts that ignored ready.     *)
QueuesAgree == ring_q = shift_q /\ ring_overflow = shift_overflow
=============================================================================
