------------------------------ MODULE SariShift -----------------------------
(***************************************************************************)
(* SARI, the first revoker (src/research/copper_sari_revoker.sv): the      *)
(* interface and the hold of SariRing, over a queue that is shifted down   *)
(* by one at every clock edge.  Events are enqueued one by one, DMA, CHI,  *)
(* I/O, and only those that find the queue full are lost.  As it is plain  *)
(* FIFO order it is also the abstract specification of the ring.           *)
(***************************************************************************)
EXTENDS Naturals, Sequences

CONSTANTS SourceLine, NoLine, DEPTH

VARIABLES
    queue,            \* queue[0 .. count-1] of the code, oldest first
    overflow_sticky,
    owed              \* history: lines revoked and not cleared since

vars == <<queue, overflow_sticky, owed>>

OptLine == SourceLine \cup {NoLine}

ClearLine == IF queue # << >> THEN Head(queue) ELSE NoLine

SpaceAfterDequeue == DEPTH - Len(queue) + (IF queue # << >> THEN 1 ELSE 0)

(* Mutant: ready for two lines instead of three.                           *)
ReadyForTwo == SpaceAfterDequeue >= 2

SourceEventsReady == SpaceAfterDequeue >= 3

RevocationHold == overflow_sticky \/ queue # << >>

-----------------------------------------------------------------------------
Init == /\ queue = << >>
        /\ overflow_sticky = FALSE
        /\ owed = {}

Shifted == IF queue # << >> THEN Tail(queue) ELSE queue

Enqueue(q, line) ==
    IF line # NoLine /\ Len(q) < DEPTH THEN Append(q, line) ELSE q

Lost(q, line) == line # NoLine /\ Len(q) >= DEPTH

Edge(dma, chi, io) ==
    LET q1 == Enqueue(Shifted, dma)
        q2 == Enqueue(q1, chi)
    IN  /\ queue' = Enqueue(q2, io)
        /\ overflow_sticky' = \/ overflow_sticky
                              \/ Lost(Shifted, dma)
                              \/ Lost(q1, chi)
                              \/ Lost(q2, io)
        /\ owed' = (owed \ {ClearLine}) \cup ({dma, chi, io} \ {NoLine})

Next == \E dma, chi, io \in OptLine : Edge(dma, chi, io)

Spec == Init /\ [][Next]_vars

-----------------------------------------------------------------------------
(* The registers have their types and the queue its bound.                 *)
TypeOK ==
    /\ queue \in Seq(SourceLine)
    /\ Len(queue) <= DEPTH
    /\ overflow_sticky \in BOOLEAN
    /\ owed \subseteq SourceLine

(* A revocation that has arrived is queued until its line is cleared, or   *)
(* the overflow bit holds the prefetcher.                                  *)
OwedIsHeld ==
    \A l \in owed : overflow_sticky \/ \E i \in 1 .. Len(queue) : queue[i] = l
=============================================================================
