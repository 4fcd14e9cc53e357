--------------------------- MODULE RevocationPath ---------------------------
(***************************************************************************)
(* The front door and the ring together, with the three bus masters that   *)
(* drive them.  A master presents an event and, as the ready/valid         *)
(* handshake of the front door asks of it, keeps presenting it until an    *)
(* edge at which frontdoor_ready is high.                                  *)
(*                                                                         *)
(* dma, chi and io are the wires of the current cycle; a step is           *)
(* the clock edge at its end, after which idle masters may present anew.   *)
(***************************************************************************)
EXTENDS Naturals, Sequences

CONSTANTS
    SourceLine, NoLine, DEPTH,
    PresentedKinds    \* the CHI requests the interconnect makes

VARIABLES
    queue, head, tail, count, overflow_sticky, owed,   \* the ring
    dma, chi, io                                       \* the wires

vars == <<queue, head, tail, count, overflow_sticky, owed, dma, chi, io>>

Ring == INSTANCE SariRing
Door == INSTANCE SariFrontdoor
Shift == INSTANCE SariShift WITH queue <- Ring!Waiting

-----------------------------------------------------------------------------
chiLine == Door!DecodedChi(chi.kind, chi.line)

Ready == Door!FrontdoorReady(Ring!SourceEventsReady, dma, chiLine, io)

(* Mutant: the hold does not look at the events of the current cycle.      *)
DmpHoldWhenQueued == Ring!RevocationHold

(* dmp_frontdoor_hold or dmp_revocation_hold, for source events.           *)
DmpHold == Door!DecodedSourceEvent(dma, chiLine, io) \/ Ring!RevocationHold

AdmittedBurst ==
    LET gate(line) == Door!Gated(Ring!SourceEventsReady, line)
    IN  Ring!Packed(gate(dma), gate(chiLine), gate(io))

(* What the CHI channel can carry; without a line its valid bit is low.    *)
ChiIdle == [kind |-> "ReadShared", line |-> NoLine]
ChiWire == {ChiIdle} \cup [kind : PresentedKinds, line : SourceLine]

Init ==
    /\ Ring!Init
    /\ dma \in Ring!OptLine
    /\ chi \in ChiWire
    /\ io \in Ring!OptLine

(* What the masters drive in the next cycle.                               *)
PresentAnew ==
    /\ dma' \in Ring!OptLine
    /\ chi' \in ChiWire
    /\ io' \in Ring!OptLine

(* A channel that is idle may start while another one is backpressured.    *)
KeepPresenting ==
    /\ dma' \in (IF dma # NoLine THEN {dma} ELSE Ring!OptLine)
    /\ io' \in (IF io # NoLine THEN {io} ELSE Ring!OptLine)
    /\ chi' \in (IF chi # ChiIdle THEN {chi} ELSE ChiWire)

Accepted == /\ Ready
            /\ Ring!Edge(AdmittedBurst)
            /\ PresentAnew

Backpressured == /\ ~Ready
                 /\ Ring!Edge(AdmittedBurst)
                 /\ KeepPresenting

Next == Accepted \/ Backpressured

Spec == Init /\ [][Next]_vars

-----------------------------------------------------------------------------
(* Wires and registers have their types.                                   *)
TypeOK ==
    /\ Ring!TypeOK
    /\ dma \in Ring!OptLine
    /\ chi \in ChiWire
    /\ io \in Ring!OptLine

(* Behind the front door the ring never has to drop a burst, so the        *)
(* prefetcher is never held for good.                                      *)
NoOverflow == ~overflow_sticky

(* The front-door invariant: from the cycle in which a master presents a   *)
(* revocation until the cycle in which its line is cleared, waiting at the *)
(* door included, the prefetcher is held.                                  *)
RevocationIsHeld ==
    ({dma, chiLine, io} \ {NoLine}) \cup owed # {} => DmpHold

(* Through backpressure, queueing and pointer wrap every presented         *)
(* revocation reaches the proof tables.                                    *)
EventuallyCleared ==
    \A l \in SourceLine : l \in {dma, chiLine, io} ~> Ring!ClearLine = l

(* The ring behind the front door is the plain FIFO revoker.               *)
ImplementsShift == Shift!Spec
=============================================================================
