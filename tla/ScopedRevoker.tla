--------------------------- MODULE ScopedRevoker ----------------------------
(***************************************************************************)
(* CS-SARI, src/research/copper_sari_scoped_revoker.sv: a revocation queue *)
(* that holds only the candidates whose source line it holds.  The queue   *)
(* is an array shifted down by one at every edge, of which the first count *)
(* slots are in use; unused slots read zero, which is also a line tag.     *)
(* Remaps and TLBIs pass through without state and are left out.           *)
(***************************************************************************)
EXTENDS Naturals, Sequences

CONSTANTS
    SourceLine,
    ZeroLine,     \* the line whose tag is all zero
    NoLine,       \* a valid bit that is low
    DEPTH

VARIABLES
    queue, count, overflow_sticky,
    owed,         \* history: clears owed to each line; not counted any
                  \* more once the overflow bit holds every candidate
    revoked       \* history: lines revoked and not cleared since

vars == <<queue, count, overflow_sticky, owed, revoked>>

Slot == 0 .. DEPTH - 1
OptLine == SourceLine \cup {NoLine}

ClearLine == IF count # 0 THEN queue[0] ELSE NoLine

(* Mutant: the scan misses the youngest slot in use.                       *)
ScanShort(line) == \E i \in Slot : i + 1 < count /\ queue[i] = line

QueuedSourceConflict(line) == \E i \in Slot : i < count /\ queue[i] = line

(* dmp_conflict_hold of a candidate, apart from the events of its cycle.   *)
ConflictHold(line) == overflow_sticky \/ QueuedSourceConflict(line)

-----------------------------------------------------------------------------
Init == /\ queue = [i \in Slot |-> ZeroLine]
        /\ count = 0
        /\ overflow_sticky = FALSE
        /\ owed = [l \in SourceLine |-> 0]
        /\ revoked = {}

(* The queue as the always_comb block builds it: contents, temp_count and  *)
(* next_overflow, first shifted and then written event by event.           *)
Current == [slots |-> queue, used |-> count, lost |-> overflow_sticky]

(* Mutant: the last slot in use is shifted out.                            *)
ShiftedShort(q) ==
    IF q.used = 0 THEN q
    ELSE [q EXCEPT !.slots = [i \in Slot |-> IF i + 1 < q.used - 1
                                             THEN @[i + 1] ELSE ZeroLine],
                   !.used = @ - 1]

Shifted(q) ==
    IF q.used = 0 THEN q
    ELSE [q EXCEPT !.slots = [i \in Slot |-> IF i < DEPTH - 1
                                             THEN @[i + 1] ELSE ZeroLine],
                   !.used = @ - 1]

Enqueued(q, line) ==
    IF line = NoLine THEN q
    ELSE IF q.used < DEPTH
         THEN [q EXCEPT !.slots = [@ EXCEPT ![q.used] = line], !.used = @ + 1]
         ELSE [q EXCEPT !.lost = TRUE]

Owed(dma, chi, io) ==
    [l \in SourceLine |->
        owed[l] - (IF ClearLine = l THEN 1 ELSE 0)
                + (IF dma = l THEN 1 ELSE 0) + (IF chi = l THEN 1 ELSE 0)
                + (IF io = l THEN 1 ELSE 0)]

Edge(dma, chi, io) ==
    LET q == Enqueued(Enqueued(Enqueued(Shifted(Current), dma), chi), io)
    IN  /\ queue' = q.slots
        /\ count' = q.used
        /\ overflow_sticky' = q.lost
        /\ owed' = IF q.lost THEN owed ELSE Owed(dma, chi, io)
        /\ revoked' = (revoked \ {ClearLine}) \cup ({dma, chi, io} \ {NoLine})

Next == \E dma, chi, io \in OptLine : Edge(dma, chi, io)

Spec == Init /\ [][Next]_vars

-----------------------------------------------------------------------------
(* The registers have their types; the counter stays within the array.     *)
TypeOK == /\ queue \in [Slot -> SourceLine]
          /\ count \in 0 .. DEPTH
          /\ overflow_sticky \in BOOLEAN
          /\ owed \in [SourceLine -> Nat]
          /\ revoked \subseteq SourceLine

(* CS-SARI's two promises at once: from the edge after a revocation to its *)
(* clear the candidates of that line are held, however often it is queued, *)
(* and no other candidate is, unless the queue has overflowed.             *)
HoldIsExact ==
    overflow_sticky \/ \A l \in SourceLine : ConflictHold(l) <=> owed[l] # 0

(* The queue behind the scoped hold is the FIFO of the first SARI revoker: *)
(* same order of clears, same overflow.                                    *)
Shift == INSTANCE SariShift WITH queue <- [i \in 1 .. count |-> queue[i - 1]],
                                 owed <- revoked
ImplementsShift == Shift!Spec
=============================================================================
