----------------------------- MODULE CsSariHold -----------------------------
(***************************************************************************)
(* The CS-SARI hold on its own, src/research/copper_cs_sari_state_space.py:*)
(* authority that is only ever taken away, by events whose source lines    *)
(* wait in a queue of DEPTH and whose targets are cleared at once, and a   *)
(* candidate that is held only by what conflicts with it.                  *)
(***************************************************************************)
EXTENDS Naturals, Sequences, SequencesExt

CONSTANTS SourceLine, Target, Token, DEPTH,
          Burst          \* lines of three events in one cycle, in order

VARIABLES
    queue, overflow, live_source, live_target,
    revoked_source,      \* history: lines named by a source event
    revoked_target       \* history: witnesses named by a target event

vars == <<queue, overflow, live_source, live_target,
          revoked_source, revoked_target>>

Witness == Token \X Target
Query == [src : SourceLine, tgt : Target, token : Token]

(* An event is the source lines it revokes and the witnesses it revokes.   *)
Event ==
    LET Source(lines) == [lines |-> lines, witnesses |-> {}]
        Targets(ws)   == [lines |-> << >>, witnesses |-> ws]
    IN  {Source(<< >>), Source(Burst), Targets(Witness)}
            \cup {Source(<<l>>) : l \in SourceLine}
            \cup {Targets({w}) : w \in Witness}
            \cup {Targets({k} \X Target) : k \in Token}

Authorized(q) == q.src \in live_source /\ <<q.token, q.tgt>> \in live_target

TargetConflict(e, q) == <<q.token, q.tgt>> \in e.witnesses

VariantHold(e, q) ==
    \/ overflow
    \/ q.src \in ToSet(queue)
    \/ q.src \in ToSet(e.lines)
    \/ TargetConflict(e, q)

(* Mutant: what is queued does not hold.                                   *)
IssueDespiteQueue(e, q) ==
    Authorized(q) /\ ~(overflow \/ q.src \in ToSet(e.lines)
                                \/ TargetConflict(e, q))

IssueAllowed(e, q) == Authorized(q) /\ ~VariantHold(e, q)

-----------------------------------------------------------------------------
Init == /\ queue = << >>
        /\ overflow = FALSE
        /\ live_source = SourceLine
        /\ live_target = Witness
        /\ revoked_source = {}
        /\ revoked_target = {}

Cleared == IF queue = << >> THEN {} ELSE {Head(queue)}

(* The queue after the drain and as many of the lines as fit.              *)
Waiting(lines) ==
    LET q == (IF queue = << >> THEN << >> ELSE Tail(queue)) \o lines
    IN  SubSeq(q, 1, IF Len(q) < DEPTH THEN Len(q) ELSE DEPTH)

Fits(lines) ==
    Len(queue) - (IF queue = << >> THEN 0 ELSE 1) + Len(lines) <= DEPTH

Transition(e) ==
    /\ queue' = Waiting(e.lines)
    /\ overflow' = (overflow \/ ~Fits(e.lines))
    /\ live_source' = live_source \ Cleared
    /\ live_target' = live_target \ e.witnesses
    /\ revoked_source' = revoked_source \cup ToSet(e.lines)
    /\ revoked_target' = revoked_target \cup e.witnesses

Next == \E e \in Event : Transition(e)

Spec == Init /\ [][Next]_vars

-----------------------------------------------------------------------------
(* The queue has its bound; authority and history are of their sets.       *)
TypeOK ==
    /\ queue \in Seq(SourceLine) /\ Len(queue) <= DEPTH
    /\ overflow \in BOOLEAN
    /\ live_source \subseteq SourceLine /\ live_target \subseteq Witness
    /\ revoked_source \subseteq SourceLine /\ revoked_target \subseteq Witness

(* Safety and precision of the scoped hold against the history: unless the *)
(* queue has overflowed, a candidate may issue exactly when no event up to *)
(* and including this cycle's has named its source line or its witness.    *)
IssueIsExact ==
    \A e \in Event, q \in Query :
        LET named == \/ q.src \in revoked_source \cup ToSet(e.lines)
                     \/ <<q.token, q.tgt>> \in revoked_target \cup e.witnesses
        IN  /\ IssueAllowed(e, q) => ~named
            /\ ~named => overflow \/ IssueAllowed(e, q)
=============================================================================
