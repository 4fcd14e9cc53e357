------------------------------- MODULE CsSari -------------------------------
(***************************************************************************)
(* The composed issue contract of COPPER, src/research/                    *)
(* copper_cs_sari_composition_state_space.py: a candidate issues if CLPD   *)
(* has a proof of its source, CTLW a witness of its target, and CS-SARI    *)
(* does not hold it.  Ground truth is kept beside the metadata.  A source  *)
(* revocation ends the truth at once and the proof when the queue drains;  *)
(* a target revocation ends both at once.                                  *)
(***************************************************************************)
EXTENDS Naturals, Sequences

CONSTANTS SourceLine, Target, Token,
          DEPTH,         \* slots of the revocation queue
          Burst          \* lines of three events in one cycle, in order

VARIABLES
    queue, overflow,
    truth_source, clpd_source,     \* sets of source lines
    truth_target, ctlw_target      \* sets of witnesses

vars == <<queue, overflow, truth_source, clpd_source,
          truth_target, ctlw_target>>

Witness == Token \X Target
Query == [src : SourceLine, tgt : Target, token : Token]
Lines(q) == {q[i] : i \in DOMAIN q}

(* An event of a cycle: the source line it commits and the witness it      *)
(* records, the lines and the witnesses it revokes.                        *)
Idle == [commits |-> {}, records |-> {}, lines |-> << >>, witnesses |-> {}]
CommitSource(l) == [Idle EXCEPT !.commits = {l}]
RecordTarget(w) == [Idle EXCEPT !.records = {w}]
SourceEvent(s)  == [Idle EXCEPT !.lines = s]
TargetEvent(ws) == [Idle EXCEPT !.witnesses = ws]

Event ==
    {Idle} \cup {CommitSource(l) : l \in SourceLine}
           \cup {RecordTarget(w) : w \in Witness}
           \cup {SourceEvent(s) : s \in {<<l>> : l \in SourceLine} \cup {Burst}}
           \cup {TargetEvent(ws) : ws \in {{w} : w \in Witness}
                            \cup {{k} \X Target : k \in Token} \cup {Witness}}

-----------------------------------------------------------------------------
(* Mutant: source authority alone.                                         *)
SourceAuthorized(q) == q.src \in clpd_source

MetadataAuthorized(q) ==
    q.src \in clpd_source /\ <<q.token, q.tgt>> \in ctlw_target

GroundTruthAuthorized(q) ==
    q.src \in truth_source /\ <<q.token, q.tgt>> \in truth_target

Hold(e, q) == \/ overflow
              \/ q.src \in Lines(queue)
              \/ q.src \in Lines(e.lines)
              \/ <<q.token, q.tgt>> \in e.witnesses

IssueAllowed(e, q) == MetadataAuthorized(q) /\ ~Hold(e, q)

-----------------------------------------------------------------------------
Init == /\ queue = << >> /\ overflow = FALSE
        /\ truth_source = {} /\ clpd_source = {}
        /\ truth_target = {} /\ ctlw_target = {}

Undrained == IF queue = << >> THEN << >> ELSE Tail(queue)

Drained == IF queue = << >> THEN {} ELSE {Head(queue)}

Overflow(lines) == overflow \/ Len(Undrained) + Len(lines) > DEPTH

(* A line appended while there is room.                                    *)
Waiting(lines) ==
    LET q == Undrained \o lines
    IN  [i \in {j \in 1 .. Len(q) : j <= DEPTH} |-> q[i]]

(* Mutant: the drain clears after the commit of its cycle.                 *)
ClpdAfterCommitCleared(e) == (clpd_source \cup e.commits) \ Drained

ClpdAfter(e) == (clpd_source \ Drained) \cup e.commits
TruthSourceAfter(e) == (truth_source \cup e.commits) \ Lines(e.lines)

CtlwAfter(e) == (ctlw_target \cup e.records) \ e.witnesses
TruthTargetAfter(e) == (truth_target \cup e.records) \ e.witnesses

Transition(e) ==
    /\ queue' = Waiting(e.lines)
    /\ overflow' = Overflow(e.lines)
    /\ truth_source' = TruthSourceAfter(e)
    /\ clpd_source' = ClpdAfter(e)
    /\ truth_target' = TruthTargetAfter(e)
    /\ ctlw_target' = CtlwAfter(e)

Next == \E e \in Event : Transition(e)

Spec == Init /\ [][Next]_vars

-----------------------------------------------------------------------------
(* The queue has its bound; truth and metadata are of their sets.          *)
TypeOK ==
    /\ queue \in Seq(SourceLine) /\ Len(queue) <= DEPTH
    /\ overflow \in BOOLEAN
    /\ truth_source \subseteq SourceLine /\ clpd_source \subseteq SourceLine
    /\ truth_target \subseteq Witness /\ ctlw_target \subseteq Witness

(* What issues in a cycle is authorized by the ground truth before the     *)
(* event of that cycle and after it.                                       *)
IssueIsTrue ==
    \A e \in Event, q \in Query :
        IssueAllowed(e, q) =>
            /\ GroundTruthAuthorized(q)
            /\ q.src \in TruthSourceAfter(e)
            /\ <<q.token, q.tgt>> \in TruthTargetAfter(e)

(* A commit is not undone by the older revocation that drains with it: the *)
(* line it makes true has its proof from the next cycle on.                *)
CommitIsUsed == [][truth_source' \ truth_source \subseteq clpd_source']_vars

(* Precision: a truly authorized candidate whose proof no drain has taken  *)
(* is turned away only by an event or a queued line that is its own.       *)
HoldIsScoped ==
    \A e \in Event, q \in Query :
        /\ GroundTruthAuthorized(q)
        /\ q.src \in clpd_source \ (Lines(e.lines) \cup Lines(queue))
        /\ <<q.token, q.tgt>> \notin e.witnesses
        => overflow \/ IssueAllowed(e, q)
=============================================================================
