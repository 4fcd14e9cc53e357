---------------------------- MODULE TlbContract -----------------------------
(***************************************************************************)
(* The TLB/coherence contract of COPPER, src/research/                     *)
(* copper_tlb_coherence_contract.py.  Source revocations and target        *)
(* invalidations wait in two queues without duplicates; draining an entry  *)
(* clears the metadata it covers and flips the one-bit epoch of its        *)
(* witnesses.  Permissions come and go beside them and are not queued.     *)
(*                                                                         *)
(* demanded is a history variable: the witnesses that demand has recorded  *)
(* since their permission was last taken.                                  *)
(***************************************************************************)
EXTENDS Naturals, Sequences, Functions

CONSTANTS Source, Target, Token,
          QUEUE_DEPTH

ASSUME DepthAssumption == QUEUE_DEPTH \in Nat

VARIABLES
    source_truth, source_meta,       \* sets of source lines
    target_truth, target_meta,       \* sets of witnesses
    current_epoch, witness_epoch,    \* one bit for each witness
    permission,                      \* set of witnesses
    source_queue, target_queue, overflow,
    demanded                         \* history: set of witnesses

vars == <<source_truth, source_meta, target_truth, target_meta,
          current_epoch, witness_epoch, permission,
          source_queue, target_queue, overflow, demanded>>

Witness == Token \X Target
Bit == {0, 1}

(* specific_entry, token_entry and GLOBAL_ENTRY: what an entry covers.     *)
Entry == [kind : {"line", "token", "global"}, covers : SUBSET Witness]
TargetEntry ==
    {[kind |-> "line", covers |-> {w}] : w \in Witness}
        \cup {[kind |-> "token", covers |-> {k} \X Target] : k \in Token}
        \cup {[kind |-> "global", covers |-> Witness]}

(* The event of a step: commit, record, what is revoked, and permissions   *)
(* taken and given back.  At most one of the sets is not empty.            *)
Idle == [commits |-> {}, records |-> {}, lines |-> {}, entries |-> {},
         downgrades |-> {}, restores |-> {}]
Event ==
    {Idle} \cup {[Idle EXCEPT !.commits = {s}] : s \in Source}
           \cup {[Idle EXCEPT !.records = {w}] : w \in Witness}
           \cup {[Idle EXCEPT !.lines = {s}] : s \in Source}
           \cup {[Idle EXCEPT !.entries = {n}] : n \in TargetEntry}
           \cup {[Idle EXCEPT !.downgrades = {w}] : w \in Witness}
           \cup {[Idle EXCEPT !.restores = {w}] : w \in Witness}

Query == [src : Source, witness : Witness]

-----------------------------------------------------------------------------
MetadataAuthorized(q) ==
    /\ q.src \in source_meta
    /\ q.witness \in target_meta
    /\ witness_epoch[q.witness] = current_epoch[q.witness]
    /\ q.witness \in permission

GroundTruthAuthorized(q) ==
    /\ q.src \in source_truth
    /\ q.witness \in target_truth
    /\ witness_epoch[q.witness] = current_epoch[q.witness]
    /\ q.witness \in permission

(* What waits in the queues, and what the event of the step takes away.    *)
Covered(entries) == UNION {n.covers : n \in entries}
QueuedConflict(q) == \/ q.src \in Range(source_queue)
                     \/ q.witness \in Covered(Range(target_queue))

(* Mutant: a downgrade does not hold the candidates of its step.           *)
EventConflictUnpermitted(e, q) == \/ q.src \in e.lines
                                  \/ q.witness \in Covered(e.entries)

EventConflict(e, q) == \/ q.src \in e.lines
                       \/ q.witness \in Covered(e.entries) \cup e.downgrades

Hold(e, q) == overflow \/ QueuedConflict(q) \/ EventConflict(e, q)

IssueAllowed(e, q) == MetadataAuthorized(q) /\ ~Hold(e, q)

-----------------------------------------------------------------------------
Init == /\ source_truth = {} /\ source_meta = {}
        /\ target_truth = {} /\ target_meta = {}
        /\ current_epoch = [w \in Witness |-> 0]
        /\ witness_epoch = [w \in Witness |-> 0]
        /\ permission = Witness
        /\ source_queue = << >> /\ target_queue = << >>
        /\ overflow = FALSE
        /\ demanded = {}

(* The entries of a set of at most one that find no place in a queue.      *)
Spilled(queue, entries) ==
    IF Len(queue) < QUEUE_DEPTH THEN {} ELSE entries \ Range(queue)

Enqueued(queue, entries) ==
    IF entries \subseteq Range(queue) \cup Spilled(queue, entries) THEN queue
    ELSE Append(queue, CHOOSE n \in entries : TRUE)

(* A queue that was not empty before the event loses its head after it.    *)
Drained(before, after) == IF before = << >> THEN after ELSE Tail(after)
Delivered(queue) == IF queue = << >> THEN {} ELSE {Head(queue)}

(* Mutant: a remap that drains leaves the witness.                         *)
RepairsOfTlbi ==
    Covered({n \in Delivered(target_queue) : n.kind # "line"})

Repairs == Covered(Delivered(target_queue))

Recorded(e) == e.records \cap permission

Bumped(bit) == 1 - bit

SourceStep(e) ==
    /\ source_truth' = (source_truth \cup e.commits) \ e.lines
    /\ source_meta' = (source_meta \cup e.commits) \ Delivered(source_queue)
    /\ source_queue' = Drained(source_queue, Enqueued(source_queue, e.lines))

TargetStep(e) ==
    /\ target_truth' = (target_truth \cup Recorded(e)) \ Covered(e.entries)
    /\ target_meta' = (target_meta \cup Recorded(e)) \ Repairs
    /\ witness_epoch' = [w \in Witness |-> IF w \in Recorded(e)
                                THEN current_epoch[w] ELSE witness_epoch[w]]
    /\ current_epoch' = [w \in Witness |->
                            IF w \in Covered(Delivered(target_queue))
                            THEN Bumped(current_epoch[w]) ELSE current_epoch[w]]
    /\ target_queue' = Drained(target_queue, Enqueued(target_queue, e.entries))

Spills(e) == \/ Spilled(source_queue, e.lines) # {}
             \/ Spilled(target_queue, e.entries) # {}

PermissionAfter(e) == (permission \ e.downgrades) \cup e.restores

Step(e) == /\ SourceStep(e)
           /\ TargetStep(e)
           /\ permission' = PermissionAfter(e)
           /\ overflow' = (overflow \/ Spills(e))
           /\ demanded' = (demanded \cup Recorded(e)) \ e.downgrades

Next == \E e \in Event : Step(e)

Spec == Init /\ [][Next]_vars

-----------------------------------------------------------------------------
(* Types, and the bound of both queues.                                    *)
TypeOK ==
    /\ source_truth \subseteq Source /\ source_meta \subseteq Source
    /\ target_truth \subseteq Witness /\ target_meta \subseteq Witness
    /\ permission \subseteq Witness
    /\ current_epoch \in [Witness -> Bit] /\ witness_epoch \in [Witness -> Bit]
    /\ source_queue \in Seq(Source) /\ Len(source_queue) <= QUEUE_DEPTH
    /\ target_queue \in Seq(TargetEntry) /\ Len(target_queue) <= QUEUE_DEPTH
    /\ overflow \in BOOLEAN
    /\ demanded \subseteq Witness

(* Metadata that outlives its truth is named by an entry that waits, so    *)
(* that the hold by queue covers it, or the queues have overflowed.        *)
StaleIsQueued ==
    \/ overflow
    \/ /\ source_meta \subseteq source_truth \cup Range(source_queue)
       /\ target_meta \subseteq target_truth \cup Covered(Range(target_queue))

(* A live witness has the epoch of its translation, so that the one-bit    *)
(* epoch is never what decides: nothing hangs on how soon it comes round.  *)
EpochIsCurrent ==
    \A w \in target_meta : witness_epoch[w] = current_epoch[w]

(* What issues in a step is authorized by the ground truth before the      *)
(* event of that step and after it, permission included.                   *)
IssueIsTrue ==
    \A e \in Event, q \in Query :
        IssueAllowed(e, q) =>
            /\ GroundTruthAuthorized(q)
            /\ q.src \notin e.lines
            /\ q.witness \notin Covered(e.entries)
            /\ q.witness \in PermissionAfter(e)

(* Precision: a truly authorized candidate with metadata, whose witness is *)
(* one that demand has recorded since its permission was last taken, and   *)
(* that neither the event nor an entry in a queue names, is not held,      *)
(* unless by overflow.  Of a witness from before a downgrade it says       *)
(* nothing: the contract does not want that one back (RestoreNeedsDemand). *)
HoldIsScoped ==
    \A e \in Event, q \in Query :
        /\ GroundTruthAuthorized(q)
        /\ q.src \in source_meta /\ q.witness \in target_meta
        /\ q.witness \in demanded
        /\ q.src \notin Range(source_queue) \cup e.lines
        /\ q.witness \notin Covered(Range(target_queue) \cup e.entries)
        /\ q.witness \notin e.downgrades
        => overflow \/ IssueAllowed(e, q)

(* A candidate issues only if it may, and a candidate of a witness that    *)
(* demand vouches for does if nothing pending names it.                    *)
IssueIsExact == IssueIsTrue /\ HoldIsScoped

(* What the report of the checker says of permissions: a downgrade blocks  *)
(* issue until the permission is back and demand has recorded the witness  *)
(* anew.  step_state only flips the permission, so that the old witness is *)
(* as good as it was.                                                      *)
RestoreNeedsDemand ==
    \A e \in Event, q \in Query : IssueAllowed(e, q) => q.witness \in demanded

(* An event is queued before the head of its queue drains; two slots are   *)
(* still always enough, since no step brings more than one event.          *)
TwoSlotsSuffice == QUEUE_DEPTH >= 2 => ~overflow
=============================================================================
