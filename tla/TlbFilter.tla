------------------------------ MODULE TlbFilter -----------------------------
(***************************************************************************)
(* The TLB/coherence authority filter of src/research/                     *)
(* copper_tlb_coherence_authority_filter.sv.  Unlike SARI it holds only    *)
(* the candidates that conflict with a revocation: it compares the         *)
(* candidate with every queued source line and target event.  Drained      *)
(* items are handed to the directories, whose owner decides when to drain. *)
(*                                                                         *)
(* source_owed and target_owed are history variables: what has been        *)
(* revoked and not been cleared since.  The events of a cycle hold the     *)
(* candidates of that cycle without any state and are inputs of the edge.  *)
(***************************************************************************)
EXTENDS Naturals

CONSTANTS
    SrcLine, TgtLine, Token,
    NoEvent,                            \* nothing on a port, nothing queued
    SOURCE_Q_DEPTH, TARGET_Q_DEPTH

ASSUME SourceDepthAssumption == SOURCE_Q_DEPTH \in Nat \ {0}
ASSUME TargetDepthAssumption == TARGET_Q_DEPTH \in Nat \ {0}

VARIABLES
    source_queue, source_head, source_tail, source_count,
    target_queue, target_head, target_tail, target_count,
    overflow_sticky,
    source_owed,      \* history: source lines
    target_owed       \* history: <<line, token>>

source == <<source_queue, source_head, source_tail, source_count>>
target == <<target_queue, target_head, target_tail, target_count>>
vars == <<source_queue, source_head, source_tail, source_count,
          target_queue, target_head, target_tail, target_count,
          overflow_sticky, source_owed, target_owed>>

-----------------------------------------------------------------------------
Remap == [kind : {"remap"}, line : TgtLine, token : Token]
TlbiToken == [kind : {"token"}, token : Token]
TlbiAll == [kind |-> "global"]
TargetEvent == Remap \cup TlbiToken \cup {TlbiAll}

ASSUME NoEventAssumption == NoEvent \notin SrcLine \cup TargetEvent

SourceQ == INSTANCE RevocationQueue WITH
    Item <- SrcLine, NoItem <- NoEvent, DEPTH <- SOURCE_Q_DEPTH,
    queue <- source_queue, head <- source_head, tail <- source_tail,
    count <- source_count
TargetQ == INSTANCE RevocationQueue WITH
    Item <- TargetEvent, NoItem <- NoEvent, DEPTH <- TARGET_Q_DEPTH,
    queue <- target_queue, head <- target_head, tail <- target_tail,
    count <- target_count

-----------------------------------------------------------------------------
(* Three ports, for a remap, a token TLBI and the global TLBI, each of     *)
(* which may carry an event in a cycle.                                    *)
AtMostOne(S) == {{}} \cup {{x} : x \in S}
Ports == {r \cup t \cup a : r \in AtMostOne(Remap), t \in AtMostOne(TlbiToken),
                            a \in AtMostOne({TlbiAll})}

(* target_in_*: the one event that the queue is offered.                   *)
TargetIn(events) ==
    CASE TlbiAll \in events -> TlbiAll
      [] TlbiAll \notin events /\ events \cap TlbiToken # {} ->
            CHOOSE e \in events : e \in TlbiToken
      [] TlbiAll \notin events /\ events \cap TlbiToken = {} /\ events # {} ->
            CHOOSE e \in events : e \in Remap
      [] OTHER -> NoEvent

(* Mutant: a token TLBI is taken for a remap of one line.                  *)
TargetConflictsByLine(e, line, token) ==
    \/ e.kind = "remap" /\ e.line = line /\ e.token = token
    \/ e.kind = "global"

TargetConflicts(e, line, token) ==
    \/ e.kind = "remap" /\ e.line = line /\ e.token = token
    \/ e.kind = "token" /\ e.token = token
    \/ e.kind = "global"

(* conflict_hold in a cycle without new events: by the source line of the  *)
(* candidate, or by its target line and token.                             *)
SourceHold(src) == overflow_sticky \/ src \in SourceQ!Queued
TargetHold(line, token) ==
    \/ overflow_sticky
    \/ \E e \in TargetQ!Queued : TargetConflicts(e, line, token)

(* The translations that an event is about.                                *)
Affected(e) ==
    IF e = NoEvent THEN {}
    ELSE {p \in TgtLine \X Token :
             /\ e.kind \in {"remap", "token"} => e.token = p[2]
             /\ e.kind = "remap" => e.line = p[1]}

Init ==
    /\ SourceQ!Init
    /\ TargetQ!Init
    /\ overflow_sticky = FALSE
    /\ source_owed = {}
    /\ target_owed = {}

(* Mutant: only the target queue reports that it is full.                  *)
OverflowsOfTarget(line, event, sourceDrain, targetDrain) ==
    event # NoEvent /\ ~TargetQ!ReadyAfterDrain(targetDrain)

Overflows(line, event, sourceDrain, targetDrain) ==
    \/ line # NoEvent /\ ~SourceQ!ReadyAfterDrain(sourceDrain)
    \/ event # NoEvent /\ ~TargetQ!ReadyAfterDrain(targetDrain)

Edge(line, events, sourceDrain, targetDrain) ==
    /\ SourceQ!Edge(line, sourceDrain)
    /\ TargetQ!Edge(TargetIn(events), targetDrain)
    /\ overflow_sticky' = \/ overflow_sticky
                          \/ Overflows(line, TargetIn(events), sourceDrain, targetDrain)
    /\ source_owed' = (source_owed \ {SourceQ!Delivered(sourceDrain)})
                          \cup ({line} \ {NoEvent})
    /\ target_owed' = (target_owed \ Affected(TargetQ!Delivered(targetDrain)))
                          \cup UNION {Affected(e) : e \in events}

Next ==
    \E line \in SrcLine \cup {NoEvent}, events \in Ports,
       sourceDrain, targetDrain \in BOOLEAN :
        Edge(line, events, sourceDrain, targetDrain)

Spec == Init /\ [][Next]_vars

(* A system that knows that the filter takes one target event a cycle,     *)
(* although target_events_ready does not say so: what else it presents is  *)
(* covered by a global TLBI.                                               *)
Separate ==
    {events \in Ports : TlbiAll \in events \/ \A e, f \in events : e = f}

SeparateNext ==
    \E line \in SrcLine \cup {NoEvent}, events \in Separate,
       sourceDrain, targetDrain \in BOOLEAN :
        Edge(line, events, sourceDrain, targetDrain)

SeparateSpec == Init /\ [][SeparateNext]_vars

-----------------------------------------------------------------------------
(* Both queues and the history have their types.                           *)
TypeOK ==
    /\ SourceQ!TypeOK
    /\ TargetQ!TypeOK
    /\ overflow_sticky \in BOOLEAN
    /\ source_owed \subseteq SrcLine
    /\ target_owed \subseteq TgtLine \X Token

(* Head, tail and count of both queues agree, through wrap, through drains *)
(* that stop and start, and through items offered to a full queue that     *)
(* drains at that very edge.                                               *)
QueuesInShape == SourceQ!Shape /\ TargetQ!Shape

(* A candidate whose source line is revoked and not yet cleared is held,   *)
(* whatever its target.  It depends on the scan finding every queued slot, *)
(* and on the overflow bit for lines that never got into the queue.        *)
SourceIsHeld == \A src \in source_owed : SourceHold(src)

(* A candidate whose translation has changed and not yet been cleared is   *)
(* held, whatever its source and whichever event announced the change.     *)
TargetIsHeld == \A p \in target_owed : TargetHold(p[1], p[2])
=============================================================================
