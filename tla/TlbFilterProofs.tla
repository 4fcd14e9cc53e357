--------------------------- MODULE TlbFilterProofs --------------------------
(***************************************************************************)
(* Theorems about TlbFilter, for every number of lines and tokens and for  *)
(* queues of every depth.  Each queue is taken care of by                  *)
(* RevocationQueue!QueueStep; what is left is to relate what is owed to    *)
(* what is queued.  TargetIsHeld is a theorem of SeparateSpec only.        *)
(***************************************************************************)
EXTENDS TlbFilter, TLAPS

(* The steps of both specifications are edges.                             *)
LEMMA SeparateIsNext == SeparateNext => Next
  BY DEF SeparateNext, Next, Separate

(* The queue is offered one of the events, or nothing if there is none.    *)
LEMMA TargetInType ==
    ASSUME NEW events \in Ports
    PROVE  /\ TargetIn(events) \in TargetEvent \cup {NoEvent}
           /\ events # {} => TargetIn(events) \in events
           /\ events \subseteq TargetEvent
<1>1. events \subseteq TargetEvent
  BY DEF Ports, AtMostOne, TargetEvent
<1>2. CASE TlbiAll \in events
  BY <1>1, <1>2 DEF TargetIn
<1>3. CASE TlbiAll \notin events /\ events \cap TlbiToken # {}
  <2>1. TargetIn(events) = CHOOSE e \in events : e \in TlbiToken
    BY <1>3 DEF TargetIn
  <2>2. (CHOOSE e \in events : e \in TlbiToken) \in events
    BY <1>3
  <2> QED
    BY <1>1, <2>1, <2>2
<1>4. CASE TlbiAll \notin events /\ events \cap TlbiToken = {} /\ events # {}
  <2>1. TargetIn(events) = CHOOSE e \in events : e \in Remap
    BY <1>4 DEF TargetIn
  <2>2. \E e \in events : e \in Remap
    BY <1>1, <1>4 DEF TargetEvent
  <2>3. (CHOOSE e \in events : e \in Remap) \in events
    BY <2>2
  <2> QED
    BY <1>1, <2>1, <2>3
<1>5. CASE events = {}
  BY <1>5 DEF TargetIn
<1> QED
  BY <1>2, <1>3, <1>4, <1>5

(* What an edge does to the two queues.                                    *)
LEMMA QueuesStep ==
    ASSUME TypeOK, QueuesInShape,
           NEW line \in SrcLine \cup {NoEvent}, NEW events \in Ports,
           NEW sourceDrain \in BOOLEAN, NEW targetDrain \in BOOLEAN,
           Edge(line, events, sourceDrain, targetDrain)
    PROVE  /\ SourceQ!TypeOK' /\ SourceQ!Shape'
           /\ SourceQ!Enqueues(line, sourceDrain) => line \in SourceQ!Queued'
           /\ SourceQ!Queued \ {SourceQ!Delivered(sourceDrain)} \subseteq SourceQ!Queued'
           /\ TargetQ!TypeOK' /\ TargetQ!Shape'
           /\ TargetQ!Enqueues(TargetIn(events), targetDrain)
                 => TargetIn(events) \in TargetQ!Queued'
           /\ TargetQ!Queued \ {TargetQ!Delivered(targetDrain)} \subseteq TargetQ!Queued'
<1>1. NoEvent \notin SrcLine /\ NoEvent \notin TargetEvent
  BY NoEventAssumption
<1>2. /\ SourceQ!TypeOK /\ SourceQ!Shape /\ TargetQ!TypeOK /\ TargetQ!Shape
      /\ SourceQ!Edge(line, sourceDrain) /\ TargetQ!Edge(TargetIn(events), targetDrain)
  BY DEF TypeOK, QueuesInShape, Edge
<1>3. TargetIn(events) \in TargetEvent \cup {NoEvent}
  BY TargetInType
<1>4. /\ SourceQ!TypeOK' /\ SourceQ!Shape'
      /\ SourceQ!Enqueues(line, sourceDrain) => line \in SourceQ!Queued'
      /\ SourceQ!Queued \ {SourceQ!Delivered(sourceDrain)} \subseteq SourceQ!Queued'
  BY <1>1, <1>2, SourceDepthAssumption, SourceQ!QueueStep
<1>5. /\ TargetQ!TypeOK' /\ TargetQ!Shape'
      /\ TargetQ!Enqueues(TargetIn(events), targetDrain)
            => TargetIn(events) \in TargetQ!Queued'
      /\ TargetQ!Queued \ {TargetQ!Delivered(targetDrain)} \subseteq TargetQ!Queued'
  BY <1>1, <1>2, <1>3, TargetDepthAssumption, TargetQ!QueueStep
<1> QED
  BY <1>4, <1>5

(* An edge keeps the types.                                                *)
LEMMA TypeStep ==
    ASSUME TypeOK, QueuesInShape, [Next]_vars
    PROVE  TypeOK' /\ QueuesInShape'
<1>1. CASE UNCHANGED vars
  BY <1>1 DEF TypeOK, QueuesInShape, vars, SourceQ!TypeOK, TargetQ!TypeOK,
              SourceQ!Shape, TargetQ!Shape
<1>2. ASSUME NEW line \in SrcLine \cup {NoEvent}, NEW events \in Ports,
             NEW sourceDrain \in BOOLEAN, NEW targetDrain \in BOOLEAN,
             Edge(line, events, sourceDrain, targetDrain)
      PROVE  TypeOK' /\ QueuesInShape'
  <2>1. /\ SourceQ!TypeOK' /\ SourceQ!Shape'
        /\ TargetQ!TypeOK' /\ TargetQ!Shape'
    BY <1>2, QueuesStep
  <2>2. overflow_sticky' \in BOOLEAN
    BY <1>2 DEF Edge
  <2>3. source_owed' \subseteq SrcLine
    BY <1>2 DEF Edge, TypeOK
  <2>4. \A e \in events : Affected(e) \subseteq TgtLine \X Token
    BY DEF Affected
  <2>5. target_owed' \subseteq TgtLine \X Token
    BY <1>2, <2>4 DEF Edge, TypeOK
  <2> QED
    BY <2>1, <2>2, <2>3, <2>5 DEF TypeOK, QueuesInShape
<1>3. CASE Next
  <2>1. PICK line \in SrcLine \cup {NoEvent}, events \in Ports,
             sourceDrain \in BOOLEAN, targetDrain \in BOOLEAN :
             Edge(line, events, sourceDrain, targetDrain)
    BY <1>3 DEF Next
  <2> QED
    BY <2>1, <1>2
<1> QED
  BY <1>1, <1>3

(* After reset nothing is owed and the queues are empty.                   *)
LEMMA InitSound == Init => TypeOK /\ QueuesInShape
<1> SUFFICES ASSUME Init PROVE TypeOK /\ QueuesInShape
  OBVIOUS
<1>1. SourceQ!TypeOK /\ SourceQ!Shape
  BY SourceDepthAssumption, SourceQ!QueueInit DEF Init
<1>2. TargetQ!TypeOK /\ TargetQ!Shape
  BY TargetDepthAssumption, TargetQ!QueueInit DEF Init
<1> QED
  BY <1>1, <1>2 DEF Init, TypeOK, QueuesInShape

(* For every depth, registers and history keep their types.                *)
THEOREM TypeCorrect == Spec => []TypeOK
<1>1. (TypeOK /\ QueuesInShape) /\ [Next]_vars => (TypeOK /\ QueuesInShape)'
  BY TypeStep
<1> QED
  BY <1>1, InitSound, PTL DEF Spec

(* For every depth, power of two or not, both queues are rings.            *)
THEOREM ShapeInvariant == Spec => []QueuesInShape
<1>1. (TypeOK /\ QueuesInShape) /\ [Next]_vars => (TypeOK /\ QueuesInShape)'
  BY TypeStep
<1> QED
  BY <1>1, InitSound, PTL DEF Spec

(* A source line that is revoked stays in the queue until it is delivered. *)
LEMMA SourceStep ==
    ASSUME TypeOK, QueuesInShape, SourceIsHeld,
           NEW line \in SrcLine \cup {NoEvent}, NEW events \in Ports,
           NEW sourceDrain \in BOOLEAN, NEW targetDrain \in BOOLEAN,
           Edge(line, events, sourceDrain, targetDrain)
    PROVE  SourceIsHeld'
<1> SUFFICES ASSUME NEW src \in source_owed', ~overflow_sticky'
             PROVE  src \in SourceQ!Queued'
  BY DEF SourceIsHeld, SourceHold
<1>1. /\ SourceQ!Enqueues(line, sourceDrain) => line \in SourceQ!Queued'
      /\ SourceQ!Queued \ {SourceQ!Delivered(sourceDrain)} \subseteq SourceQ!Queued'
  BY QueuesStep
<1>2. /\ ~overflow_sticky
      /\ line # NoEvent => SourceQ!ReadyAfterDrain(sourceDrain)
  BY DEF Edge, Overflows
<1>3. CASE src = line /\ line # NoEvent
  BY <1>1, <1>2, <1>3 DEF SourceQ!Enqueues
<1>4. CASE src \in source_owed \ {SourceQ!Delivered(sourceDrain)}
  BY <1>1, <1>2, <1>4 DEF SourceIsHeld, SourceHold
<1> QED
  BY <1>3, <1>4 DEF Edge

(* Revoked source lines are held until cleared, or by the overflow bit,    *)
(* for every depth and whatever the drain does.                            *)
THEOREM SourceRevocationsAreHeld == Spec => []SourceIsHeld
<1> DEFINE Inv == TypeOK /\ QueuesInShape /\ SourceIsHeld
<1>1. Init => Inv
  BY InitSound DEF Init, SourceIsHeld
<1>2. Inv /\ [Next]_vars => Inv'
  <2> SUFFICES ASSUME Inv, [Next]_vars PROVE Inv'
    OBVIOUS
  <2>1. CASE UNCHANGED vars
    BY <2>1, TypeStep DEF vars, SourceIsHeld, SourceHold, SourceQ!Queued, SourceQ!SlotAfter
  <2>2. CASE Next
    BY <2>2, TypeStep, SourceStep DEF Next
  <2> QED
    BY <2>1, <2>2
<1> QED
  BY <1>1, <1>2, PTL DEF Spec

(* The events of a conflict are those of the translations it is about.     *)
LEMMA ConflictIsAffected ==
    ASSUME NEW e \in TargetEvent, NEW p \in TgtLine \X Token
    PROVE  TargetConflicts(e, p[1], p[2]) <=> p \in Affected(e)
<1>1. e # NoEvent
  BY NoEventAssumption
<1>2. CASE e \in Remap
  <2>1. e.kind = "remap"
    BY <1>2 DEF Remap
  <2> QED
    BY <1>1, <2>1 DEF TargetConflicts, Affected
<1>3. CASE e \in TlbiToken
  <2>1. e.kind = "token"
    BY <1>3 DEF TlbiToken
  <2> QED
    BY <1>1, <2>1 DEF TargetConflicts, Affected
<1>4. CASE e = TlbiAll
  <2>1. e.kind = "global"
    BY <1>4 DEF TlbiAll
  <2> QED
    BY <1>1, <2>1 DEF TargetConflicts, Affected
<1> QED
  BY <1>2, <1>3, <1>4 DEF TargetEvent

(* Of separate events, the one that the queue is offered conflicts with    *)
(* every translation that any of them is about.                            *)
LEMMA OfferedCovers ==
    ASSUME NEW events \in Separate, NEW e \in events, NEW p \in Affected(e)
    PROVE  /\ TargetIn(events) \in TargetEvent
           /\ TargetConflicts(TargetIn(events), p[1], p[2])
<1>1. events \in Ports /\ events # {}
  BY DEF Separate
<1>2. TargetIn(events) \in events /\ events \subseteq TargetEvent
  BY <1>1, TargetInType
<1>3. p \in TgtLine \X Token
  BY DEF Affected
<1>4. CASE TlbiAll \in events
  BY <1>2, <1>4 DEF TargetIn, TargetConflicts, TlbiAll
<1>5. CASE TlbiAll \notin events
  <2>1. TargetIn(events) = e
    BY <1>2, <1>5 DEF Separate
  <2> QED
    BY <1>2, <1>3, <2>1, ConflictIsAffected
<1> QED
  BY <1>4, <1>5

(* A changed translation stays covered by a queued event until cleared.    *)
LEMMA TargetStep ==
    ASSUME TypeOK, QueuesInShape, TargetIsHeld,
           NEW line \in SrcLine \cup {NoEvent}, NEW events \in Separate,
           NEW sourceDrain \in BOOLEAN, NEW targetDrain \in BOOLEAN,
           Edge(line, events, sourceDrain, targetDrain)
    PROVE  TargetIsHeld'
<1> SUFFICES ASSUME NEW p \in target_owed', ~overflow_sticky'
             PROVE  \E e \in TargetQ!Queued' : TargetConflicts(e, p[1], p[2])
  BY DEF TargetIsHeld, TargetHold
<1> DEFINE cleared == TargetQ!Delivered(targetDrain)
<1>1. events \in Ports
  BY DEF Separate
<1>2. /\ TargetQ!Enqueues(TargetIn(events), targetDrain)
             => TargetIn(events) \in TargetQ!Queued'
      /\ TargetQ!Queued \ {cleared} \subseteq TargetQ!Queued'
  BY <1>1, QueuesStep
<1>3. /\ ~overflow_sticky
      /\ TargetIn(events) # NoEvent => TargetQ!ReadyAfterDrain(targetDrain)
  BY DEF Edge, Overflows
<1>4. ASSUME NEW e \in events, p \in Affected(e)
      PROVE  TargetIn(events) \in TargetQ!Queued' /\ TargetConflicts(TargetIn(events), p[1], p[2])
  <2>1. /\ TargetIn(events) \in TargetEvent
        /\ TargetConflicts(TargetIn(events), p[1], p[2])
    BY <1>4, OfferedCovers
  <2>2. TargetIn(events) # NoEvent
    BY <2>1, NoEventAssumption
  <2> QED
    BY <1>2, <1>3, <2>1, <2>2 DEF TargetQ!Enqueues
<1>5. CASE p \in target_owed \ Affected(cleared)
  <2>1. PICK e \in TargetQ!Queued : TargetConflicts(e, p[1], p[2])
    BY <1>3, <1>5 DEF TargetIsHeld, TargetHold
  <2>2. e \in TargetEvent
    <3>1. PICK i \in 0 .. target_count - 1 :
             e = target_queue[TargetQ!SlotAfter(target_head, i)]
      BY <2>1 DEF TargetQ!Queued
    <3>2. e # NoEvent
      BY <3>1 DEF QueuesInShape, TargetQ!Shape
    <3>3. target_head \in TargetQ!Slot /\ i \in 0 .. TARGET_Q_DEPTH
      BY TargetDepthAssumption DEF TypeOK, TargetQ!TypeOK
    <3>4. TargetQ!SlotAfter(target_head, i) \in TargetQ!Slot
      BY <3>3, TargetDepthAssumption, TargetQ!SlotAfterType
    <3> QED
      BY <3>1, <3>2, <3>4 DEF TypeOK, TargetQ!TypeOK
  <2>3. p \in TgtLine \X Token
    BY <1>5 DEF TypeOK
  <2>4. p \in Affected(e)
    BY <2>1, <2>2, <2>3, ConflictIsAffected
  <2>5. e # cleared
    BY <1>5, <2>4
  <2> QED
    BY <1>2, <2>1, <2>5
<1> QED
  BY <1>4, <1>5 DEF Edge

(* Changed translations are held until cleared, for every depth, if no two *)
(* different events without a global one arrive in a cycle.                *)
THEOREM TargetRevocationsAreHeld == SeparateSpec => []TargetIsHeld
<1> DEFINE Inv == TypeOK /\ QueuesInShape /\ TargetIsHeld
<1>1. Init => Inv
  BY InitSound DEF Init, TargetIsHeld
<1>2. Inv /\ [SeparateNext]_vars => Inv'
  <2> SUFFICES ASSUME Inv, [SeparateNext]_vars PROVE Inv'
    OBVIOUS
  <2>1. CASE UNCHANGED vars
    BY <2>1, TypeStep
       DEF vars, TargetIsHeld, TargetHold, TargetQ!Queued, TargetQ!SlotAfter
  <2>2. CASE SeparateNext
    BY <2>2, TypeStep, TargetStep, SeparateIsNext DEF SeparateNext
  <2> QED
    BY <2>1, <2>2
<1> QED
  BY <1>1, <1>2, PTL DEF SeparateSpec
=============================================================================
