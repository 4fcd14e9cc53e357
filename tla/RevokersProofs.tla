--------------------------- MODULE RevokersProofs ---------------------------
(***************************************************************************)
(* Proofs about the revokers, for every set of lines and every depth: the  *)
(* ring forgets nothing and overflows only behind a front door that does   *)
(* not wait, the prefetcher is held while a revocation is on its way, the  *)
(* contracts issue exactly what they should, and every queue is the shift  *)
(* FIFO.                                                                   *)
(***************************************************************************)
EXTENDS MCRevokers, TLAPS, SequenceTheorems, FiniteSetTheorems

USE DepthAssumption, NoLineAssumption

(* What the packing of a cycle's events yields: up to three real lines.    *)
IsBurst(burst) ==
    /\ burst \in Seq(SourceLine)
    /\ Len(burst) \in 0 .. 3

(* The events of one edge, packed, are a burst: three lines at most.       *)
LEMMA PackedIsBurst ==
    ASSUME NEW d \in OptLine, NEW h \in OptLine, NEW i \in OptLine
    PROVE  IsBurst(Packed(d, h, i))
<1> DEFINE Event(line) == IF line = NoLine THEN << >> ELSE <<line>>
<1>1. ASSUME NEW line \in OptLine
      PROVE  Event(line) \in Seq(SourceLine) /\ Len(Event(line)) \in 0 .. 1
  BY <1>1 DEF OptLine
<1>2. ASSUME NEW s \in Seq(SourceLine), NEW t \in Seq(SourceLine)
      PROVE  s \o t \in Seq(SourceLine) /\ Len(s \o t) = Len(s) + Len(t)
  OBVIOUS
<1> HIDE DEF Event
<1>3. /\ Event(d) \o Event(h) \in Seq(SourceLine)
      /\ Len(Event(d) \o Event(h)) = Len(Event(d)) + Len(Event(h))
  BY <1>1, <1>2
<1>4. /\ Event(d) \o Event(h) \o Event(i) \in Seq(SourceLine)
      /\ Len(Event(d) \o Event(h) \o Event(i))
           = Len(Event(d)) + Len(Event(h)) + Len(Event(i))
  BY <1>1, <1>2, <1>3
<1>5. Len(Event(d) \o Event(h) \o Event(i)) \in 0 .. 3
  <2>1. /\ Len(Event(d)) \in 0 .. 1
        /\ Len(Event(h)) \in 0 .. 1
        /\ Len(Event(i)) \in 0 .. 1
    BY <1>1
  <2>2. \A a, b, c \in 0 .. 1 : a + b + c \in 0 .. 3
    OBVIOUS
  <2>3. Len(Event(d)) + Len(Event(h)) + Len(Event(i)) \in 0 .. 3
    BY <2>1, <2>2
  <2> QED BY <2>3, <1>4
<1>6. Packed(d, h, i) = Event(d) \o Event(h) \o Event(i)
  BY DEF Packed, Event
<1> QED BY <1>4, <1>5, <1>6 DEF IsBurst

(* The ring arithmetic: slots stay in range, and SlotAfter and Places are  *)
(* each other's inverse.                                                   *)
LEMMA RingArithmetic ==
    /\ \A p \in Slot : Bump(p) \in Slot /\ Bump(p) = SlotAfter(p, 1)
    /\ \A p \in Slot, i \in 0 .. DEPTH : SlotAfter(p, i) \in Slot
    /\ \A p, s \in Slot : Places(p, s) \in 0 .. DEPTH - 1
    /\ \A p \in Slot, i \in 0 .. DEPTH - 1 : Places(p, SlotAfter(p, i)) = i
    /\ \A p, s \in Slot : SlotAfter(p, Places(p, s)) = s
BY DEF Slot, Bump, SlotAfter, Places

(* Stepping past the slots already taken lands where one long step does.   *)
LEMMA SlotAfterAdds ==
    ASSUME NEW p \in Slot, NEW i \in 0 .. DEPTH, NEW j \in 0 .. DEPTH,
           i + j <= DEPTH
    PROVE  SlotAfter(SlotAfter(p, i), j) = SlotAfter(p, i + j)
BY DEF Slot, SlotAfter

-----------------------------------------------------------------------------
(* Every step is a clock edge with a burst of at most three lines.         *)
LEMMA NextIsEdge ==
    ASSUME Next
    PROVE  \E burst : IsBurst(burst) /\ Edge(burst)
BY PackedIsBurst DEF Next

(* An edge makes room for one line, and ready means room for three.        *)
LEMMA DrainedBounds ==
    ASSUME count \in 0 .. DEPTH
    PROVE  /\ Drained \in 0 .. DEPTH
           /\ SourceEventsReady => Drained + 3 <= DEPTH
<1>1. CASE count = 0
  BY <1>1 DEF Drained, SourceEventsReady, SpaceAfterDequeue
<1>2. CASE count # 0
  BY <1>2 DEF Drained, SourceEventsReady, SpaceAfterDequeue
<1> QED BY <1>1, <1>2

(* The type invariant, for every set of lines and every depth.             *)
THEOREM TypeCorrect == Spec => []TypeOK
<1>1. Init => TypeOK
  <2> SUFFICES ASSUME Init PROVE TypeOK
    OBVIOUS
  <2>1. queue \in [Slot -> OptLine]
    BY DEF Init, OptLine
  <2>2. 0 \in Slot /\ 0 \in 0 .. DEPTH
    BY DEF Slot
  <2> QED BY <2>1, <2>2 DEF Init, TypeOK
<1>2. TypeOK /\ [Next]_vars => TypeOK'
  <2> SUFFICES ASSUME TypeOK, [Next]_vars PROVE TypeOK'
    OBVIOUS
  <2>1. CASE Next
    <3>1. PICK burst : IsBurst(burst) /\ Edge(burst)
      BY <2>1, NextIsEdge
    <3>2. owed' \subseteq SourceLine
      BY <3>1 DEF Edge, IsBurst, LinesOf, TypeOK
    <3>5. /\ Drained \in 0 .. DEPTH
          /\ SourceEventsReady => Drained + 3 <= DEPTH
      BY DrainedBounds DEF TypeOK
    <3>6. Dequeue => head' \in Slot
      BY RingArithmetic DEF TypeOK, Dequeue
    <3>3. CASE /\ Dequeue
               /\ count' = Drained
               /\ UNCHANGED <<queue, tail>>
               /\ overflow_sticky' \in BOOLEAN
      BY <3>2, <3>3, <3>5, <3>6 DEF TypeOK
    <3>4. CASE Admit(burst)
      <4>1. Len(burst) \in 0 .. 3 /\ Len(burst) + Drained <= DEPTH
        <5>1. Drained + 3 <= DEPTH
          BY <3>4, <3>5 DEF Admit
        <5>2. Len(burst) \in 0 .. 3
          BY <3>1 DEF IsBurst
        <5>3. \A n \in 0 .. 3, d \in 0 .. DEPTH : d + 3 <= DEPTH => n + d <= DEPTH
          OBVIOUS
        <5> QED BY <3>5, <5>1, <5>2, <5>3
      <4>2. count' \in 0 .. DEPTH
        BY <3>4, <3>5, <4>1 DEF Admit
      <4>3. head' \in Slot /\ tail' \in Slot
        <5>1. Len(burst) \in 0 .. DEPTH
          BY <3>5, <4>1
        <5> QED BY <3>4, <3>6, <5>1, RingArithmetic DEF Admit, TypeOK
      <4>4. queue' \in [Slot -> OptLine]
        <5>1. ASSUME NEW s \in Slot, Places(tail, s) < Len(burst)
              PROVE  burst[Places(tail, s) + 1] \in OptLine
          <6>1. Places(tail, s) \in 0 .. DEPTH - 1
            BY RingArithmetic DEF TypeOK
          <6>2. Places(tail, s) + 1 \in 1 .. Len(burst)
            BY <6>1, <5>1, <4>1
          <6> QED BY <6>2, <3>1 DEF IsBurst, OptLine
        <5> QED BY <3>4, <5>1 DEF Admit, TypeOK
      <4> QED BY <3>2, <3>4, <4>2, <4>3, <4>4 DEF TypeOK, Admit
    <3> QED BY <3>1, <3>3, <3>4 DEF Edge, Drop, Drain, TypeOK
  <2>2. CASE UNCHANGED vars
    BY <2>2 DEF vars, TypeOK
  <2> QED BY <2>1, <2>2
<1> QED BY <1>1, <1>2, PTL DEF Spec

-----------------------------------------------------------------------------
(* Slots counted back from the tail: a slot of the window is as far past   *)
(* the tail as the free part of the ring is long, or further.              *)
LEMMA PlacesBehind ==
    ASSUME NEW p \in Slot, NEW n \in 0 .. DEPTH, NEW i \in 0 .. n - 1
    PROVE  Places(SlotAfter(p, n), SlotAfter(p, i)) = DEPTH - n + i
BY DEF Slot, SlotAfter, Places

(* What a clear does to the window: it loses its first slot.               *)
Cleared == IF count # 0 THEN 1 ELSE 0

(* dequeue in the ring: the head moves over the slot it empties, and the   *)
(* slots from it to the tail hold what they held.                          *)
LEMMA DequeueShape ==
    ASSUME TypeOK, RingShape, Dequeue
    PROVE  /\ head' = SlotAfter(head, Cleared)
           /\ head' \in Slot
           /\ Drained = count - Cleared
           /\ Drained \in 0 .. DEPTH
           /\ tail = SlotAfter(head', Drained)
           /\ \A i \in 0 .. Drained - 1 :
                /\ i + Cleared \in 0 .. count - 1
                /\ SlotAfter(head', i) = SlotAfter(head, i + Cleared)
<1>1. head' = SlotAfter(head, Cleared)
  <2>1. CASE count = 0
    BY <2>1 DEF Dequeue, Cleared, SlotAfter, TypeOK, Slot
  <2>2. CASE count # 0
    BY <2>2, RingArithmetic DEF Dequeue, Cleared, TypeOK
  <2> QED BY <2>1, <2>2
<1>2. /\ Cleared \in 0 .. 1
      /\ Drained = count - Cleared
      /\ Drained \in 0 .. DEPTH
  BY DEF Cleared, Drained, TypeOK
<1>3. head \in Slot /\ count \in 0 .. DEPTH /\ tail = SlotAfter(head, count)
  BY DEF TypeOK, RingShape
<1>5. Cleared \in 0 .. DEPTH
  BY <1>2
<1>4. head' \in Slot
  BY <1>1, <1>5, <1>3, RingArithmetic
<1>6. tail = SlotAfter(head', Drained)
  BY <1>1, <1>2, <1>3, <1>5, SlotAfterAdds
<1>7. ASSUME NEW i \in 0 .. Drained - 1
      PROVE  /\ i + Cleared \in 0 .. count - 1
             /\ SlotAfter(head', i) = SlotAfter(head, i + Cleared)
  <2>1. i + Cleared \in 0 .. count - 1
    BY <1>2, <1>3
  <2>2. i \in 0 .. DEPTH /\ Cleared + i <= DEPTH /\ Cleared + i = i + Cleared
    BY <1>2, <1>3
  <2>3. SlotAfter(SlotAfter(head, Cleared), i) = SlotAfter(head, Cleared + i)
    BY <1>3, <1>5, <2>2, SlotAfterAdds
  <2> QED BY <1>1, <2>1, <2>2, <2>3
<1> QED BY <1>1, <1>2, <1>4, <1>6, <1>7

(* What the window holds after a burst was admitted: what was left of it,  *)
(* then the burst.                                                         *)
LEMMA AdmitContents ==
    ASSUME TypeOK, RingShape, NEW burst, IsBurst(burst), Admit(burst)
    PROVE  /\ \A i \in 0 .. Drained - 1 :
                queue'[SlotAfter(head', i)] = queue[SlotAfter(head', i)]
           /\ \A k \in 1 .. Len(burst) :
                queue'[SlotAfter(head', Drained + k - 1)] = burst[k]
           /\ tail' = SlotAfter(head', Drained + Len(burst))
           /\ Len(burst) \in 0 .. 3
           /\ Drained + Len(burst) <= DEPTH
<1> USE DEF IsBurst
<1>1. /\ head' \in Slot
      /\ Drained \in 0 .. DEPTH
      /\ tail = SlotAfter(head', Drained)
  BY DequeueShape DEF Admit
<1>2. Drained + 3 <= DEPTH
  BY DrainedBounds DEF Admit, TypeOK
<1>3. PICK n \in 0 .. 3 : n = Len(burst)
  OBVIOUS
<1>4. Drained + n <= DEPTH /\ n \in 0 .. DEPTH
  BY <1>1, <1>2
<1>5. ASSUME NEW i \in 0 .. Drained - 1
      PROVE  queue'[SlotAfter(head', i)] = queue[SlotAfter(head', i)]
  <2>1. Places(tail, SlotAfter(head', i)) = DEPTH - Drained + i
    BY <1>1, PlacesBehind
  <2>2. ~(DEPTH - Drained + i < n)
    BY <1>1, <1>2
  <2>3. SlotAfter(head', i) \in Slot
    <3>1. i \in 0 .. DEPTH
      BY <1>1
    <3> QED BY <1>1, <3>1, RingArithmetic
  <2> QED BY <1>3, <2>1, <2>2, <2>3 DEF Admit
<1>6. ASSUME NEW k \in 1 .. Len(burst)
      PROVE  queue'[SlotAfter(head', Drained + k - 1)] = burst[k]
  <2>1. /\ k - 1 \in 0 .. DEPTH
        /\ k - 1 \in 0 .. DEPTH - 1
        /\ Drained + (k - 1) <= DEPTH
        /\ Drained + (k - 1) = Drained + k - 1
        /\ k - 1 < n
        /\ (k - 1) + 1 = k
    BY <1>1, <1>3, <1>4
  <2>2. SlotAfter(tail, k - 1) = SlotAfter(head', Drained + k - 1)
    BY <1>1, <2>1, SlotAfterAdds
  <2>3. tail \in Slot
    BY DEF TypeOK
  <2>4. SlotAfter(tail, k - 1) \in Slot /\ Places(tail, SlotAfter(tail, k - 1)) = k - 1
    BY <2>1, <2>3, RingArithmetic
  <2> QED BY <1>3, <2>1, <2>2, <2>4 DEF Admit
<1>7. tail' = SlotAfter(head', Drained + Len(burst))
  BY <1>1, <1>3, <1>4, SlotAfterAdds DEF Admit
<1> QED BY <1>3, <1>4, <1>5, <1>6, <1>7

-----------------------------------------------------------------------------
(* A clock edge keeps the pointers and the counter in agreement.           *)
LEMMA RingShapeStep ==
    ASSUME TypeOK, RingShape, NEW burst, IsBurst(burst), Edge(burst)
    PROVE  RingShape'
<1>1. Dequeue
  BY DEF Edge, Admit, Drop, Drain
<1>2. /\ tail = SlotAfter(head', Drained)
      /\ Drained \in 0 .. DEPTH
      /\ Drained = count - Cleared
  BY <1>1, DequeueShape
<1>3. ASSUME NEW i \in 0 .. Drained - 1
      PROVE  queue[SlotAfter(head', i)] \in SourceLine
  <2>1. /\ i + Cleared \in 0 .. count - 1
        /\ SlotAfter(head', i) = SlotAfter(head, i + Cleared)
    BY <1>1, DequeueShape
  <2> QED BY <2>1 DEF RingShape
<1>4. CASE Admit(burst)
  <2>1. /\ \A i \in 0 .. Drained - 1 :
             queue'[SlotAfter(head', i)] = queue[SlotAfter(head', i)]
        /\ \A k \in 1 .. Len(burst) :
             queue'[SlotAfter(head', Drained + k - 1)] = burst[k]
        /\ tail' = SlotAfter(head', Drained + Len(burst))
    BY <1>4, AdmitContents
  <2>2. count' = Drained + Len(burst)
    BY <1>4 DEF Admit
  <2>3. PICK n \in 0 .. 3 : n = Len(burst)
    BY DEF IsBurst
  <2>4. ASSUME NEW i \in 0 .. count' - 1
        PROVE  queue'[SlotAfter(head', i)] \in SourceLine
    <3>1. CASE i \in 0 .. Drained - 1
      BY <1>3, <2>1, <3>1
    <3>2. CASE i \notin 0 .. Drained - 1
      <4>1. PICK k \in 1 .. n : i = Drained + k - 1
        <5>1. i - Drained + 1 \in 1 .. n /\ i = Drained + (i - Drained + 1) - 1
          BY <1>2, <2>2, <2>3, <3>2, SMTT(30)
        <5> QED BY <5>1
      <4>2. burst[k] \in SourceLine
        BY <2>3 DEF IsBurst
      <4> QED BY <2>1, <2>3, <4>1, <4>2
    <3> QED BY <3>1, <3>2
  <2> QED BY <2>1, <2>2, <2>4 DEF RingShape
<1>5. CASE count' = Drained /\ UNCHANGED <<queue, tail>>
  BY <1>2, <1>3, <1>5 DEF RingShape
<1> QED BY <1>4, <1>5 DEF Edge, Drop, Drain

(* The two pointers and the counter always agree.                          *)
THEOREM RingShapeInvariant == Spec => []RingShape
<1>1. Init => RingShape
  BY DEF Init, RingShape, SlotAfter
<1>2. TypeOK /\ RingShape /\ [Next]_vars => RingShape'
  <2>1. CASE Next
    BY <2>1, NextIsEdge, RingShapeStep
  <2>2. CASE UNCHANGED vars
    BY <2>2 DEF vars, RingShape
  <2> QED BY <2>1, <2>2
<1> QED BY <1>1, <1>2, TypeCorrect, PTL DEF Spec

(* A clock edge forgets no revocation.                                     *)
LEMMA OwedStep ==
    ASSUME TypeOK, RingShape, OwedIsHeld, NEW burst, IsBurst(burst), Edge(burst)
    PROVE  OwedIsHeld'
<1>1. Dequeue /\ owed' = (owed \ {ClearLine}) \cup LinesOf(burst)
  BY DEF Edge, Admit, Drop, Drain
<1>2. /\ Drained \in 0 .. DEPTH
      /\ Drained = count - Cleared
      /\ count \in 0 .. DEPTH
      /\ head \in Slot
  BY <1>1, DequeueShape DEF TypeOK
<1> SUFFICES ASSUME NEW l \in owed', ~overflow_sticky'
             PROVE  \E i \in 0 .. count' - 1 : queue'[SlotAfter(head', i)] = l
  BY DEF OwedIsHeld
<1>3. ~overflow_sticky
  BY DEF Edge, Admit, Drop, Drain
<1>4. ASSUME l \in owed, l # ClearLine
      PROVE  \E i \in 0 .. Drained - 1 : queue[SlotAfter(head', i)] = l
  <2>1. PICK j \in 0 .. count - 1 : queue[SlotAfter(head, j)] = l
    BY <1>3, <1>4 DEF OwedIsHeld
  <2>2. j # 0
    <3>1. SUFFICES ASSUME j = 0 PROVE FALSE
      OBVIOUS
    <3>2. SlotAfter(head, 0) = head
      BY <1>2 DEF SlotAfter, Slot
    <3>3. count # 0
      BY <1>2, <2>1
    <3> QED BY <2>1, <3>1, <3>2, <3>3, <1>4 DEF ClearLine
  <2>3. Cleared = 1
    BY <1>2, <2>1 DEF Cleared
  <2>4. j - 1 \in 0 .. Drained - 1 /\ (j - 1) + Cleared = j
    BY <1>2, <2>1, <2>2, <2>3
  <2>5. SlotAfter(head', j - 1) = SlotAfter(head, j)
    BY <1>1, <2>4, DequeueShape
  <2> QED BY <2>1, <2>4, <2>5
<1>5. CASE Admit(burst)
  <2>1. /\ \A i \in 0 .. Drained - 1 :
             queue'[SlotAfter(head', i)] = queue[SlotAfter(head', i)]
        /\ \A k \in 1 .. Len(burst) :
             queue'[SlotAfter(head', Drained + k - 1)] = burst[k]
    BY <1>5, AdmitContents
  <2>2. PICK n \in 0 .. 3 : n = Len(burst)
    BY DEF IsBurst
  <2>3. count' = Drained + n
    BY <1>5, <2>2 DEF Admit
  <2>4. CASE l \in LinesOf(burst)
    <3>1. PICK k \in 1 .. n : burst[k] = l
      BY <2>2, <2>4 DEF LinesOf
    <3>2. Drained + k - 1 \in 0 .. count' - 1
      BY <1>2, <2>3, <3>1
    <3> QED BY <2>1, <2>2, <3>1, <3>2
  <2>5. CASE l \notin LinesOf(burst)
    <3>1. PICK i \in 0 .. Drained - 1 : queue[SlotAfter(head', i)] = l
      BY <1>1, <1>4, <2>5
    <3>2. i \in 0 .. count' - 1
      BY <1>2, <2>3, <3>1
    <3> QED BY <2>1, <3>1, <3>2
  <2> QED BY <2>4, <2>5
<1>6. CASE Drain(burst)
  <2>1. LinesOf(burst) = {}
    BY <1>6 DEF Drain, LinesOf
  <2> QED BY <1>1, <1>4, <1>6, <2>1 DEF Drain
<1> QED BY <1>5, <1>6 DEF Edge, Drop

(* No revocation that has arrived is forgotten before its line is cleared. *)
THEOREM RevocationsAreKept == Spec => []OwedIsHeld
<1>1. Init => OwedIsHeld
  BY DEF Init, OwedIsHeld
<1>2. TypeOK /\ RingShape /\ OwedIsHeld /\ [Next]_vars => OwedIsHeld'
  <2>1. CASE Next
    BY <2>1, NextIsEdge, OwedStep
  <2>2. CASE UNCHANGED vars
    BY <2>2 DEF vars, OwedIsHeld
  <2> QED BY <2>1, <2>2
<1> QED BY <1>1, <1>2, TypeCorrect, RingShapeInvariant, PTL DEF Spec
-----------------------------------------------------------------------------
(* The ring behind the front door is this ring.                            *)
LEMMA PathRing ==
    /\ Path!Ring!Init <=> Init
    /\ \A burst : Path!Ring!Edge(burst) <=> Edge(burst)
    /\ \A d, c, i : Path!Ring!Packed(d, c, i) = Packed(d, c, i)
    /\ Path!Ring!SourceEventsReady <=> SourceEventsReady
    /\ Path!Ring!OptLine = OptLine
BY DEF Path!Ring!Init, Init, Path!Ring!Edge, Edge, Path!Ring!Admit, Admit,
       Path!Ring!Drop, Drop, Path!Ring!Drain, Drain, Path!Ring!Dequeue, Dequeue,
       Path!Ring!Bump, Bump, Path!Ring!LinesOf, LinesOf,
       Path!Ring!ClearLine, ClearLine, Path!Ring!Drained, Drained,
       Path!Ring!SourceEventsReady, SourceEventsReady,
       Path!Ring!SpaceAfterDequeue, SpaceAfterDequeue, Path!Ring!Slot, Slot,
       Path!Ring!Places, Places, Path!Ring!SlotAfter, SlotAfter,
       Path!Ring!Packed, Packed, Path!Ring!OptLine, OptLine

(* What the masters drive are events: a line, or a channel at rest.        *)
WiresOK ==
    /\ dma \in OptLine
    /\ chi \in Path!ChiWire
    /\ io \in OptLine

(* The wires of the path carry lines, or nothing, at every edge.           *)
LEMMA WiresInvariant == Revokers => []WiresOK
<1>1. RevokersInit => WiresOK
  BY PathRing DEF RevokersInit, Path!Init, WiresOK
<1>2. WiresOK /\ [RevokersNext]_all => WiresOK'
  <2> SUFFICES ASSUME WiresOK, [RevokersNext]_all PROVE WiresOK'
    OBVIOUS
  <2>1. CASE PathStep
    <3>1. Path!PresentAnew => WiresOK'
      BY PathRing DEF Path!PresentAnew, WiresOK, Path!ChiWire, Path!ChiIdle
    <3>2. Path!KeepPresenting => WiresOK'
      <4>1. Path!KeepPresenting => dma' \in OptLine /\ io' \in OptLine
        BY PathRing DEF Path!KeepPresenting, WiresOK
      <4>2. Path!KeepPresenting => chi' \in Path!ChiWire
        BY DEF Path!KeepPresenting, WiresOK
      <4> QED BY <4>1, <4>2 DEF WiresOK, Path!ChiWire, Path!ChiIdle
    <3> QED BY <2>1, <3>1, <3>2
            DEF PathStep, Path!Next, Path!Accepted, Path!Backpressured
  <2>2. CASE UNCHANGED wires
    BY <2>2 DEF wires, WiresOK, Path!ChiWire, Path!ChiIdle
  <2> QED BY <2>1, <2>2 DEF RevokersNext, all
<1> QED BY <1>1, <1>2, PTL DEF Revokers

(* What the front door lets through are events.                            *)
LEMMA GatedWires ==
    ASSUME WiresOK
    PROVE  /\ Path!chiLine \in OptLine
           /\ \A line \in OptLine :
                Path!Door!Gated(Path!Ring!SourceEventsReady, line) \in OptLine
           /\ ~SourceEventsReady => Path!AdmittedBurst = << >>
<1>1. Path!chiLine \in OptLine
  <2>1. chi.line \in OptLine
    BY DEF WiresOK, Path!ChiWire, Path!ChiIdle, OptLine
  <2> QED BY <2>1 DEF Path!chiLine, Path!Door!DecodedChi, OptLine
<1>2. \A line \in OptLine :
         Path!Door!Gated(Path!Ring!SourceEventsReady, line) \in OptLine
  BY DEF Path!Door!Gated, OptLine
<1>3. ~SourceEventsReady => Path!AdmittedBurst = << >>
  <2> SUFFICES ASSUME ~SourceEventsReady PROVE Path!AdmittedBurst = << >>
    OBVIOUS
  <2>1. \A line : Path!Door!Gated(Path!Ring!SourceEventsReady, line) = NoLine
    BY PathRing DEF Path!Door!Gated
  <2>2. Path!AdmittedBurst = Packed(NoLine, NoLine, NoLine)
    BY <2>1, PathRing DEF Path!AdmittedBurst
  <2>3. << >> \o << >> \o << >> = << >>
    OBVIOUS
  <2> QED BY <2>2, <2>3 DEF Packed
<1> QED BY <1>1, <1>2, <1>3

(* A clock edge of the path is one of the ring.                            *)
LEMMA PathStepIsEdge ==
    ASSUME WiresOK, PathStep
    PROVE  \E dm, ch, i \in OptLine :
             /\ Path!AdmittedBurst = Packed(dm, ch, i)
             /\ Edge(Packed(dm, ch, i))
<1> DEFINE gate(line) == Path!Door!Gated(Path!Ring!SourceEventsReady, line)
<1>1. /\ gate(dma) \in OptLine
      /\ gate(Path!chiLine) \in OptLine
      /\ gate(io) \in OptLine
  BY GatedWires DEF WiresOK
<1>2. Path!AdmittedBurst = Packed(gate(dma), gate(Path!chiLine), gate(io))
  BY PathRing DEF Path!AdmittedBurst
<1>3. Edge(Path!AdmittedBurst)
  BY PathRing DEF PathStep, Path!Next, Path!Accepted, Path!Backpressured
<1> HIDE DEF gate
<1> QED BY <1>1, <1>2, <1>3

(* Each part of the system is its component.                               *)
LEMMA RingPart == Revokers => Spec
<1>1. RevokersInit => Init
  BY PathRing DEF RevokersInit, Path!Init
<1>2. WiresOK /\ [RevokersNext]_all => [Next]_vars
  <2> SUFFICES ASSUME WiresOK, [RevokersNext]_all PROVE [Next]_vars
    OBVIOUS
  <2>1. CASE PathStep
    BY <2>1, PathStepIsEdge DEF Next
  <2> QED BY <2>1 DEF RevokersNext, all
<1> QED BY <1>1, <1>2, WiresInvariant, PTL DEF Revokers, Spec

(* A run of the composition is a run of each of its parts.                 *)
LEMMA ShiftPart == Revokers => Shift!Spec
<1>1. RevokersInit => Shift!Init
  BY DEF RevokersInit
<1>2. [RevokersNext]_all => [Shift!Next]_(Shift!vars)
  BY DEF RevokersNext, PathStep, all, shift, Shift!vars
<1> QED BY <1>1, <1>2, PTL DEF Revokers, Shift!Spec

(* The same, of the scoped revoker.                                        *)
LEMMA ScopedPart == Revokers => Scoped!Spec
<1>1. RevokersInit => Scoped!Init
  BY DEF RevokersInit
<1>2. [RevokersNext]_all => [Scoped!Next]_(Scoped!vars)
  BY DEF RevokersNext, PathStep, all, scoped, Scoped!vars
<1> QED BY <1>1, <1>2, PTL DEF Revokers, Scoped!Spec

(* The same, of the SARI-RQ contract.                                      *)
LEMMA ContractPart == Revokers => Contract!Spec
<1>1. RevokersInit => Contract!Init
  BY DEF RevokersInit
<1>2. [RevokersNext]_all => [Contract!Next]_(Contract!vars)
  BY DEF RevokersNext, PathStep, all, contract, Contract!vars
<1> QED BY <1>1, <1>2, PTL DEF Revokers, Contract!Spec

(* The same, of the CS-SARI hold.                                          *)
LEMMA HoldPart == Revokers => CsHold!Spec
<1>1. RevokersInit => CsHold!Init
  BY DEF RevokersInit
<1>2. [RevokersNext]_all => [CsHold!Next]_(CsHold!vars)
  BY DEF RevokersNext, PathStep, all, hold, CsHold!vars
<1> QED BY <1>1, <1>2, PTL DEF Revokers, CsHold!Spec

(* The same, of the composed CS-SARI contract.                             *)
LEMMA ComposedPart == Revokers => Cs!Spec
<1>1. RevokersInit => Cs!Init
  BY DEF RevokersInit
<1>2. [RevokersNext]_all => [Cs!Next]_(Cs!vars)
  BY DEF RevokersNext, PathStep, all, composed, Cs!vars
<1> QED BY <1>1, <1>2, PTL DEF Revokers, Cs!Spec

-----------------------------------------------------------------------------
(* Behind the front door the ring is never presented a burst for which it  *)
(* is not ready, so that it never overflows.                               *)
THEOREM PathNeverOverflows == Revokers => []NoOverflow
<1>1. RevokersInit => NoOverflow
  BY PathRing DEF RevokersInit, NoOverflow, Path!NoOverflow, Path!Init, Init
<1>2. WiresOK /\ NoOverflow /\ [RevokersNext]_all => NoOverflow'
  <2> SUFFICES ASSUME WiresOK, NoOverflow, [RevokersNext]_all PROVE NoOverflow'
    OBVIOUS
  <2>1. CASE PathStep
    <3>1. Edge(Path!AdmittedBurst)
      BY <2>1, PathStepIsEdge
    <3>2. ~Drop(Path!AdmittedBurst)
      BY GatedWires DEF Drop
    <3>3. overflow_sticky' = overflow_sticky
      BY <3>1, <3>2 DEF Edge, Admit, Drain
    <3> QED BY <2>1, <3>3 DEF PathStep, NoOverflow, Path!NoOverflow
  <2>2. CASE part # "path" /\ part' = part
    BY <2>2 DEF NoOverflow
  <2>3. CASE UNCHANGED all
    BY <2>3 DEF all, vars, NoOverflow, Path!NoOverflow
  <2> QED BY <2>1, <2>2, <2>3 DEF RevokersNext, PathStep
<1> QED BY <1>1, <1>2, WiresInvariant, PTL DEF Revokers

(* From the cycle in which it is presented to the one in which its line is *)
(* cleared, a revocation holds the prefetcher: at the door by the decoded  *)
(* event, and in the ring because a line that is owed is queued.           *)
THEOREM PathHoldsRevocations == Revokers => []RevocationIsHeld
<1>1. TypeOK /\ OwedIsHeld => RevocationIsHeld
  <2> SUFFICES ASSUME TypeOK, OwedIsHeld,
                      NEW l \in ({dma, Path!chiLine, io} \ {NoLine}) \cup owed
               PROVE  Path!DmpHold
    BY DEF RevocationIsHeld, Path!RevocationIsHeld
  <2>1. CASE l \in {dma, Path!chiLine, io} \ {NoLine}
    BY <2>1 DEF Path!DmpHold, Path!Door!DecodedSourceEvent
  <2>2. CASE l \in owed
    <3>1. overflow_sticky \/ count # 0
      BY <2>2 DEF OwedIsHeld, TypeOK
    <3> QED BY <3>1 DEF Path!DmpHold, Path!Ring!RevocationHold
  <2> QED BY <2>1, <2>2
<1> QED BY <1>1, RingPart, TypeCorrect, RevocationsAreKept, PTL

-----------------------------------------------------------------------------
(* In the contract a queue that is ready holds the whole burst when its    *)
(* oldest line has been taken, so that appending one line at a time is     *)
(* concatenation and nothing is cut off.                                   *)
ContractOK ==
    /\ shift_q \in Seq(SourceLine)
    /\ Len(shift_q) <= DEPTH
    /\ shift_overflow \in BOOLEAN
    /\ Contract!QueuesAgree

(* A queue that has drained has room for a burst when it said so.          *)
LEMMA Popped ==
    ASSUME NEW q \in Seq(SourceLine), Len(q) <= DEPTH
    PROVE  /\ Contract!Popped(q) \in Seq(SourceLine)
           /\ Len(Contract!Popped(q)) <= DEPTH
           /\ Contract!Ready(q) => Len(Contract!Popped(q)) + 3 <= DEPTH
<1>1. CASE q = << >>
  BY <1>1 DEF Contract!Popped, Contract!Ready
<1>2. CASE q # << >>
  <2>1. Tail(q) \in Seq(SourceLine) /\ Len(Tail(q)) = Len(q) - 1
    BY <1>2
  <2>2. Len(q) \in Nat
    OBVIOUS
  <2> QED BY <1>2, <2>1, <2>2 DEF Contract!Popped, Contract!Ready
<1> QED BY <1>1, <1>2

(* Enqueued one by one, events that fit are those of the queue and then    *)
(* those of the burst, none of them twice or left out.                     *)
LEMMA AppendedIsConcat ==
    ASSUME NEW q \in Seq(SourceLine), NEW lines \in Seq(SourceLine),
           Len(lines) <= 3, Len(q) + Len(lines) <= DEPTH
    PROVE  Contract!Appended(q, lines) = q \o lines
<1>2. Len(lines) \in 0 .. 3 /\ Len(q) \in Nat
  <2>1. Len(lines) \in Nat /\ Len(q) \in Nat
    OBVIOUS
  <2>2. \A n \in Nat : n <= 3 => n \in 0 .. 3
    OBVIOUS
  <2> QED BY <2>1, <2>2
<1> DEFINE q1 == Contract!AppendedLine(q, lines, 1)
           q2 == Contract!AppendedLine(q1, lines, 2)
           q3 == Contract!AppendedLine(q2, lines, 3)
           First(k) == q \o SubSeq(lines, 1, k)
<1>1. Contract!Appended(q, lines) = q3
  BY DEF Contract!Appended
<1>3. ASSUME NEW k \in 1 .. 3, NEW p, p = First(k - 1), k <= Len(lines)
      PROVE  Contract!AppendedLine(p, lines, k) = First(k)
  <2>1. /\ SubSeq(lines, 1, k - 1) \in Seq(SourceLine)
        /\ Len(SubSeq(lines, 1, k - 1)) = k - 1
        /\ SubSeq(lines, 1, k) = Append(SubSeq(lines, 1, k - 1), lines[k])
    BY <1>3
  <2>2. /\ p \in Seq(SourceLine)
        /\ Len(p) = Len(q) + k - 1
    BY <1>3, <2>1
  <2>3. Len(p) < DEPTH
    BY <1>2, <1>3, <2>2
  <2>4. lines[k] \in SourceLine
    BY <1>3
  <2>5. Append(p, lines[k]) = First(k)
    BY <2>1, <2>4, <1>3, SMTT(30)
  <2> QED BY <1>3, <2>3, <2>5 DEF Contract!AppendedLine
<1>4. ASSUME NEW k \in 1 .. 3, NEW p, ~(k <= Len(lines))
      PROVE  Contract!AppendedLine(p, lines, k) = p
  BY <1>4 DEF Contract!AppendedLine
<1>5. First(0) = q
  OBVIOUS
<1>6. First(Len(lines)) = q \o lines
  BY SubSeqFull
<1> HIDE DEF First
<1>7. CASE Len(lines) = 0
  BY <1>1, <1>4, <1>5, <1>6, <1>7
<1>8. CASE Len(lines) = 1
  BY <1>1, <1>3, <1>4, <1>5, <1>6, <1>8
<1>9. CASE Len(lines) = 2
  BY <1>1, <1>3, <1>4, <1>5, <1>6, <1>9
<1>10. CASE Len(lines) = 3
  BY <1>1, <1>3, <1>4, <1>5, <1>6, <1>10, SMTT(30)
<1> QED BY <1>2, <1>7, <1>8, <1>9, <1>10

(* Whatever the contract presents is a burst.                              *)
LEMMA ContractBurst ==
    ASSUME NEW sources \in Contract!Burst
    PROVE  IsBurst(sources)
BY DEF Contract!Burst, IsBurst

(* One transition of the contract, obeying ready or not, does the same to  *)
(* the ring as to the shift queue.                                         *)
LEMMA ContractStep ==
    ASSUME ContractOK, NEW sources, IsBurst(sources), NEW obey \in BOOLEAN,
           Contract!Transition(sources, obey)
    PROVE  ContractOK'
<1> DEFINE q == Contract!Popped(shift_q)
<1>1. ring_q = shift_q /\ ring_overflow = shift_overflow
  BY DEF ContractOK, Contract!QueuesAgree
<1>2. /\ q \in Seq(SourceLine)
      /\ Len(q) <= DEPTH
      /\ Contract!Ready(shift_q) => Len(q) + 3 <= DEPTH
  BY Popped DEF ContractOK
<1>3. /\ sources \in Seq(SourceLine)
      /\ Len(sources) \in Nat /\ Len(sources) <= 3
      /\ Len(q) \in Nat
  <2>1. PICK n \in 0 .. 3 : n = Len(sources)
    BY DEF IsBurst
  <2>2. Len(q) \in Nat
    BY <1>2, LenProperties
  <2>3. n \in Nat /\ n <= 3
    OBVIOUS
  <2> QED BY <2>1, <2>2, <2>3 DEF IsBurst
<1>4. CASE sources # << >> /\ ~Contract!Ready(shift_q)
  BY <1>1, <1>2, <1>4 DEF Contract!Transition, Contract!ShiftTransition,
     Contract!RingTransition, ContractOK, Contract!QueuesAgree
<1>5. CASE ~(sources # << >> /\ ~Contract!Ready(shift_q))
  <2>1. Len(q) + Len(sources) <= DEPTH
    <3>1. CASE sources = << >>
      <4>1. Len(sources) = 0
        BY <3>1
      <4> QED BY <4>1, <1>2, <1>3
    <3>2. CASE Contract!Ready(shift_q)
      BY <1>2, <1>3, <3>2
    <3> QED BY <1>5, <3>1, <3>2
  <2>2. Contract!Appended(q, sources) = q \o sources
    <3> HIDE DEF q
    <3> QED BY <1>2, <1>3, <2>1, AppendedIsConcat
  <2>3. q \o sources \in Seq(SourceLine) /\ Len(q \o sources) = Len(q) + Len(sources)
    BY <1>2, <1>3
  <2>4. ~(Len(q \o sources) > DEPTH) /\ ~(Len(q) + Len(sources) > DEPTH)
    BY <1>3, <2>1, <2>3
  <2> HIDE DEF q
  <2>5. /\ shift_q' = q \o sources
        /\ shift_overflow' = shift_overflow
    BY <1>5, <2>2, <2>4
       DEF Contract!Transition, Contract!ShiftTransition, ContractOK, q
  <2>6. /\ ring_q' = q \o sources
        /\ ring_overflow' = ring_overflow
    BY <1>1, <1>5, <2>4
       DEF Contract!Transition, Contract!RingTransition, ContractOK, q
  <2> QED BY <1>1, <2>1, <2>3, <2>5, <2>6 DEF ContractOK, Contract!QueuesAgree
<1> QED BY <1>4, <1>5

(* Under any bursts, those that ignore ready included, the ring and the    *)
(* shift queue of the contract hold the same lines.                        *)
THEOREM ContractQueuesAgree == Revokers => []QueuesAgree
<1>1. Contract!Init => ContractOK
  <2>1. << >> \in Seq(SourceLine) /\ Len(<< >>) = 0 /\ 0 <= DEPTH
    OBVIOUS
  <2> QED BY <2>1 DEF Contract!Init, ContractOK, Contract!QueuesAgree
<1>2. ContractOK /\ [Contract!Next]_(Contract!vars) => ContractOK'
  <2>1. CASE Contract!Next
    BY <2>1, ContractBurst, ContractStep DEF Contract!Next
  <2>2. CASE UNCHANGED Contract!vars
    BY <2>2 DEF Contract!vars, ContractOK, Contract!QueuesAgree
  <2> QED BY <2>1, <2>2
<1>3. ContractOK => QueuesAgree
  BY DEF ContractOK, QueuesAgree
<1> QED BY <1>1, <1>2, <1>3, ContractPart, PTL DEF Contract!Spec

-----------------------------------------------------------------------------
(* The lines of a queue: those of its parts together.                      *)
Elements(s) == {s[i] : i \in DOMAIN s}

(* What a concatenation holds is what its parts hold.                      *)
LEMMA ElementsOfConcat ==
    ASSUME NEW S, NEW s \in Seq(S), NEW t \in Seq(S)
    PROVE  Elements(s \o t) = Elements(s) \cup Elements(t)
<1>1. /\ s \o t \in Seq(S)
      /\ Len(s \o t) = Len(s) + Len(t)
      /\ \A i \in 1 .. Len(s) + Len(t) :
            (s \o t)[i] = IF i <= Len(s) THEN s[i] ELSE t[i - Len(s)]
  BY ConcatProperties
<1>2. /\ DOMAIN s = 1 .. Len(s) /\ DOMAIN t = 1 .. Len(t)
      /\ DOMAIN (s \o t) = 1 .. Len(s) + Len(t)
      /\ Len(s) \in Nat /\ Len(t) \in Nat
  BY <1>1, LenProperties
<1>3. ASSUME NEW i \in DOMAIN (s \o t)
      PROVE  (s \o t)[i] \in Elements(s) \cup Elements(t)
  <2>1. CASE i <= Len(s)
    <3>1. i \in DOMAIN s /\ (s \o t)[i] = s[i]
      BY <1>1, <1>2, <2>1
    <3> QED BY <3>1 DEF Elements
  <2>2. CASE ~(i <= Len(s))
    <3>1. i - Len(s) \in DOMAIN t /\ (s \o t)[i] = t[i - Len(s)]
      BY <1>1, <1>2, <2>2
    <3> QED BY <3>1 DEF Elements
  <2> QED BY <2>1, <2>2
<1>4. ASSUME NEW i \in DOMAIN s PROVE s[i] \in Elements(s \o t)
  <2>1. i \in DOMAIN (s \o t) /\ (s \o t)[i] = s[i]
    BY <1>1, <1>2
  <2> QED BY <2>1 DEF Elements
<1>5. ASSUME NEW i \in DOMAIN t PROVE t[i] \in Elements(s \o t)
  <2>1. /\ Len(s) + i \in DOMAIN (s \o t)
        /\ (s \o t)[Len(s) + i] = t[i]
    BY <1>1, <1>2
  <2> QED BY <2>1 DEF Elements
<1> QED BY <1>3, <1>4, <1>5 DEF Elements

(* What a queue holds is its head and what the rest holds.                 *)
LEMMA ElementsOfTail ==
    ASSUME NEW S, NEW s \in Seq(S), s # << >>
    PROVE  Elements(s) = {Head(s)} \cup Elements(Tail(s))
<1>1. /\ Tail(s) \in Seq(S)
      /\ Len(Tail(s)) = Len(s) - 1
      /\ \A i \in 1 .. Len(Tail(s)) : Tail(s)[i] = s[i + 1]
      /\ Head(s) = s[1]
  BY HeadTailProperties
<1>2. /\ DOMAIN s = 1 .. Len(s) /\ DOMAIN Tail(s) = 1 .. Len(s) - 1
      /\ Len(s) \in Nat /\ Len(s) # 0
  BY <1>1, LenProperties, EmptySeq
<1>3. ASSUME NEW i \in DOMAIN s
      PROVE  s[i] \in {Head(s)} \cup Elements(Tail(s))
  <2>1. CASE i = 1
    BY <1>1, <2>1
  <2>2. CASE i # 1
    <3>1. i - 1 \in DOMAIN Tail(s) /\ Tail(s)[i - 1] = s[i]
      BY <1>1, <1>2, <2>2
    <3> QED BY <3>1 DEF Elements
  <2> QED BY <2>1, <2>2
<1>4. ASSUME NEW i \in DOMAIN Tail(s) PROVE Tail(s)[i] \in Elements(s)
  <2>1. i + 1 \in DOMAIN s /\ Tail(s)[i] = s[i + 1]
    BY <1>1, <1>2
  <2> QED BY <2>1 DEF Elements
<1>5. Head(s) \in Elements(s)
  <2>1. 1 \in DOMAIN s
    BY <1>2
  <2> QED BY <1>1, <2>1 DEF Elements
<1> QED BY <1>3, <1>4, <1>5 DEF Elements

(* An empty queue holds nothing.                                           *)
LEMMA ElementsOfEmpty == Elements(<< >>) = {}
BY DEF Elements

-----------------------------------------------------------------------------
(* The hold on its own: unless the queue has overflowed, a line that an    *)
(* event has named has lost its authority or is queued, and no other line  *)
(* has or is; witnesses lose theirs at once.                               *)
HoldOK ==
    /\ ho_queue \in Seq(CsLine)
    /\ ho_overflow \in BOOLEAN
    /\ live_source \subseteq CsLine
    /\ revoked_source \subseteq CsLine
    /\ ~ho_overflow => revoked_source = (CsLine \ live_source) \cup Elements(ho_queue)
    /\ live_target = CsHold!Witness \ revoked_target

(* An event names lines and witnesses, and nothing else.                   *)
LEMMA HoldEvent ==
    ASSUME NEW e \in CsHold!Event
    PROVE  e.lines \in Seq(CsLine) /\ e.witnesses \subseteq CsHold!Witness
<1>1. \A l \in CsLine : <<l>> \in Seq(CsLine)
  OBVIOUS
<1>2. << >> \in Seq(CsLine)
  OBVIOUS
<1>3. \A k \in Token : {k} \X Target \subseteq CsHold!Witness
  BY DEF CsHold!Witness
<1>4. \/ \E s \in Seq(CsLine) : e = [lines |-> s, witnesses |-> {}]
      \/ \E ws \in SUBSET CsHold!Witness : e = [lines |-> << >>, witnesses |-> ws]
  BY <1>1, <1>2, <1>3, BurstAssumption DEF CsHold!Event
<1>5. ASSUME NEW s \in Seq(CsLine), e = [lines |-> s, witnesses |-> {}]
      PROVE  e.lines = s /\ e.witnesses = {}
  BY <1>5
<1>6. ASSUME NEW ws \in SUBSET CsHold!Witness, e = [lines |-> << >>, witnesses |-> ws]
      PROVE  e.lines = << >> /\ e.witnesses = ws
  BY <1>6
<1> QED BY <1>2, <1>4, <1>5, <1>6

(* One transition of the hold: the head of the queue is drained, then the  *)
(* event is applied, whether its lines fit or overflow.                    *)
LEMMA HoldStep ==
    ASSUME HoldOK, NEW e \in CsHold!Event, CsHold!Transition(e)
    PROVE  HoldOK'
<1> DEFINE undrained == IF ho_queue = << >> THEN << >> ELSE Tail(ho_queue)
           q == undrained \o e.lines
<1>1. e.lines \in Seq(CsLine) /\ e.witnesses \subseteq CsHold!Witness
  BY HoldEvent
<1>2. /\ undrained \in Seq(CsLine)
      /\ Elements(ho_queue) = CsHold!Cleared \cup Elements(undrained)
      /\ CsHold!Cleared \subseteq CsLine
      /\ Len(undrained) = Len(ho_queue) - (IF ho_queue = << >> THEN 0 ELSE 1)
  <2>1. CASE ho_queue = << >>
    BY <2>1, ElementsOfEmpty DEF CsHold!Cleared
  <2>2. CASE ho_queue # << >>
    BY <2>2, ElementsOfTail, HeadTailProperties DEF CsHold!Cleared, HoldOK
  <2> QED BY <2>1, <2>2
<1> HIDE DEF undrained
<1>3. /\ q \in Seq(CsLine)
      /\ Len(q) = Len(undrained) + Len(e.lines)
      /\ Elements(q) = Elements(undrained) \cup Elements(e.lines)
      /\ Len(q) \in Nat
  <2>1. q \in Seq(CsLine) /\ Len(q) = Len(undrained) + Len(e.lines)
    BY <1>1, <1>2, ConcatProperties
  <2>2. Elements(q) = Elements(undrained) \cup Elements(e.lines)
    BY <1>1, <1>2, ElementsOfConcat
  <2>3. Len(q) \in Nat
    BY <2>1, LenProperties
  <2> QED BY <2>1, <2>2, <2>3
<1>4. ho_queue' = SubSeq(q, 1, IF Len(q) < CsDepth THEN Len(q) ELSE CsDepth)
  BY DEF CsHold!Transition, CsHold!Waiting, undrained
<1>5. CsHold!Fits(e.lines) <=> Len(q) <= CsDepth
  BY <1>2, <1>3 DEF CsHold!Fits
<1> HIDE DEF q
<1>6. ho_queue' \in Seq(CsLine)
  <2>1. \A i \in 1 .. Len(q) : q[i] \in CsLine
    BY <1>3
  <2>2. CASE Len(q) < CsDepth
    BY <1>3, <1>4, <2>2, SubSeqFull
  <2>3. CASE ~(Len(q) < CsDepth)
    <3>1. 1 .. CsDepth \subseteq 1 .. Len(q)
      BY <1>3, <2>3, CsDepthAssumption
    <3>2. \A i \in 1 .. CsDepth : q[i] \in CsLine
      BY <2>1, <3>1
    <3>3. SubSeq(q, 1, CsDepth) \in Seq(CsLine)
      BY <3>2, CsDepthAssumption, SubSeqProperties
    <3> QED BY <1>4, <2>3, <3>3
  <2> QED BY <2>2, <2>3
<1>7. ASSUME Len(q) <= CsDepth PROVE ho_queue' = q
  <2>1. (IF Len(q) < CsDepth THEN Len(q) ELSE CsDepth) = Len(q)
    BY <1>3, <1>7, CsDepthAssumption
  <2> QED BY <1>3, <1>4, <2>1, SubSeqFull
<1>8. /\ ho_overflow' = (ho_overflow \/ ~(Len(q) <= CsDepth))
      /\ live_source' = live_source \ CsHold!Cleared
      /\ revoked_source' = revoked_source \cup Elements(e.lines)
      /\ live_target' = live_target \ e.witnesses
      /\ revoked_target' = revoked_target \cup e.witnesses
  BY <1>5 DEF CsHold!Transition, CsHold!ToSet, Elements
<1>9. Elements(e.lines) \subseteq CsLine
  BY <1>1 DEF Elements
<1>10. ASSUME ~ho_overflow'
       PROVE  revoked_source' = (CsLine \ live_source') \cup Elements(ho_queue')
  <2>1. ho_queue' = q /\ ~ho_overflow
    BY <1>7, <1>8, <1>10
  <2>2. revoked_source = (CsLine \ live_source) \cup Elements(ho_queue)
    BY <2>1 DEF HoldOK
  <2> QED BY <1>2, <1>3, <1>8, <2>1, <2>2 DEF HoldOK
<1> QED BY <1>6, <1>8, <1>9, <1>10 DEF HoldOK

(* A candidate issues exactly when no event has named its line or its      *)
(* witness, for any lines, witnesses, bursts and depth of the queue.       *)
THEOREM HoldIsExact == Revokers => []HoldIssueIsExact
<1>1. CsHold!Init => HoldOK
  <2>1. << >> \in Seq(CsLine)
    OBVIOUS
  <2> QED BY <2>1, ElementsOfEmpty DEF CsHold!Init, HoldOK
<1>2. HoldOK /\ [CsHold!Next]_(CsHold!vars) => HoldOK'
  <2>1. CASE CsHold!Next
    BY <2>1, HoldStep DEF CsHold!Next
  <2>2. CASE UNCHANGED CsHold!vars
    BY <2>2 DEF CsHold!vars, HoldOK, CsHold!Witness
  <2> QED BY <2>1, <2>2
<1>3. HoldOK => HoldIssueIsExact
  <2> SUFFICES ASSUME HoldOK, NEW e \in CsHold!Event, NEW c \in CsHold!Query
               PROVE  LET named == \/ c.src \in revoked_source \cup CsHold!ToSet(e.lines)
                                   \/ <<c.token, c.tgt>> \in revoked_target \cup e.witnesses
                      IN  /\ CsHold!IssueAllowed(e, c) => ~named
                          /\ ~named => ho_overflow \/ CsHold!IssueAllowed(e, c)
    BY DEF HoldIssueIsExact, CsHold!IssueIsExact
  <2>1. c.src \in CsLine /\ <<c.token, c.tgt>> \in CsHold!Witness
    BY DEF CsHold!Query, CsHold!Witness
  <2>2. CsHold!ToSet(ho_queue) = Elements(ho_queue)
    BY DEF CsHold!ToSet, Elements
  <2> QED BY <2>1, <2>2 DEF HoldOK, CsHold!IssueAllowed, CsHold!Authorized,
             CsHold!VariantHold, CsHold!TargetConflict
<1> QED BY <1>1, <1>2, <1>3, HoldPart, PTL DEF CsHold!Spec

-----------------------------------------------------------------------------
(* The composed contract: a proof that is no longer true belongs to a line *)
(* whose clear is queued, unless the queue has overflowed, and the         *)
(* witnesses are the true ones.                                            *)
ComposedOK ==
    /\ co_queue \in Seq(CsLine)
    /\ co_overflow \in BOOLEAN
    /\ ~co_overflow => clpd_source \subseteq truth_source \cup Elements(co_queue)
    /\ ctlw_target = truth_target

(* An event of the composed contract names lines, and nothing else.        *)
LEMMA ComposedEvent ==
    ASSUME NEW e \in Cs!Event
    PROVE  e.lines \in Seq(CsLine)
<1>1. \A l \in CsLine : <<l>> \in Seq(CsLine)
  OBVIOUS
<1>2. << >> \in Seq(CsLine)
  OBVIOUS
<1>3. \A l : /\ Cs!CommitSource(l).lines = << >>
             /\ Cs!RecordTarget(l).lines = << >>
             /\ Cs!SourceEvent(l).lines = l
             /\ Cs!TargetEvent(l).lines = << >>
             /\ Cs!Idle.lines = << >>
  BY DEF Cs!Idle, Cs!CommitSource, Cs!RecordTarget, Cs!SourceEvent, Cs!TargetEvent
<1>4. \/ e.lines = << >>
      \/ \E s \in Seq(CsLine) : e = Cs!SourceEvent(s)
  BY <1>1, <1>3, BurstAssumption DEF Cs!Event
<1> QED BY <1>2, <1>3, <1>4

(* One transition of the composed contract: the gates and the hold both    *)
(* take the same event, and stay in step.                                  *)
LEMMA ComposedStep ==
    ASSUME ComposedOK, NEW e \in Cs!Event, Cs!Transition(e)
    PROVE  ComposedOK'
<1> DEFINE q == Cs!Undrained \o e.lines
<1>1. e.lines \in Seq(CsLine)
  BY ComposedEvent
<1>2. /\ Cs!Undrained \in Seq(CsLine)
      /\ Elements(co_queue) = Cs!Drained \cup Elements(Cs!Undrained)
  <2>1. CASE co_queue = << >>
    BY <2>1, ElementsOfEmpty DEF Cs!Drained, Cs!Undrained, ComposedOK
  <2>2. CASE co_queue # << >>
    BY <2>2, ElementsOfTail, HeadTailProperties
       DEF Cs!Drained, Cs!Undrained, ComposedOK
  <2> QED BY <2>1, <2>2
<1>3. /\ q \in Seq(CsLine)
      /\ Len(q) = Len(Cs!Undrained) + Len(e.lines)
      /\ Elements(q) = Elements(Cs!Undrained) \cup Elements(e.lines)
      /\ Len(q) \in Nat
  <2>1. q \in Seq(CsLine) /\ Len(q) = Len(Cs!Undrained) + Len(e.lines)
    BY <1>1, <1>2, ConcatProperties
  <2>2. Elements(q) = Elements(Cs!Undrained) \cup Elements(e.lines)
    BY <1>1, <1>2, ElementsOfConcat
  <2>3. Len(q) \in Nat
    BY <2>1, LenProperties
  <2> QED BY <2>1, <2>2, <2>3
<1>4. /\ co_queue' = [i \in {j \in 1 .. Len(q) : j <= CsDepth} |-> q[i]]
      /\ co_overflow' = (co_overflow \/ Len(q) > CsDepth)
      /\ truth_source' = (truth_source \cup e.commits) \ Elements(e.lines)
      /\ clpd_source' = (clpd_source \ Cs!Drained) \cup e.commits
      /\ ctlw_target' = truth_target'
  BY <1>3 DEF Cs!Transition, Cs!Waiting, Cs!Overflow, Cs!ClpdAfter,
              Cs!TruthSourceAfter, Cs!Lines, Elements, Cs!CtlwAfter,
              Cs!TruthTargetAfter, ComposedOK
<1> HIDE DEF q
<1>5. /\ co_queue' \in Seq(CsLine)
      /\ Len(q) <= CsDepth => co_queue' = q
  <2> DEFINE n == IF Len(q) <= CsDepth THEN Len(q) ELSE CsDepth
  <2>1. n \in 0 .. Len(q)
    BY <1>3, CsDepthAssumption
  <2>2. {j \in 1 .. Len(q) : j <= CsDepth} = 1 .. n
    BY <1>3, CsDepthAssumption
  <2>3. /\ \A i \in 1 .. Len(q) : q[i] \in CsLine
        /\ q = [i \in 1 .. Len(q) |-> q[i]]
    BY <1>3
  <2>4. co_queue' = [i \in 1 .. n |-> q[i]]
    BY <1>4, <2>2
  <2>5. n \in Nat /\ \A i \in 1 .. n : q[i] \in CsLine
    BY <1>3, <2>1, <2>3
  <2>6. Len(q) <= CsDepth => n = Len(q)
    OBVIOUS
  <2> HIDE DEF n
  <2> QED BY <2>3, <2>4, <2>5, <2>6
<1>6. ASSUME ~co_overflow'
      PROVE  clpd_source' \subseteq truth_source' \cup Elements(co_queue')
  <2>1. /\ ~co_overflow
        /\ co_queue' = q
    <3>1. ~co_overflow /\ ~(Len(q) > CsDepth)
      BY <1>4, <1>6
    <3>2. Len(q) <= CsDepth
      BY <1>3, <3>1, CsDepthAssumption
    <3> QED BY <1>5, <3>1, <3>2
  <2>2. clpd_source \subseteq truth_source \cup Elements(co_queue)
    BY <2>1 DEF ComposedOK
  <2> QED BY <1>2, <1>3, <1>4, <2>1, <2>2
<1> QED BY <1>4, <1>5, <1>6 DEF ComposedOK

(* What issues is true before and after the event of its cycle, and a true *)
(* candidate that nothing names issues.                                    *)
THEOREM ComposedHoldIsExact == Revokers => []ComposedIssueIsExact
<1>1. Cs!Init => ComposedOK
  <2>1. << >> \in Seq(CsLine)
    OBVIOUS
  <2> QED BY <2>1 DEF Cs!Init, ComposedOK
<1>2. ComposedOK /\ [Cs!Next]_(Cs!vars) => ComposedOK'
  <2>1. CASE Cs!Next
    BY <2>1, ComposedStep DEF Cs!Next
  <2>2. CASE UNCHANGED Cs!vars
    BY <2>2 DEF Cs!vars, ComposedOK
  <2> QED BY <2>1, <2>2
<1>3. ComposedOK => ComposedIssueIsExact
  <2> SUFFICES ASSUME ComposedOK, NEW e \in Cs!Event, NEW c \in Cs!Query
               PROVE  /\ Cs!IssueAllowed(e, c) =>
                           /\ Cs!GroundTruthAuthorized(c)
                           /\ c.src \in Cs!TruthSourceAfter(e)
                           /\ <<c.token, c.tgt>> \in Cs!TruthTargetAfter(e)
                      /\ (/\ Cs!GroundTruthAuthorized(c)
                          /\ c.src \in clpd_source
                                 \ (Cs!Lines(e.lines) \cup Cs!Lines(co_queue))
                          /\ <<c.token, c.tgt>> \notin e.witnesses
                         => co_overflow \/ Cs!IssueAllowed(e, c))
    BY DEF ComposedIssueIsExact, Cs!IssueIsTrue, Cs!HoldIsScoped
  <2>1. Cs!Lines(co_queue) = Elements(co_queue)
    BY DEF Cs!Lines, Elements
  <2> QED BY <2>1 DEF ComposedOK, Cs!IssueAllowed, Cs!MetadataAuthorized,
             Cs!Hold, Cs!GroundTruthAuthorized, Cs!TruthSourceAfter,
             Cs!TruthTargetAfter
<1> QED BY <1>1, <1>2, <1>3, ComposedPart, PTL DEF Cs!Spec

(* A commit survives the older revocation that drains in its cycle.        *)
THEOREM CommitsAreUsed == Revokers => CommitIsUsed
<1>1. [Cs!Next]_(Cs!vars) => [truth_source' \ truth_source \subseteq clpd_source']_(Cs!vars)
  BY DEF Cs!Next, Cs!Transition, Cs!TruthSourceAfter, Cs!ClpdAfter
<1> QED BY <1>1, ComposedPart, PTL DEF Cs!Spec, CommitIsUsed, Cs!CommitIsUsed

-----------------------------------------------------------------------------
(* The lines between the pointers of the ring, as a queue.                 *)
LEMMA WaitingIsQueue ==
    ASSUME TypeOK, RingShape
    PROVE  /\ Waiting \in Seq(SourceLine)
           /\ Len(Waiting) = count
           /\ \A i \in 1 .. count : Waiting[i] = queue[SlotAfter(head, i - 1)]
           /\ Waiting = << >> <=> count = 0
           /\ ClearLine = IF Waiting # << >> THEN Head(Waiting) ELSE NoLine
<1>1. count \in Nat /\ head \in Slot /\ count \in 0 .. DEPTH
  BY DEF TypeOK
<1>2. ASSUME NEW i \in 1 .. count
      PROVE  queue[SlotAfter(head, i - 1)] \in SourceLine
  <2>1. i - 1 \in 0 .. count - 1
    BY <1>1
  <2> QED BY <2>1 DEF RingShape
<1>3. Waiting \in Seq(SourceLine) /\ Len(Waiting) = count
  BY <1>1, <1>2 DEF Waiting
<1>4. \A i \in 1 .. count : Waiting[i] = queue[SlotAfter(head, i - 1)]
  BY DEF Waiting
<1>5. Waiting = << >> <=> count = 0
  BY <1>3, EmptySeq
<1>6. ASSUME count # 0 PROVE Head(Waiting) = queue[head]
  <2>1. Head(Waiting) = Waiting[1]
    BY <1>3, <1>5, <1>6
  <2>2. 1 \in 1 .. count /\ SlotAfter(head, 1 - 1) = head
    BY <1>1, <1>6 DEF SlotAfter, Slot
  <2> QED BY <1>4, <2>1, <2>2
<1> QED BY <1>3, <1>4, <1>5, <1>6 DEF ClearLine

(* A clear takes the oldest line, and what is admitted is queued behind    *)
(* the youngest.                                                           *)
LEMMA WaitingStep ==
    ASSUME TypeOK, RingShape, TypeOK', NEW burst, IsBurst(burst), Edge(burst)
    PROVE  /\ Admit(burst) => Waiting' = Contract!Popped(Waiting) \o burst
           /\ ~Admit(burst) => Waiting' = Contract!Popped(Waiting)
<1> DEFINE popped == Contract!Popped(Waiting)
<1>1. Dequeue
  BY DEF Edge, Admit, Drop, Drain
<1>2. RingShape'
  BY RingShapeStep
<1>3. /\ Waiting' \in Seq(SourceLine)
      /\ Len(Waiting') = count'
      /\ \A i \in 1 .. count' : Waiting'[i] = queue'[SlotAfter(head', i - 1)]
  <2>1. /\ count' \in Nat
        /\ \A i \in 1 .. count' : i - 1 \in 0 .. count' - 1
    <3>1. count' \in 0 .. DEPTH
      BY DEF TypeOK
    <3>2. \A n \in 0 .. DEPTH :
             n \in Nat /\ \A i \in 1 .. n : i - 1 \in 0 .. n - 1
      OBVIOUS
    <3> QED BY <3>1, <3>2
  <2>2. \A i \in 0 .. count' - 1 : queue'[SlotAfter(head', i)] \in SourceLine
    BY <1>2 DEF RingShape
  <2>3. \A i \in 1 .. count' : queue'[SlotAfter(head', i - 1)] \in SourceLine
    BY <2>1, <2>2
  <2>4. Waiting' = [i \in 1 .. count' |-> queue'[SlotAfter(head', i - 1)]]
    BY DEF Waiting, SlotAfter
  <2> QED BY <2>1, <2>3, <2>4
<1>4. /\ Drained \in 0 .. DEPTH
      /\ Drained = count - Cleared
      /\ count \in 0 .. DEPTH
      /\ Cleared \in 0 .. 1
  BY <1>1, DequeueShape DEF TypeOK, Cleared
<1>5. /\ popped \in Seq(SourceLine)
      /\ Len(popped) = Drained
      /\ \A i \in 1 .. Drained : popped[i] = queue[SlotAfter(head', i - 1)]
  <2>1. CASE count = 0
    <3>1. popped = << >> /\ Drained = 0
      BY <2>1, WaitingIsQueue DEF Contract!Popped, Drained
    <3> QED BY <3>1
  <2>2. CASE count # 0
    <3>1. popped = Tail(Waiting) /\ Waiting # << >>
      BY <2>2, WaitingIsQueue DEF Contract!Popped
    <3>2. /\ Tail(Waiting) \in Seq(SourceLine)
          /\ Len(Tail(Waiting)) = Len(Waiting) - 1
          /\ \A i \in 1 .. Len(Waiting) - 1 : Tail(Waiting)[i] = Waiting[i + 1]
      BY <3>1, WaitingIsQueue, HeadTailProperties
    <3>3. Len(Waiting) = count /\ Drained = count - 1 /\ Cleared = 1
      BY <2>2, WaitingIsQueue DEF Drained, Cleared
    <3>4. ASSUME NEW i \in 1 .. Drained
          PROVE  popped[i] = queue[SlotAfter(head', i - 1)]
      <4>1. /\ i + 1 \in 1 .. count
            /\ i - 1 \in 0 .. Drained - 1
            /\ (i + 1) - 1 = (i - 1) + Cleared
        BY <3>3, <1>4
      <4>2. popped[i] = Waiting[i + 1]
        BY <3>1, <3>2, <3>3
      <4>3. Waiting[i + 1] = queue[SlotAfter(head, (i + 1) - 1)]
        BY <4>1, WaitingIsQueue
      <4>4. SlotAfter(head', i - 1) = SlotAfter(head, (i - 1) + Cleared)
        BY <1>1, <4>1, DequeueShape
      <4> QED BY <4>1, <4>2, <4>3, <4>4
    <3> QED BY <3>1, <3>2, <3>3, <3>4
  <2> QED BY <2>1, <2>2
<1> HIDE DEF popped
<1>6. ASSUME Admit(burst) PROVE Waiting' = popped \o burst
  <2>1. PICK n \in 0 .. 3 : n = Len(burst)
    BY DEF IsBurst
  <2>2. /\ \A i \in 0 .. Drained - 1 :
             queue'[SlotAfter(head', i)] = queue[SlotAfter(head', i)]
        /\ \A k \in 1 .. n :
             queue'[SlotAfter(head', Drained + k - 1)] = burst[k]
    BY <1>6, <2>1, AdmitContents
  <2>3. count' = Drained + n
    BY <1>6, <2>1 DEF Admit
  <2>4. /\ popped \o burst \in Seq(SourceLine)
        /\ Len(popped \o burst) = Drained + n
        /\ \A i \in 1 .. Drained + n :
             (popped \o burst)[i] = IF i <= Drained THEN popped[i]
                                    ELSE burst[i - Drained]
    <3>1. popped \in Seq(SourceLine) /\ burst \in Seq(SourceLine)
          /\ Len(popped) = Drained /\ Len(burst) = n /\ Drained \in Nat
      BY <1>2, <1>5, <2>1 DEF IsBurst
    <3>2. /\ popped \o burst \in Seq(SourceLine)
          /\ Len(popped \o burst) = Len(popped) + Len(burst)
          /\ \A i \in 1 .. Len(popped) + Len(burst) :
               (popped \o burst)[i] = IF i <= Len(popped) THEN popped[i]
                                      ELSE burst[i - Len(popped)]
      BY <3>1, ConcatProperties
    <3> QED BY <3>1, <3>2
  <2>5. ASSUME NEW i \in 1 .. count'
        PROVE  Waiting'[i] = (popped \o burst)[i]
    <3>1. CASE i <= Drained
      <4>1. i \in 1 .. Drained /\ i - 1 \in 0 .. Drained - 1
        BY <1>4, <3>1
      <4>2. queue'[SlotAfter(head', i - 1)] = queue[SlotAfter(head', i - 1)]
        BY <2>2, <4>1
      <4> QED BY <1>3, <1>5, <2>3, <2>4, <3>1, <4>1, <4>2
    <3>2. CASE ~(i <= Drained)
      <4>1. i - Drained \in 1 .. n /\ Drained + (i - Drained) - 1 = i - 1
        BY <1>4, <2>3, <3>2
      <4>2. queue'[SlotAfter(head', i - 1)] = burst[i - Drained]
        BY <2>2, <4>1
      <4> QED BY <1>3, <2>3, <2>4, <3>2, <4>2
    <3> QED BY <3>1, <3>2
  <2> QED BY <1>3, <2>3, <2>4, <2>5, SeqEqual
<1>7. ASSUME ~Admit(burst) PROVE Waiting' = popped
  <2>1. count' = Drained /\ queue' = queue
    BY <1>7 DEF Edge, Drop, Drain
  <2> QED BY <1>3, <1>5, <2>1, SeqEqual
<1> QED BY <1>6, <1>7 DEF popped

(* Ready means the same to the ring and to its contract.                   *)
LEMMA ReadyIsReady ==
    ASSUME TypeOK, RingShape
    PROVE  SourceEventsReady <=> Contract!Ready(Waiting)
BY WaitingIsQueue
   DEF Contract!Ready, SourceEventsReady, SpaceAfterDequeue

(* A clock edge of the ring is a transition of its contract, which obeys   *)
(* ready unless it drops the burst.                                        *)
LEMMA RingContractStep ==
    ASSUME TypeOK, RingShape, TypeOK', NEW burst, IsBurst(burst), Edge(burst)
    PROVE  RingContract!Next
<1> DEFINE popped == Contract!Popped(Waiting)
<1>1. burst \in Seq(SourceLine) /\ Len(burst) \in Nat /\ Len(burst) <= 3
  <2>1. PICK n \in 0 .. 3 : n = Len(burst)
    BY DEF IsBurst
  <2> QED BY <2>1 DEF IsBurst
<1>2. burst \in RingContract!Burst
  <2>1. burst \in [1 .. Len(burst) -> SourceLine] /\ Len(burst) \in 0 .. 3
    BY DEF IsBurst
  <2> QED BY <2>1 DEF RingContract!Burst
<1>3. /\ popped \in Seq(SourceLine)
      /\ Len(popped) <= DEPTH
      /\ Contract!Ready(Waiting) => Len(popped) + 3 <= DEPTH
      /\ Len(popped) \in Nat
  <2>1. Waiting \in Seq(SourceLine) /\ Len(Waiting) <= DEPTH
    BY WaitingIsQueue DEF TypeOK
  <2> QED BY <2>1, Popped, LenProperties
<1>4. /\ RingContract!Ready(Waiting) <=> SourceEventsReady
      /\ RingContract!Popped(Waiting) = popped
      /\ RingContract!Appended(popped, burst) = Contract!Appended(popped, burst)
  BY ReadyIsReady DEF RingContract!Ready, Contract!Ready, RingContract!Popped,
     Contract!Popped, RingContract!Appended, Contract!Appended,
     RingContract!AppendedLine, Contract!AppendedLine
<1> HIDE DEF popped
<1>5. CASE burst # << >> /\ ~SourceEventsReady
  <2>1. /\ Waiting' = popped
        /\ overflow_sticky'
    BY <1>5, WaitingStep DEF Edge, Drop, Drain, Admit, popped
  <2>2. RingContract!Transition(burst, FALSE)
    BY <1>4, <1>5, <2>1 DEF RingContract!Transition, TypeOK,
       RingContract!ShiftTransition, RingContract!RingTransition
  <2> QED BY <1>2, <2>2 DEF RingContract!Next
<1>6. CASE ~(burst # << >> /\ ~SourceEventsReady)
  <2>1. /\ Len(popped) + Len(burst) <= DEPTH
        /\ Waiting' = popped \o burst
    <3>1. CASE SourceEventsReady
      <4>1. Admit(burst)
        BY <3>1 DEF Edge, Drop, Drain
      <4>2. Len(popped) + 3 <= DEPTH
        BY <1>3, <3>1, ReadyIsReady
      <4> QED BY <1>1, <1>3, <4>1, <4>2, WaitingStep DEF popped
    <3>2. CASE ~SourceEventsReady
      <4>1. burst = << >> /\ ~Admit(burst)
        BY <1>6, <3>2 DEF Admit
      <4>2. Waiting' = popped
        BY <4>1, WaitingStep DEF popped
      <4>3. Len(burst) = 0 /\ popped \o burst = popped
        BY <1>3, <4>1, ConcatEmptySeq
      <4> QED BY <1>3, <4>2, <4>3
    <3> QED BY <3>1, <3>2
  <2>2. overflow_sticky' = overflow_sticky
    BY <1>6 DEF Edge, Admit, Drop, Drain
  <2>3. RingContract!Appended(popped, burst) = popped \o burst
    BY <1>1, <1>3, <1>4, <2>1, AppendedIsConcat
  <2>4. ~(Len(popped \o burst) > DEPTH) /\ ~(Len(popped) + Len(burst) > DEPTH)
    <3>1. Len(popped \o burst) = Len(popped) + Len(burst)
      BY <1>1, <1>3
    <3> QED BY <1>1, <1>3, <2>1, <3>1
  <2>5. overflow_sticky \in BOOLEAN
    BY DEF TypeOK
  <2>6. RingContract!ShiftTransition(burst, TRUE)
    BY <1>4, <1>6, <2>1, <2>2, <2>3, <2>4, <2>5
       DEF RingContract!ShiftTransition
  <2>7. RingContract!RingTransition(burst, TRUE)
    BY <1>4, <1>6, <2>1, <2>2, <2>4, <2>5 DEF RingContract!RingTransition
  <2> QED BY <1>2, <2>6, <2>7 DEF RingContract!Next, RingContract!Transition
<1> QED BY <1>5, <1>6

-----------------------------------------------------------------------------
(* What a port contributes to a burst.                                     *)
EventOf(line) == IF line = NoLine THEN << >> ELSE <<line>>

(* A port brings one line or none.                                         *)
LEMMA EventOfPort ==
    ASSUME NEW line \in OptLine
    PROVE  /\ EventOf(line) \in Seq(SourceLine)
           /\ Len(EventOf(line)) \in Nat /\ Len(EventOf(line)) <= 1
           /\ Elements(EventOf(line)) = {line} \ {NoLine}
<1>1. CASE line = NoLine
  BY <1>1, ElementsOfEmpty DEF EventOf
<1>2. CASE line # NoLine
  <2>1. line \in SourceLine /\ EventOf(line) = <<line>>
    BY <1>2 DEF OptLine, EventOf
  <2>2. /\ <<line>> \in Seq(SourceLine) /\ Len(<<line>>) = 1
        /\ DOMAIN <<line>> = {1} /\ <<line>>[1] = line
    BY <2>1
  <2>3. Elements(<<line>>) = {line}
    BY <2>2 DEF Elements
  <2> QED BY <1>2, <2>1, <2>2, <2>3
<1> QED BY <1>1, <1>2

(* Packed is the events of the three ports, in the order of the ports.     *)
LEMMA PackedEvents ==
    ASSUME NEW dm \in OptLine, NEW ch \in OptLine, NEW i \in OptLine
    PROVE  /\ Packed(dm, ch, i) = (EventOf(dm) \o EventOf(ch)) \o EventOf(i)
           /\ LinesOf(Packed(dm, ch, i)) = {dm, ch, i} \ {NoLine}
<1>1. Packed(dm, ch, i) = (EventOf(dm) \o EventOf(ch)) \o EventOf(i)
  BY DEF Packed, EventOf
<1>2. Elements(EventOf(dm) \o EventOf(ch)) = {dm, ch} \ {NoLine}
  BY EventOfPort, ElementsOfConcat
<1>3. EventOf(dm) \o EventOf(ch) \in Seq(SourceLine)
  BY EventOfPort, ConcatProperties
<1>4. Elements(Packed(dm, ch, i)) = {dm, ch, i} \ {NoLine}
  <2>1. Elements((EventOf(dm) \o EventOf(ch)) \o EventOf(i))
          = Elements(EventOf(dm) \o EventOf(ch)) \cup Elements(EventOf(i))
    <3>1. EventOf(i) \in Seq(SourceLine)
      BY EventOfPort
    <3>2. \A s, t \in Seq(SourceLine) :
             Elements(s \o t) = Elements(s) \cup Elements(t)
      BY ElementsOfConcat
    <3> QED BY <1>3, <3>1, <3>2
  <2>2. Elements(EventOf(i)) = {i} \ {NoLine}
    BY EventOfPort
  <2> QED BY <1>1, <1>2, <2>1, <2>2
<1>5. LinesOf(Packed(dm, ch, i)) = Elements(Packed(dm, ch, i))
  <2>1. Packed(dm, ch, i) \in Seq(SourceLine)
    BY PackedIsBurst DEF IsBurst
  <2>2. DOMAIN Packed(dm, ch, i) = 1 .. Len(Packed(dm, ch, i))
    BY <2>1
  <2> QED BY <2>2 DEF LinesOf, Elements
<1> QED BY <1>1, <1>4, <1>5

(* A shift queue with room for it takes the burst behind its lines.        *)
LEMMA EnqueueOne ==
    ASSUME NEW q \in Seq(SourceLine), NEW line \in OptLine,
           line = NoLine \/ Len(q) < DEPTH
    PROVE  /\ Shift!Enqueue(q, line) = q \o EventOf(line)
           /\ ~Shift!Lost(q, line)
           /\ q \o EventOf(line) \in Seq(SourceLine)
           /\ Len(q \o EventOf(line)) <= Len(q) + 1
<1>1. CASE line = NoLine
  <2>1. q \o << >> = q
    BY ConcatEmptySeq
  <2>2. Len(q) \in Nat
    BY LenProperties
  <2> QED BY <1>1, <2>1, <2>2 DEF Shift!Enqueue, Shift!Lost, EventOf
<1>2. CASE line # NoLine
  <2>1. line \in SourceLine /\ EventOf(line) = <<line>>
    BY <1>2 DEF OptLine, EventOf
  <2>2. Append(q, line) = q \o <<line>>
    BY <2>1, AppendIsConcat
  <2>3. /\ Append(q, line) \in Seq(SourceLine)
        /\ Len(Append(q, line)) = Len(q) + 1
        /\ Len(q) \in Nat
    BY <2>1, AppendProperties, LenProperties
  <2> QED BY <1>2, <2>1, <2>2, <2>3 DEF Shift!Enqueue, Shift!Lost
<1> QED BY <1>1, <1>2

(* The shift queue, when it was ready, takes all three ports and loses     *)
(* none: what the ring takes as a burst.                                   *)
LEMMA EnqueueBurst ==
    ASSUME NEW q \in Seq(SourceLine),
           NEW dm \in OptLine, NEW ch \in OptLine, NEW i \in OptLine,
           (dm = NoLine /\ ch = NoLine /\ i = NoLine) \/ Len(q) + 3 <= DEPTH
    PROVE  LET q1 == Shift!Enqueue(q, dm)
               q2 == Shift!Enqueue(q1, ch)
           IN  /\ Shift!Enqueue(q2, i) = q \o Packed(dm, ch, i)
               /\ ~Shift!Lost(q, dm) /\ ~Shift!Lost(q1, ch) /\ ~Shift!Lost(q2, i)
<1> DEFINE q1 == Shift!Enqueue(q, dm)
           q2 == Shift!Enqueue(q1, ch)
<1>1. Len(q) \in Nat
  BY LenProperties
<1>2. /\ q1 = q \o EventOf(dm) /\ ~Shift!Lost(q, dm)
      /\ q1 \in Seq(SourceLine) /\ Len(q1) <= Len(q) + 1
  <2>1. dm = NoLine \/ Len(q) < DEPTH
    BY <1>1
  <2> QED BY <2>1, EnqueueOne
<1>3. Len(q1) \in Nat
  BY <1>2, LenProperties
<1> HIDE DEF q1
<1>4. /\ q2 = q1 \o EventOf(ch) /\ ~Shift!Lost(q1, ch)
      /\ q2 \in Seq(SourceLine) /\ Len(q2) <= Len(q1) + 1
  <2>1. ch = NoLine \/ Len(q1) < DEPTH
    BY <1>1, <1>2, <1>3
  <2> QED BY <1>2, <2>1, EnqueueOne
<1>5. Len(q2) \in Nat
  BY <1>4, LenProperties
<1> HIDE DEF q2
<1>6. Shift!Enqueue(q2, i) = q2 \o EventOf(i) /\ ~Shift!Lost(q2, i)
  <2>1. i = NoLine \/ Len(q2) < DEPTH
    BY <1>1, <1>2, <1>3, <1>4, <1>5
  <2> QED BY <1>4, <2>1, EnqueueOne
<1>7. q2 \o EventOf(i) = q \o Packed(dm, ch, i)
  <2>1. /\ EventOf(dm) \in Seq(SourceLine)
        /\ EventOf(ch) \in Seq(SourceLine)
        /\ EventOf(i) \in Seq(SourceLine)
        /\ EventOf(dm) \o EventOf(ch) \in Seq(SourceLine)
    BY EventOfPort, ConcatProperties
  <2>2. (q \o EventOf(dm)) \o EventOf(ch) = q \o (EventOf(dm) \o EventOf(ch))
    BY <2>1, ConcatAssociative, SMTT(30)
  <2>3. (q \o (EventOf(dm) \o EventOf(ch))) \o EventOf(i)
          = q \o ((EventOf(dm) \o EventOf(ch)) \o EventOf(i))
    <3> HIDE DEF q1, q2
    <3>1. ASSUME NEW t \in Seq(SourceLine)
          PROVE  (q \o t) \o EventOf(i) = q \o (t \o EventOf(i))
      BY <2>1, ConcatAssociative, SMTT(30)
    <3> QED BY <2>1, <3>1
  <2> QED BY <1>2, <1>4, <2>2, <2>3, PackedEvents
<1> QED BY <1>2, <1>4, <1>6, <1>7 DEF q1, q2

-----------------------------------------------------------------------------
(* The shift revoker: its queue keeps its type and bound, and holds what   *)
(* is owed, for every depth.                                               *)
LEMMA EnqueueAny ==
    ASSUME NEW q \in Seq(SourceLine), Len(q) <= DEPTH, NEW line \in OptLine
    PROVE  /\ Shift!Enqueue(q, line) \in Seq(SourceLine)
           /\ Len(Shift!Enqueue(q, line)) <= DEPTH
           /\ Elements(q) \subseteq Elements(Shift!Enqueue(q, line))
           /\ ~Shift!Lost(q, line) =>
                {line} \ {NoLine} \subseteq Elements(Shift!Enqueue(q, line))
<1>1. CASE line = NoLine \/ ~(Len(q) < DEPTH)
  <2>1. Shift!Enqueue(q, line) = q
    BY <1>1 DEF Shift!Enqueue
  <2>2. Len(q) \in Nat
    BY LenProperties
  <2> QED BY <1>1, <2>1, <2>2 DEF Shift!Lost
<1>2. CASE line # NoLine /\ Len(q) < DEPTH
  <2>1. line \in SourceLine
    BY <1>2 DEF OptLine
  <2>2. /\ Append(q, line) \in Seq(SourceLine)
        /\ Len(Append(q, line)) = Len(q) + 1
        /\ Append(q, line) = q \o <<line>>
        /\ <<line>> \in Seq(SourceLine) /\ EventOf(line) = <<line>>
        /\ Len(q) \in Nat
    BY <1>2, <2>1, AppendProperties, AppendIsConcat, LenProperties DEF EventOf
  <2>3. Elements(Append(q, line)) = Elements(q) \cup {line}
    BY <1>2, <2>2, ElementsOfConcat, EventOfPort
  <2> QED BY <1>2, <2>2, <2>3 DEF Shift!Enqueue
<1> QED BY <1>1, <1>2

ShiftOK == Shift!TypeOK /\ (~sh_overflow => sh_owed \subseteq Elements(sh_queue))

(* The shift queue without its head, which is all that leaves it.          *)
LEMMA ShiftedQueue ==
    ASSUME Shift!TypeOK
    PROVE  /\ Shift!Shifted \in Seq(SourceLine)
           /\ Len(Shift!Shifted) <= DEPTH
           /\ Shift!SourceEventsReady => Len(Shift!Shifted) + 3 <= DEPTH
           /\ Elements(sh_queue) \ {Shift!ClearLine} \subseteq Elements(Shift!Shifted)
<1>1. Len(sh_queue) \in Nat /\ sh_queue \in Seq(SourceLine) /\ Len(sh_queue) <= DEPTH
  BY LenProperties DEF Shift!TypeOK
<1>2. CASE sh_queue = << >>
  <2>1. Len(sh_queue) = 0
    BY <1>2
  <2> QED BY <1>1, <1>2, <2>1, ElementsOfEmpty
          DEF Shift!Shifted, Shift!SourceEventsReady, Shift!SpaceAfterDequeue
<1>3. CASE sh_queue # << >>
  <2>1. /\ Tail(sh_queue) \in Seq(SourceLine)
        /\ Len(Tail(sh_queue)) = Len(sh_queue) - 1
        /\ Elements(sh_queue) = {Head(sh_queue)} \cup Elements(Tail(sh_queue))
    BY <1>1, <1>3, HeadTailProperties, ElementsOfTail
  <2>2. Shift!Shifted = Tail(sh_queue) /\ Shift!ClearLine = Head(sh_queue)
    BY <1>3 DEF Shift!Shifted, Shift!ClearLine
  <2>3. Shift!SourceEventsReady => DEPTH - Len(sh_queue) + 1 >= 3
    BY <1>3 DEF Shift!SourceEventsReady, Shift!SpaceAfterDequeue
  <2> QED BY <1>1, <2>1, <2>2, <2>3
<1> QED BY <1>2, <1>3

(* One edge of the shift revoker: what is owed is still queued.            *)
LEMMA ShiftStep ==
    ASSUME ShiftOK, NEW dm \in OptLine, NEW ch \in OptLine, NEW i \in OptLine,
           Shift!Edge(dm, ch, i)
    PROVE  ShiftOK'
<1> DEFINE q0 == Shift!Shifted
           q1 == Shift!Enqueue(q0, dm)
           q2 == Shift!Enqueue(q1, ch)
           q3 == Shift!Enqueue(q2, i)
<1>1. /\ q0 \in Seq(SourceLine) /\ Len(q0) <= DEPTH
      /\ Elements(sh_queue) \ {Shift!ClearLine} \subseteq Elements(q0)
  BY ShiftedQueue DEF ShiftOK
<1>2. /\ sh_queue' = q3
      /\ sh_overflow' = (sh_overflow \/ Shift!Lost(q0, dm)
                           \/ Shift!Lost(q1, ch) \/ Shift!Lost(q2, i))
      /\ sh_owed' = (sh_owed \ {Shift!ClearLine}) \cup ({dm, ch, i} \ {NoLine})
  BY DEF Shift!Edge
<1> HIDE DEF q0
<1>3. /\ q1 \in Seq(SourceLine) /\ Len(q1) <= DEPTH
      /\ Elements(q0) \subseteq Elements(q1)
      /\ ~Shift!Lost(q0, dm) => {dm} \ {NoLine} \subseteq Elements(q1)
  BY <1>1, EnqueueAny
<1> HIDE DEF q1
<1>4. /\ q2 \in Seq(SourceLine) /\ Len(q2) <= DEPTH
      /\ Elements(q1) \subseteq Elements(q2)
      /\ ~Shift!Lost(q1, ch) => {ch} \ {NoLine} \subseteq Elements(q2)
  BY <1>3, EnqueueAny
<1> HIDE DEF q2
<1>5. /\ q3 \in Seq(SourceLine) /\ Len(q3) <= DEPTH
      /\ Elements(q2) \subseteq Elements(q3)
      /\ ~Shift!Lost(q2, i) => {i} \ {NoLine} \subseteq Elements(q3)
  BY <1>4, EnqueueAny
<1> HIDE DEF q3
<1>6. ASSUME ~sh_overflow' PROVE sh_owed' \subseteq Elements(sh_queue')
  <2>1. /\ ~sh_overflow /\ ~Shift!Lost(q0, dm)
        /\ ~Shift!Lost(q1, ch) /\ ~Shift!Lost(q2, i)
    BY <1>2, <1>6
  <2>2. sh_owed \subseteq Elements(sh_queue)
    BY <2>1 DEF ShiftOK
  <2> QED BY <1>1, <1>2, <1>3, <1>4, <1>5, <2>1, <2>2
<1>7. sh_overflow' \in BOOLEAN
  BY <1>2 DEF Shift!Lost, ShiftOK, Shift!TypeOK
<1>8. sh_owed' \subseteq SourceLine
  BY <1>2 DEF ShiftOK, Shift!TypeOK, OptLine
<1> QED BY <1>2, <1>5, <1>6, <1>7, <1>8 DEF ShiftOK, Shift!TypeOK

(* ShiftOK holds of the shift revoker after every edge.                    *)
LEMMA ShiftInvariant == Shift!Spec => []ShiftOK
<1>1. Shift!Init => ShiftOK
  <2>1. << >> \in Seq(SourceLine) /\ Len(<< >>) = 0 /\ 0 <= DEPTH
    OBVIOUS
  <2> QED BY <2>1 DEF Shift!Init, ShiftOK, Shift!TypeOK
<1>2. ShiftOK /\ [Shift!Next]_(Shift!vars) => ShiftOK'
  <2>1. CASE Shift!Next
    BY <2>1, ShiftStep DEF Shift!Next, Shift!OptLine, OptLine
  <2>2. CASE UNCHANGED Shift!vars
    BY <2>2 DEF Shift!vars, ShiftOK, Shift!TypeOK
  <2> QED BY <2>1, <2>2
<1> QED BY <1>1, <1>2, PTL DEF Shift!Spec

(* An edge of a ready shift revoker is a transition of its contract.       *)
LEMMA ShiftContractStep ==
    ASSUME ShiftOK, NEW dm \in OptLine, NEW ch \in OptLine, NEW i \in OptLine,
           Shift!SourceEventsReady, Shift!Edge(dm, ch, i)
    PROVE  ShiftContract!Next
<1> DEFINE burst == Packed(dm, ch, i)
           popped == Shift!Shifted
<1>1. IsBurst(burst)
  BY PackedIsBurst
<1>2. /\ popped \in Seq(SourceLine)
      /\ Len(popped) + 3 <= DEPTH
      /\ Len(popped) \in Nat
  BY ShiftedQueue, LenProperties DEF ShiftOK
<1>3. /\ sh_queue' = popped \o burst
      /\ sh_overflow' = sh_overflow
  <2>1. sh_overflow \in BOOLEAN
    BY DEF ShiftOK, Shift!TypeOK
  <2> QED BY <1>2, <2>1, EnqueueBurst DEF Shift!Edge
<1> HIDE DEF burst
<1>4. /\ ShiftContract!Ready(sh_queue)
      /\ ShiftContract!Popped(sh_queue) = popped
      /\ ShiftContract!Appended(popped, burst) = Contract!Appended(popped, burst)
  BY DEF ShiftContract!Ready, ShiftContract!Popped, Shift!Shifted,
     Shift!SourceEventsReady, Shift!SpaceAfterDequeue,
     ShiftContract!Appended, Contract!Appended,
     ShiftContract!AppendedLine, Contract!AppendedLine
<1> HIDE DEF popped
<1>5. /\ burst \in Seq(SourceLine)
      /\ Len(burst) \in Nat /\ Len(burst) <= 3
      /\ burst \in ShiftContract!Burst
  <2>1. PICK n \in 0 .. 3 : n = Len(burst)
    BY <1>1 DEF IsBurst
  <2>2. burst \in [1 .. n -> SourceLine] /\ n \in 0 .. 3
    BY <1>1, <2>1 DEF IsBurst
  <2> QED BY <1>1, <2>1, <2>2 DEF IsBurst, ShiftContract!Burst
<1>6. /\ Len(popped) + Len(burst) <= DEPTH
      /\ ~(Len(popped \o burst) > DEPTH) /\ ~(Len(popped) + Len(burst) > DEPTH)
  <2>1. Len(popped \o burst) = Len(popped) + Len(burst)
    BY <1>2, <1>5
  <2> QED BY <1>2, <1>5, <2>1
<1>7. ShiftContract!Appended(popped, burst) = popped \o burst
  BY <1>2, <1>4, <1>5, <1>6, AppendedIsConcat
<1>8. sh_overflow \in BOOLEAN
  BY DEF ShiftOK, Shift!TypeOK
<1>9. ShiftContract!ShiftTransition(burst, TRUE)
  BY <1>3, <1>4, <1>6, <1>7, <1>8 DEF ShiftContract!ShiftTransition
<1>10. ShiftContract!RingTransition(burst, TRUE)
  BY <1>3, <1>4, <1>6, <1>8 DEF ShiftContract!RingTransition
<1> QED BY <1>5, <1>9, <1>10 DEF ShiftContract!Next, ShiftContract!Transition

-----------------------------------------------------------------------------
(* The scoped revoker: the array as its always_comb block builds it.       *)
Array == [slots : [Slot -> SourceLine], used : 0 .. DEPTH, lost : BOOLEAN]

LinesIn(q) == [i \in 1 .. q.used |-> q.slots[i - 1]]

(* How often a line is queued, at positions counted from base on: a base   *)
(* that grows with every clear leaves the other lines where they are.      *)
Positions(q, base, l) ==
    {j \in base .. base + q.used - 1 : q.slots[j - base] = l}
Times(q, base, l) == Cardinality(Positions(q, base, l))

(* A line is owed a number of times, which is finite.                      *)
LEMMA PositionsFinite ==
    ASSUME NEW q \in Array, NEW base \in Nat, NEW l
    PROVE  IsFiniteSet(Positions(q, base, l)) /\ Times(q, base, l) \in Nat
<1>1. base + q.used - 1 \in Int /\ base \in Int
  BY DEF Array
<1>2. IsFiniteSet(base .. base + q.used - 1)
  BY <1>1, FS_Interval
<1>3. IsFiniteSet(Positions(q, base, l))
  BY <1>2, FS_Subset DEF Positions
<1> QED BY <1>3, FS_CardinalityType DEF Times

(* The used part of the array, read as a queue.                            *)
LEMMA LinesInArray ==
    ASSUME NEW q \in Array
    PROVE  /\ LinesIn(q) \in Seq(SourceLine)
           /\ Len(LinesIn(q)) = q.used
           /\ \A i \in 1 .. q.used : LinesIn(q)[i] = q.slots[i - 1]
<1>1. q.used \in 0 .. DEPTH /\ q.slots \in [Slot -> SourceLine] /\ q.used \in Nat
  BY DEF Array
<1>2. \A i \in 1 .. q.used : q.slots[i - 1] \in SourceLine
  BY <1>1 DEF Slot
<1> QED BY <1>1, <1>2 DEF LinesIn

(* Writing an event into the array is enqueueing it, and one more time     *)
(* that its line is queued.                                                *)
LEMMA ScopedEnqueue ==
    ASSUME NEW q \in Array, NEW line \in OptLine
    PROVE  LET r == Scoped!Enqueued(q, line)
           IN  /\ r \in Array
               /\ LinesIn(r) = Shift!Enqueue(LinesIn(q), line)
               /\ r.lost = (q.lost \/ Shift!Lost(LinesIn(q), line))
               /\ ~r.lost => \A base \in Nat, l \in SourceLine :
                    Times(r, base, l)
                      = Times(q, base, l) + (IF line = l THEN 1 ELSE 0)
<1> DEFINE r == Scoped!Enqueued(q, line)
<1>1. /\ q = [slots |-> q.slots, used |-> q.used, lost |-> q.lost]
      /\ q.slots \in [Slot -> SourceLine]
      /\ q.used \in 0 .. DEPTH /\ q.used \in Nat
      /\ q.lost \in BOOLEAN
  BY DEF Array
<1>2. /\ LinesIn(q) \in Seq(SourceLine)
      /\ Len(LinesIn(q)) = q.used
      /\ \A i \in 1 .. q.used : LinesIn(q)[i] = q.slots[i - 1]
  BY LinesInArray
<1>3. CASE line = NoLine
  <2>1. r = q
    BY <1>3 DEF Scoped!Enqueued
  <2>2. \A l \in SourceLine : line # l
    BY <1>3
  <2>3. \A base \in Nat, l \in SourceLine :
          Times(q, base, l) = Times(q, base, l) + (IF line = l THEN 1 ELSE 0)
    <3>1. \A base \in Nat, l \in SourceLine : Times(q, base, l) \in Nat
      BY PositionsFinite
    <3>2. \A n \in Nat : n = n + 0
      OBVIOUS
    <3> QED BY <2>2, <3>1, <3>2
  <2>4. Shift!Enqueue(LinesIn(q), line) = LinesIn(q) /\ ~Shift!Lost(LinesIn(q), line)
    BY <1>3 DEF Shift!Enqueue, Shift!Lost
  <2> QED BY <1>1, <2>1, <2>3, <2>4
<1>4. CASE line # NoLine /\ q.used < DEPTH
  <2>1. line \in SourceLine /\ q.used \in Slot
    BY <1>1, <1>4 DEF OptLine, Slot
  <2>2. /\ r.slots = [q.slots EXCEPT ![q.used] = line]
        /\ r.used = q.used + 1
        /\ r.lost = q.lost
        /\ r = [slots |-> [q.slots EXCEPT ![q.used] = line],
                used |-> q.used + 1, lost |-> q.lost]
    BY <1>1, <1>4 DEF Scoped!Enqueued
  <2>3. r \in Array
    <3>1. [q.slots EXCEPT ![q.used] = line] \in [Slot -> SourceLine]
      BY <1>1, <2>1
    <3>2. q.used + 1 \in 0 .. DEPTH
      BY <1>1, <1>4
    <3> QED BY <1>1, <2>2, <3>1, <3>2 DEF Array
  <2> HIDE DEF r
  <2>4. LinesIn(r) = Append(LinesIn(q), line)
    <3>1. /\ LinesIn(r) \in Seq(SourceLine)
          /\ Len(LinesIn(r)) = q.used + 1
          /\ \A i \in 1 .. q.used + 1 : LinesIn(r)[i] = r.slots[i - 1]
      BY <2>2, <2>3, LinesInArray
    <3>2. /\ Append(LinesIn(q), line) \in Seq(SourceLine)
          /\ Len(Append(LinesIn(q), line)) = q.used + 1
          /\ \A i \in 1 .. q.used : Append(LinesIn(q), line)[i] = LinesIn(q)[i]
          /\ Append(LinesIn(q), line)[q.used + 1] = line
      BY <1>2, <2>1, AppendProperties
    <3>3. ASSUME NEW i \in 1 .. q.used + 1
          PROVE  LinesIn(r)[i] = Append(LinesIn(q), line)[i]
      <4>1. CASE i = q.used + 1
        <5>1. i - 1 = q.used /\ r.slots[q.used] = line
          BY <1>1, <2>1, <2>2, <4>1
        <5> QED BY <3>1, <3>2, <4>1, <5>1
      <4>2. CASE i # q.used + 1
        <5>1. i \in 1 .. q.used /\ i - 1 # q.used /\ i - 1 \in Slot
          BY <1>1, <4>2 DEF Slot
        <5>2. r.slots[i - 1] = q.slots[i - 1]
          BY <1>1, <2>2, <5>1
        <5> QED BY <1>2, <3>1, <3>2, <5>1, <5>2
      <4> QED BY <4>1, <4>2
    <3> QED BY <3>1, <3>2, <3>3, SeqEqual
  <2>5. /\ Shift!Enqueue(LinesIn(q), line) = Append(LinesIn(q), line)
        /\ ~Shift!Lost(LinesIn(q), line)
    BY <1>1, <1>2, <1>4 DEF Shift!Enqueue, Shift!Lost
  <2>6. ASSUME NEW base \in Nat, NEW l \in SourceLine
        PROVE  Times(r, base, l) = Times(q, base, l) + (IF line = l THEN 1 ELSE 0)
    <3> DEFINE new == base + q.used
    <3>1. /\ new \notin Positions(q, base, l)
          /\ IsFiniteSet(Positions(q, base, l))
          /\ Times(q, base, l) \in Nat
      BY <1>1, PositionsFinite DEF Positions
    <3>2. ASSUME NEW j \in base .. base + q.used - 1
          PROVE  r.slots[j - base] = q.slots[j - base]
      <4>1. j - base \in Slot /\ j - base # q.used
        BY <1>1 DEF Slot
      <4> QED BY <1>1, <2>2, <4>1
    <3>3. base .. base + r.used - 1 = (base .. base + q.used - 1) \cup {new}
      BY <1>1, <2>2
    <3>4. r.slots[new - base] = line
      <4>1. new - base = q.used
        BY <1>1
      <4> QED BY <1>1, <2>1, <2>2, <4>1
    <3> HIDE DEF new
    <3>5. Positions(r, base, l) = Positions(q, base, l)
                                     \cup (IF line = l THEN {new} ELSE {})
      BY <3>2, <3>3, <3>4 DEF Positions
    <3>6. CASE line = l
      BY <3>1, <3>5, <3>6, FS_AddElement DEF Times
    <3>7. CASE line # l
      <4>1. Positions(r, base, l) = Positions(q, base, l)
        BY <3>5, <3>7
      <4> QED BY <3>1, <3>7, <4>1 DEF Times
    <3> QED BY <3>6, <3>7
  <2> QED BY <1>1, <2>2, <2>3, <2>4, <2>5, <2>6 DEF r
<1>5. CASE line # NoLine /\ ~(q.used < DEPTH)
  <2>1. r = [slots |-> q.slots, used |-> q.used, lost |-> TRUE]
    BY <1>1, <1>5 DEF Scoped!Enqueued
  <2>2. r \in Array /\ LinesIn(r) = LinesIn(q) /\ r.lost = TRUE
    BY <1>1, <2>1 DEF Array, LinesIn
  <2>3. /\ Shift!Enqueue(LinesIn(q), line) = LinesIn(q)
        /\ Shift!Lost(LinesIn(q), line)
    BY <1>1, <1>2, <1>5 DEF Shift!Enqueue, Shift!Lost
  <2> QED BY <1>1, <2>2, <2>3
<1> QED BY <1>3, <1>4, <1>5

(* Shifting the array takes its first line, and moves the base.            *)
LEMMA ScopedShift ==
    ASSUME NEW q \in Array
    PROVE  LET r == Scoped!Shifted(q)
           IN  /\ r \in Array
               /\ r.lost = q.lost
               /\ LinesIn(r) = IF LinesIn(q) # << >> THEN Tail(LinesIn(q))
                               ELSE LinesIn(q)
               /\ \A base \in Nat : \E next \in Nat : \A l \in SourceLine :
                    Times(r, next, l) = Times(q, base, l)
                      - (IF q.used # 0 /\ q.slots[0] = l THEN 1 ELSE 0)
<1> DEFINE r == Scoped!Shifted(q)
<1>1. /\ q = [slots |-> q.slots, used |-> q.used, lost |-> q.lost]
      /\ q.slots \in [Slot -> SourceLine]
      /\ q.used \in 0 .. DEPTH /\ q.used \in Nat
      /\ q.lost \in BOOLEAN
  BY DEF Array
<1>2. /\ LinesIn(q) \in Seq(SourceLine)
      /\ Len(LinesIn(q)) = q.used
      /\ \A i \in 1 .. q.used : LinesIn(q)[i] = q.slots[i - 1]
      /\ LinesIn(q) = << >> <=> q.used = 0
  BY LinesInArray, EmptySeq
<1>3. CASE q.used = 0
  <2>1. r = q
    BY <1>3 DEF Scoped!Shifted
  <2>2. \A base \in Nat, l \in SourceLine : Times(q, base, l) \in Nat
    BY PositionsFinite
  <2> QED BY <1>2, <1>3, <2>1, <2>2
<1>4. CASE q.used # 0
  <2> DEFINE moved == [i \in Slot |-> IF i < DEPTH - 1 THEN q.slots[i + 1]
                                      ELSE ZeroLine]
  <2>1. /\ r.slots = moved
        /\ r.used = q.used - 1
        /\ r.lost = q.lost
        /\ r = [slots |-> moved, used |-> q.used - 1, lost |-> q.lost]
    BY <1>1, <1>4 DEF Scoped!Shifted, Scoped!Slot, Slot
  <2>2. moved \in [Slot -> SourceLine]
    BY <1>1, ZeroAssumption DEF Slot
  <2>3. r \in Array
    <3>1. q.used - 1 \in 0 .. DEPTH
      BY <1>1, <1>4
    <3> QED BY <1>1, <2>1, <2>2, <3>1 DEF Array
  <2>4. \A i \in 0 .. q.used - 2 : moved[i] = q.slots[i + 1]
    BY <1>1, <1>4 DEF Slot
  <2> HIDE DEF r, moved
  <2>5. LinesIn(r) = Tail(LinesIn(q))
    <3>1. /\ LinesIn(r) \in Seq(SourceLine)
          /\ Len(LinesIn(r)) = q.used - 1
          /\ \A i \in 1 .. q.used - 1 : LinesIn(r)[i] = moved[i - 1]
      BY <2>1, <2>3, LinesInArray
    <3>2. /\ Tail(LinesIn(q)) \in Seq(SourceLine)
          /\ Len(Tail(LinesIn(q))) = q.used - 1
          /\ \A i \in 1 .. q.used - 1 : Tail(LinesIn(q))[i] = LinesIn(q)[i + 1]
      BY <1>2, <1>4, HeadTailProperties
    <3>3. ASSUME NEW i \in 1 .. q.used - 1
          PROVE  LinesIn(r)[i] = Tail(LinesIn(q))[i]
      <4>1. /\ i - 1 \in 0 .. q.used - 2 /\ (i - 1) + 1 = (i + 1) - 1
            /\ i + 1 \in 1 .. q.used
        BY <1>1, <1>4
      <4> QED BY <1>2, <2>4, <3>1, <3>2, <4>1
    <3> QED BY <3>1, <3>2, <3>3, SeqEqual
  <2>6. ASSUME NEW base \in Nat, NEW l \in SourceLine
        PROVE  Times(r, base + 1, l)
                 = Times(q, base, l) - (IF q.slots[0] = l THEN 1 ELSE 0)
    <3>1. IsFiniteSet(Positions(q, base, l)) /\ Times(q, base, l) \in Nat
      BY PositionsFinite
    <3>2. base .. base + q.used - 1
            = {base} \cup (base + 1 .. base + 1 + r.used - 1)
      BY <1>1, <1>4, <2>1
    <3>3. base \notin base + 1 .. base + 1 + r.used - 1
      OBVIOUS
    <3>4. ASSUME NEW j \in base + 1 .. base + 1 + r.used - 1
          PROVE  r.slots[j - (base + 1)] = q.slots[j - base]
      <4>1. /\ j - (base + 1) \in 0 .. q.used - 2
            /\ (j - (base + 1)) + 1 = j - base
        BY <1>1, <1>4, <2>1
      <4> QED BY <2>1, <2>4, <4>1
    <3>5. base - base = 0
      OBVIOUS
    <3>6. Positions(r, base + 1, l) = Positions(q, base, l) \ {base}
      BY <3>2, <3>3, <3>4 DEF Positions
    <3>7. base \in Positions(q, base, l) <=> q.slots[0] = l
      BY <3>2, <3>5 DEF Positions
    <3> QED BY <3>1, <3>6, <3>7, FS_RemoveElement DEF Times
  <2>7. \A base \in Nat : base + 1 \in Nat
    OBVIOUS
  <2> QED BY <1>2, <1>4, <2>1, <2>3, <2>5, <2>6, <2>7 DEF r
<1> QED BY <1>3, <1>4

(* One edge of the scoped revoker, event by event, and what a shift queue  *)
(* does in the same edge.                                                  *)
ArrayAfter(q, dm, ch, i) ==
    Scoped!Enqueued(Scoped!Enqueued(Scoped!Enqueued(Scoped!Shifted(q), dm), ch), i)

Undrained(q) == IF LinesIn(q) # << >> THEN Tail(LinesIn(q)) ELSE LinesIn(q)

QueueAfter(t, dm, ch, i) == Shift!Enqueue(Shift!Enqueue(Shift!Enqueue(t, dm), ch), i)

LostAny(t, dm, ch, i) ==
    \/ Shift!Lost(t, dm)
    \/ Shift!Lost(Shift!Enqueue(t, dm), ch)
    \/ Shift!Lost(Shift!Enqueue(Shift!Enqueue(t, dm), ch), i)

TimesAfter(n, q, dm, ch, i, l) ==
    n - (IF q.used # 0 /\ q.slots[0] = l THEN 1 ELSE 0)
      + (IF dm = l THEN 1 ELSE 0) + (IF ch = l THEN 1 ELSE 0)
      + (IF i = l THEN 1 ELSE 0)

Moves(q, r, dm, ch, i) ==
    \A base \in Nat : \E next \in Nat : \A l \in SourceLine :
        Times(r, next, l) = TimesAfter(Times(q, base, l), q, dm, ch, i, l)

(* One edge of the array is one of the shift queue that it holds, and      *)
(* counts every line once more for each event of it and once less when it  *)
(* leaves.                                                                 *)
LEMMA ScopedEdge ==
    ASSUME NEW q \in Array,
           NEW dm \in OptLine, NEW ch \in OptLine, NEW i \in OptLine
    PROVE  /\ ArrayAfter(q, dm, ch, i) \in Array
           /\ LinesIn(ArrayAfter(q, dm, ch, i)) = QueueAfter(Undrained(q), dm, ch, i)
           /\ ArrayAfter(q, dm, ch, i).lost
                = (q.lost \/ LostAny(Undrained(q), dm, ch, i))
           /\ ArrayAfter(q, dm, ch, i).lost \/ Moves(q, ArrayAfter(q, dm, ch, i), dm, ch, i)
<1> DEFINE s0 == Scoped!Shifted(q)
           s1 == Scoped!Enqueued(s0, dm)
           s2 == Scoped!Enqueued(s1, ch)
           s3 == Scoped!Enqueued(s2, i)
           t0 == Undrained(q)
           t1 == Shift!Enqueue(t0, dm)
           t2 == Shift!Enqueue(t1, ch)
<1>1. /\ s0 \in Array /\ LinesIn(s0) = t0 /\ s0.lost = q.lost
      /\ \A base \in Nat : \E next \in Nat : \A l \in SourceLine :
           Times(s0, next, l) = Times(q, base, l)
             - (IF q.used # 0 /\ q.slots[0] = l THEN 1 ELSE 0)
  BY ScopedShift DEF Undrained
<1> HIDE DEF s0, t0
<1>2. /\ s1 \in Array /\ LinesIn(s1) = t1
      /\ s1.lost = (s0.lost \/ Shift!Lost(t0, dm))
      /\ ~s1.lost => \A base \in Nat, l \in SourceLine :
           Times(s1, base, l) = Times(s0, base, l) + (IF dm = l THEN 1 ELSE 0)
  BY <1>1, ScopedEnqueue
<1> HIDE DEF s1, t1
<1>3. /\ s2 \in Array /\ LinesIn(s2) = t2
      /\ s2.lost = (s1.lost \/ Shift!Lost(t1, ch))
      /\ ~s2.lost => \A base \in Nat, l \in SourceLine :
           Times(s2, base, l) = Times(s1, base, l) + (IF ch = l THEN 1 ELSE 0)
  BY <1>2, ScopedEnqueue
<1> HIDE DEF s2, t2
<1>4. /\ s3 \in Array /\ LinesIn(s3) = Shift!Enqueue(t2, i)
      /\ s3.lost = (s2.lost \/ Shift!Lost(t2, i))
      /\ ~s3.lost => \A base \in Nat, l \in SourceLine :
           Times(s3, base, l) = Times(s2, base, l) + (IF i = l THEN 1 ELSE 0)
  BY <1>3, ScopedEnqueue
<1> HIDE DEF s3
<1>5. s3.lost = (q.lost \/ Shift!Lost(t0, dm) \/ Shift!Lost(t1, ch) \/ Shift!Lost(t2, i))
  BY <1>1, <1>2, <1>3, <1>4
<1>6. ASSUME ~s3.lost, NEW base \in Nat
      PROVE  \E next \in Nat : \A l \in SourceLine :
               Times(s3, next, l) = TimesAfter(Times(q, base, l), q, dm, ch, i, l)
  <2>1. PICK next \in Nat : \A l \in SourceLine :
          Times(s0, next, l) = Times(q, base, l)
            - (IF q.used # 0 /\ q.slots[0] = l THEN 1 ELSE 0)
    BY <1>1
  <2>2. ~s2.lost /\ ~s1.lost
    BY <1>3, <1>4, <1>6
  <2>3. ASSUME NEW l \in SourceLine
        PROVE  Times(s3, next, l) = TimesAfter(Times(q, base, l), q, dm, ch, i, l)
    BY <1>2, <1>3, <1>4, <1>6, <2>1, <2>2 DEF TimesAfter
  <2> QED BY <2>3
<1>7. s3 = ArrayAfter(q, dm, ch, i) /\ (s3.lost \/ Moves(q, s3, dm, ch, i))
  <2>1. s3.lost \/ Moves(q, s3, dm, ch, i)
    BY <1>6 DEF Moves
  <2> QED BY <2>1 DEF s0, s1, s2, s3, ArrayAfter
<1>8. Shift!Enqueue(t2, i) = QueueAfter(Undrained(q), dm, ch, i)
  BY DEF t0, t1, t2, QueueAfter
<1>9. (\/ Shift!Lost(t0, dm) \/ Shift!Lost(t1, ch) \/ Shift!Lost(t2, i))
        <=> LostAny(Undrained(q), dm, ch, i)
  BY DEF t0, t1, t2, LostAny
<1> QED BY <1>4, <1>5, <1>6, <1>7, <1>8, <1>9

(* The registers are such an array, and until an overflow the clears that  *)
(* are owed to a line are as many as the times it is queued.               *)
ScopedOK ==
    /\ Scoped!Current \in Array
    /\ sc_owed \in [SourceLine -> Nat]
    /\ ~sc_overflow => \E base \in Nat : \A l \in SourceLine :
                          sc_owed[l] = Times(Scoped!Current, base, l)

(* The registers of the scoped revoker, read as an array.                  *)
LEMMA ScopedCurrent ==
    /\ Scoped!Current.slots = sc_queue
    /\ Scoped!Current.used = sc_count
    /\ Scoped!Current.lost = sc_overflow
    /\ LinesIn(Scoped!Current) = [i \in 1 .. sc_count |-> sc_queue[i - 1]]
BY DEF Scoped!Current, LinesIn

(* One edge of the scoped revoker is one of the shift revoker.             *)
LEMMA ScopedStep ==
    ASSUME ScopedOK, NEW dm \in OptLine, NEW ch \in OptLine, NEW i \in OptLine,
           Scoped!Edge(dm, ch, i)
    PROVE  ScopedOK' /\ Scoped!Shift!Edge(dm, ch, i)
<1> DEFINE q == Scoped!Current
           s3 == ArrayAfter(q, dm, ch, i)
<1>1. /\ s3 \in Array
      /\ LinesIn(s3) = QueueAfter(Undrained(q), dm, ch, i)
      /\ s3.lost = (q.lost \/ LostAny(Undrained(q), dm, ch, i))
      /\ s3.lost \/ Moves(q, s3, dm, ch, i)
  <2>1. q \in Array
    BY DEF ScopedOK
  <2> HIDE DEF q
  <2>2. s3 \in Array
    BY <2>1, ScopedEdge
  <2>3. LinesIn(s3) = QueueAfter(Undrained(q), dm, ch, i)
    BY <2>1, ScopedEdge
  <2>4. s3.lost = (q.lost \/ LostAny(Undrained(q), dm, ch, i))
    BY <2>1, ScopedEdge
  <2>5. s3.lost \/ Moves(q, s3, dm, ch, i)
    BY <2>1, ScopedEdge
  <2> QED BY <2>2, <2>3, <2>4, <2>5
<1>2. /\ sc_queue' = s3.slots
      /\ sc_count' = s3.used
      /\ sc_overflow' = s3.lost
      /\ sc_owed' = IF s3.lost THEN sc_owed ELSE Scoped!Owed(dm, ch, i)
      /\ sc_revoked' = (sc_revoked \ {Scoped!ClearLine}) \cup ({dm, ch, i} \ {NoLine})
  BY DEF Scoped!Edge, ArrayAfter
<1>3. /\ q.slots = sc_queue /\ q.used = sc_count /\ q.lost = sc_overflow
      /\ LinesIn(q) = [j \in 1 .. sc_count |-> sc_queue[j - 1]]
      /\ q \in Array
  BY ScopedCurrent DEF ScopedOK
<1> HIDE DEF s3
<1>4. Scoped!Current' = s3
  <2>1. s3 = [slots |-> s3.slots, used |-> s3.used, lost |-> s3.lost]
    BY <1>1 DEF Array
  <2> QED BY <1>2, <2>1 DEF Scoped!Current
<1>5. \A l \in SourceLine :
         sc_owed[l] \in Nat
         /\ (Scoped!ClearLine = l <=> (q.used # 0 /\ q.slots[0] = l))
  BY <1>3, NoLineAssumption DEF ScopedOK, Scoped!ClearLine
<1>6. ASSUME ~s3.lost
      PROVE  \E base \in Nat : \A l \in SourceLine :
                Scoped!Owed(dm, ch, i)[l] = Times(s3, base, l)
  <2>1. PICK base \in Nat : \A l \in SourceLine : sc_owed[l] = Times(q, base, l)
    BY <1>1, <1>3, <1>6 DEF ScopedOK
  <2>2. PICK next \in Nat : \A l \in SourceLine :
          Times(s3, next, l) = TimesAfter(Times(q, base, l), q, dm, ch, i, l)
    BY <1>1, <1>6 DEF Moves
  <2>3. ASSUME NEW l \in SourceLine
        PROVE  Scoped!Owed(dm, ch, i)[l] = Times(s3, next, l)
    <3>1. Scoped!Owed(dm, ch, i)[l] =
             sc_owed[l] - (IF Scoped!ClearLine = l THEN 1 ELSE 0)
                 + (IF dm = l THEN 1 ELSE 0) + (IF ch = l THEN 1 ELSE 0)
                 + (IF i = l THEN 1 ELSE 0)
      BY DEF Scoped!Owed
    <3>2. TimesAfter(sc_owed[l], q, dm, ch, i, l) =
             sc_owed[l] - (IF Scoped!ClearLine = l THEN 1 ELSE 0)
                 + (IF dm = l THEN 1 ELSE 0) + (IF ch = l THEN 1 ELSE 0)
                 + (IF i = l THEN 1 ELSE 0)
      BY <1>5 DEF TimesAfter
    <3>3. Times(s3, next, l) = TimesAfter(sc_owed[l], q, dm, ch, i, l)
      BY <2>1, <2>2, Zenon
    <3> QED BY <3>1, <3>2, <3>3
  <2> QED BY <2>3
<1>7. ASSUME ~s3.lost PROVE Scoped!Owed(dm, ch, i) \in [SourceLine -> Nat]
  <2>1. \A l \in SourceLine : Scoped!Owed(dm, ch, i)[l] \in Nat
    BY <1>1, <1>6, <1>7, PositionsFinite
  <2> QED BY <2>1 DEF Scoped!Owed
<1>8. sc_owed' \in [SourceLine -> Nat]
  BY <1>2, <1>7 DEF ScopedOK
<1>9. ~sc_overflow' => \E base \in Nat : \A l \in SourceLine :
                          sc_owed'[l] = Times(Scoped!Current', base, l)
  BY <1>2, <1>4, <1>6
<1>10. ScopedOK'
  BY <1>1, <1>4, <1>8, <1>9 DEF ScopedOK, Times, Positions
<1>11. Scoped!Shift!ClearLine = Scoped!ClearLine
  <2>1. /\ LinesIn(q) \in Seq(SourceLine)
        /\ Len(LinesIn(q)) = sc_count
        /\ \A j \in 1 .. sc_count : LinesIn(q)[j] = sc_queue[j - 1]
    BY <1>3, LinesInArray
  <2>2. LinesIn(q) = << >> <=> sc_count = 0
    BY <2>1, EmptySeq
  <2>3. CASE sc_count = 0
    BY <1>3, <2>2, <2>3 DEF Scoped!Shift!ClearLine, Scoped!ClearLine
  <2>4. CASE sc_count # 0
    <3>1. 1 \in 1 .. sc_count /\ 1 - 1 = 0
      BY <1>3, <2>4 DEF Array
    <3>2. Head(LinesIn(q)) = sc_queue[0]
      BY <2>1, <2>2, <2>4, <3>1
    <3> QED BY <1>3, <2>2, <2>4, <3>2 DEF Scoped!Shift!ClearLine, Scoped!ClearLine
  <2> QED BY <2>3, <2>4
<1> HIDE DEF q
<1>12. /\ Scoped!Shift!Shifted = Undrained(q)
       /\ \A s, l : Scoped!Shift!Enqueue(s, l) = Shift!Enqueue(s, l)
       /\ \A s, l : Scoped!Shift!Lost(s, l) = Shift!Lost(s, l)
  BY <1>3 DEF Scoped!Shift!Shifted, Scoped!Shift!Enqueue, Shift!Enqueue,
              Scoped!Shift!Lost, Shift!Lost, Undrained
<1>13. [j \in 1 .. sc_count' |-> sc_queue'[j - 1]] = QueueAfter(Undrained(q), dm, ch, i)
  BY <1>1, <1>2 DEF LinesIn
<1>14. sc_overflow' = (sc_overflow \/ LostAny(Undrained(q), dm, ch, i))
  BY <1>1, <1>2, <1>3
<1>15. Scoped!Shift!Edge(dm, ch, i)
  BY <1>2, <1>11, <1>12, <1>13, <1>14
     DEF Scoped!Shift!Edge, QueueAfter, LostAny
<1> QED BY <1>10, <1>15

(* At reset both queues are empty.                                         *)
LEMMA ScopedInit == Scoped!Init => ScopedOK /\ Scoped!Shift!Init
<1> SUFFICES ASSUME Scoped!Init PROVE ScopedOK /\ Scoped!Shift!Init
  OBVIOUS
<1>1. Scoped!Current \in Array
  <2>1. /\ sc_queue = [i \in Slot |-> ZeroLine]
        /\ sc_count = 0 /\ sc_overflow = FALSE
    BY DEF Scoped!Init, Scoped!Slot, Slot
  <2>2. sc_queue \in [Slot -> SourceLine] /\ sc_count \in 0 .. DEPTH
    BY <2>1, ZeroAssumption
  <2> QED BY <2>1, <2>2 DEF Scoped!Current, Array
<1>2. \A l \in SourceLine : Times(Scoped!Current, 0, l) = 0
  <2>1. 0 .. 0 + 0 - 1 = {}
    OBVIOUS
  <2>2. \A l : Positions(Scoped!Current, 0, l) = {}
    BY <2>1 DEF Scoped!Init, Scoped!Current, Positions
  <2> QED BY <2>2, FS_EmptySet DEF Times
<1>3. sc_owed = [l \in SourceLine |-> 0] /\ 0 \in Nat
  BY DEF Scoped!Init
<1>4. [i \in 1 .. 0 |-> sc_queue[i - 1]] = << >>
  OBVIOUS
<1> QED BY <1>1, <1>2, <1>3, <1>4 DEF ScopedOK, Scoped!Init, Scoped!Shift!Init

(* ScopedOK holds of the scoped revoker after every edge.                  *)
LEMMA ScopedInvariant == Scoped!Spec => []ScopedOK
<1>1. Scoped!Init => ScopedOK
  BY ScopedInit
<1>2. ScopedOK /\ [Scoped!Next]_(Scoped!vars) => ScopedOK'
  <2>1. CASE Scoped!Next
    BY <2>1, ScopedStep DEF Scoped!Next, Scoped!OptLine, OptLine
  <2>2. CASE UNCHANGED Scoped!vars
    BY <2>2 DEF Scoped!vars, ScopedOK, Scoped!Current, Times, Positions
  <2> QED BY <2>1, <2>2
<1> QED BY <1>1, <1>2, PTL DEF Scoped!Spec

(* A line that is owed a clear is held: by the scoped revoker those lines  *)
(* and no others, unless its queue has overflowed, by the shift revoker    *)
(* all of them.                                                            *)
THEOREM OthersHold == Revokers => []OthersHoldOwed
<1>1. ScopedOK => Scoped!HoldIsExact
  <2> SUFFICES ASSUME ScopedOK, ~sc_overflow, NEW l \in SourceLine
               PROVE  Scoped!ConflictHold(l) <=> sc_owed[l] # 0
    BY DEF Scoped!HoldIsExact
  <2> DEFINE q == Scoped!Current
  <2>1. /\ q \in Array /\ q.slots = sc_queue /\ q.used = sc_count
        /\ sc_count \in 0 .. DEPTH
    BY ScopedCurrent DEF ScopedOK, Array
  <2>2. PICK base \in Nat : sc_owed[l] = Times(q, base, l)
    BY DEF ScopedOK
  <2> HIDE DEF q
  <2>3. sc_owed[l] # 0 <=> Positions(q, base, l) # {}
    BY <2>1, <2>2, PositionsFinite, FS_EmptySet DEF Times
  <2>4. ASSUME NEW j \in Positions(q, base, l) PROVE Scoped!QueuedSourceConflict(l)
    <3>1. /\ j - base \in Scoped!Slot /\ j - base < sc_count
          /\ sc_queue[j - base] = l
      BY <2>1 DEF Positions, Scoped!Slot
    <3> QED BY <3>1 DEF Scoped!QueuedSourceConflict
  <2>5. ASSUME NEW i \in Scoped!Slot, i < sc_count, sc_queue[i] = l
        PROVE  base + i \in Positions(q, base, l)
    <3>1. base + i \in base .. base + q.used - 1 /\ (base + i) - base = i
      BY <2>1, <2>5 DEF Scoped!Slot
    <3> QED BY <2>1, <2>5, <3>1 DEF Positions
  <2> QED BY <2>3, <2>4, <2>5 DEF Scoped!ConflictHold, Scoped!QueuedSourceConflict
<1>2. ShiftOK => Shift!OwedIsHeld
  BY DEF ShiftOK, Shift!TypeOK, Shift!OwedIsHeld, Elements
<1>3. ScopedOK /\ ShiftOK => OthersHoldOwed
  BY <1>1, <1>2 DEF OthersHoldOwed
<1> QED BY <1>3, ScopedPart, ShiftPart, ScopedInvariant, ShiftInvariant, PTL

(* The ring and the shift queue of the RTL are those of their contract.    *)
THEOREM RtlIsContract == Revokers => RtlImplementsContract
<1>1. RevokersInit => RingContract!Init
  <2>1. RevokersInit => count = 0 /\ overflow_sticky = FALSE
    BY PathRing DEF RevokersInit, Path!Init, Init
  <2>2. count = 0 => Waiting = << >>
    BY DEF Waiting
  <2> QED BY <2>1, <2>2 DEF RingContract!Init
<1>2. TypeOK /\ TypeOK' /\ RingShape /\ [RevokersNext]_all
        => [part = "ring" => RingContract!Next]_(RingContract!vars)
  <2> SUFFICES ASSUME TypeOK, TypeOK', RingShape, [RevokersNext]_all, part = "ring",
                      ~UNCHANGED (RingContract!vars)
               PROVE  RingContract!Next
    OBVIOUS
  <2>1. CASE Next
    <3>1. PICK burst : IsBurst(burst) /\ Edge(burst)
      BY <2>1, NextIsEdge
    <3> QED BY <3>1, RingContractStep
  <2>2. CASE UNCHANGED all
    BY <2>2 DEF all, vars, RingContract!vars, Waiting, SlotAfter
  <2> QED BY <2>1, <2>2 DEF RevokersNext, PathStep
<1>3. ShiftOK /\ [Shift!Next]_(Shift!vars)
        => [Shift!SourceEventsReady => ShiftContract!Next]_shift
  BY ShiftContractStep DEF Shift!Next, Shift!OptLine, OptLine, Shift!vars, shift
<1>4. Revokers => [][Shift!SourceEventsReady => ShiftContract!Next]_shift
  BY <1>3, ShiftPart, ShiftInvariant, PTL DEF Shift!Spec
<1>5. Revokers => /\ RingContract!Init
                  /\ [][part = "ring" => RingContract!Next]_(RingContract!vars)
  BY <1>1, <1>2, RingPart, TypeCorrect, RingShapeInvariant, PTL DEF Revokers
<1> QED BY <1>4, <1>5, PTL DEF RtlImplementsContract

(* The ring behind its door and the scoped revoker are the FIFO of the     *)
(* first revoker, for every depth.                                         *)
LEMMA PathShiftStep ==
    ASSUME TypeOK, TypeOK', RingShape, WiresOK, PathStep
    PROVE  Path!Shift!Next
<1>1. PICK dm \in OptLine, ch \in OptLine, i \in OptLine :
        /\ Path!AdmittedBurst = Packed(dm, ch, i)
        /\ Edge(Packed(dm, ch, i))
  BY PathStepIsEdge
<1> DEFINE burst == Packed(dm, ch, i)
           popped == Contract!Popped(Waiting)
<1>2. IsBurst(burst) /\ LinesOf(burst) = {dm, ch, i} \ {NoLine}
  BY PackedIsBurst, PackedEvents
<1>3. /\ popped \in Seq(SourceLine)
      /\ Contract!Ready(Waiting) => Len(popped) + 3 <= DEPTH
  <2>1. Waiting \in Seq(SourceLine) /\ Len(Waiting) <= DEPTH
    BY WaitingIsQueue DEF TypeOK
  <2> QED BY <2>1, Popped
<1>4. /\ Path!Ring!Waiting = Waiting
      /\ Path!Shift!Shifted = popped
      /\ Path!Shift!ClearLine = ClearLine
      /\ \A s, l : Path!Shift!Enqueue(s, l) = Shift!Enqueue(s, l)
      /\ \A s, l : Path!Shift!Lost(s, l) <=> Shift!Lost(s, l)
  BY WaitingIsQueue
     DEF Path!Ring!Waiting, Waiting, Path!Ring!SlotAfter, SlotAfter,
         Path!Shift!Shifted, Contract!Popped, Path!Shift!ClearLine,
         Path!Shift!Enqueue, Shift!Enqueue, Path!Shift!Lost, Shift!Lost
<1>5. /\ Path!Ring!Waiting' = Waiting'
      /\ owed' = (owed \ {ClearLine}) \cup ({dm, ch, i} \ {NoLine})
  BY <1>1, <1>2 DEF Edge, Path!Ring!Waiting, Waiting, Path!Ring!SlotAfter, SlotAfter
<1>6. PICK a \in OptLine, b \in OptLine, c \in OptLine :
        /\ {a, b, c} \ {NoLine} = {dm, ch, i} \ {NoLine}
        /\ Waiting' = Shift!Enqueue(Shift!Enqueue(Shift!Enqueue(popped, a), b), c)
        /\ overflow_sticky' = overflow_sticky
        /\ ~Shift!Lost(popped, a) /\ ~Shift!Lost(Shift!Enqueue(popped, a), b)
        /\ ~Shift!Lost(Shift!Enqueue(Shift!Enqueue(popped, a), b), c)
  <2>1. CASE SourceEventsReady
    <3>1. Admit(burst)
      BY <1>1, <2>1 DEF Edge, Drop, Drain
    <3>2. Waiting' = popped \o burst /\ overflow_sticky' = overflow_sticky
      BY <1>1, <1>2, <3>1, WaitingStep DEF Admit
    <3>3. Len(popped) + 3 <= DEPTH
      BY <1>3, <2>1, ReadyIsReady
    <3> HIDE DEF popped
    <3>4. /\ Shift!Enqueue(Shift!Enqueue(Shift!Enqueue(popped, dm), ch), i)
               = popped \o burst
          /\ ~Shift!Lost(popped, dm) /\ ~Shift!Lost(Shift!Enqueue(popped, dm), ch)
          /\ ~Shift!Lost(Shift!Enqueue(Shift!Enqueue(popped, dm), ch), i)
      BY <1>3, <3>3, EnqueueBurst
    <3> HIDE DEF burst
    <3> QED BY <3>2, <3>4
  <2>2. CASE ~SourceEventsReady
    <3>1. burst = << >>
      BY <1>1, <2>2, GatedWires
    <3>2. Drain(burst) /\ ~Admit(burst)
      BY <1>1, <2>2, <3>1 DEF Edge, Admit, Drop
    <3>3. Waiting' = popped /\ overflow_sticky' = overflow_sticky
      BY <1>1, <1>2, <3>2, WaitingStep DEF Drain
    <3>4. {dm, ch, i} \ {NoLine} = {NoLine, NoLine, NoLine} \ {NoLine}
      BY <1>2, <3>1 DEF LinesOf
    <3>5. \A s : Shift!Enqueue(s, NoLine) = s /\ ~Shift!Lost(s, NoLine)
      BY DEF Shift!Enqueue, Shift!Lost
    <3>6. NoLine \in OptLine
      BY DEF OptLine
    <3> HIDE DEF popped, burst
    <3> QED BY <3>3, <3>4, <3>5, <3>6
  <2> QED BY <2>1, <2>2
<1> HIDE DEF popped
<1>7. Path!Shift!Edge(a, b, c)
  <2>1. overflow_sticky \in BOOLEAN
    BY DEF TypeOK
  <2>2. overflow_sticky' = \/ overflow_sticky
                           \/ Shift!Lost(popped, a)
                           \/ Shift!Lost(Shift!Enqueue(popped, a), b)
                           \/ Shift!Lost(Shift!Enqueue(Shift!Enqueue(popped, a), b), c)
    BY <1>6, <2>1
  <2> QED BY <1>4, <1>5, <1>6, <2>2 DEF Path!Shift!Edge
<1> QED BY <1>7 DEF Path!Shift!Next, Path!Shift!OptLine, OptLine

(* The ring behind the front door and the scoped revoker are both the FIFO *)
(* of the first revoker, for every depth: no burst is split, lost or taken *)
(* in another order than the shift registers take it.                      *)
THEOREM OthersAreShift == Revokers => OthersImplementShift
<1>1. RevokersInit => Path!Shift!Init
  <2>1. RevokersInit => Init
    BY PathRing DEF RevokersInit, Path!Init
  <2>2. count = 0 => Path!Ring!Waiting = << >>
    BY DEF Path!Ring!Waiting
  <2> QED BY <2>1, <2>2 DEF Init, Path!Shift!Init
<1>2. TypeOK /\ TypeOK' /\ RingShape /\ WiresOK /\ [RevokersNext]_all
        => [part = "path" => Path!Shift!Next]_(Path!Shift!vars)
  <2> SUFFICES ASSUME TypeOK, TypeOK', RingShape, WiresOK, [RevokersNext]_all,
                      part = "path", ~UNCHANGED (Path!Shift!vars)
               PROVE  Path!Shift!Next
    OBVIOUS
  <2>1. CASE PathStep
    BY <2>1, PathShiftStep
  <2>2. CASE UNCHANGED all
    BY <2>2 DEF all, vars, Path!Shift!vars, Path!Ring!Waiting, Path!Ring!SlotAfter
  <2> QED BY <2>1, <2>2 DEF RevokersNext
<1>3. Revokers => /\ Path!Shift!Init
                  /\ [][part = "path" => Path!Shift!Next]_(Path!Shift!vars)
  BY <1>1, <1>2, RingPart, TypeCorrect, RingShapeInvariant, WiresInvariant, PTL
     DEF Revokers
<1>4. ScopedOK /\ [Scoped!Next]_(Scoped!vars)
        => [Scoped!Shift!Next]_(Scoped!Shift!vars)
  <2> SUFFICES ASSUME ScopedOK, [Scoped!Next]_(Scoped!vars)
               PROVE  [Scoped!Shift!Next]_(Scoped!Shift!vars)
    OBVIOUS
  <2>1. CASE Scoped!Next
    BY <2>1, ScopedStep DEF Scoped!Next, Scoped!Shift!Next, Scoped!OptLine,
       Scoped!Shift!OptLine, OptLine
  <2>2. CASE UNCHANGED Scoped!vars
    BY <2>2 DEF Scoped!vars, Scoped!Shift!vars
  <2> QED BY <2>1, <2>2
<1>5. Scoped!Spec => Scoped!ImplementsShift
  BY <1>4, ScopedInit, ScopedInvariant, PTL
     DEF Scoped!Spec, Scoped!ImplementsShift, Scoped!Shift!Spec
<1> QED BY <1>3, <1>5, ScopedPart, PTL DEF OthersImplementShift
=============================================================================
