--------------------------- MODULE SoftwareProofs ---------------------------
(***************************************************************************)
(* What the systems of MCSoftware promise for every number of lines, words,*)
(* tokens, records, slots, sessions, gates and files: the TLB/coherence    *)
(* contract first, then the CLPD, authority, LSQ and ROPL contracts, the   *)
(* exchange of the TLS workload, the import of CI evidence and the session *)
(* cache of the workload.                                                  *)
(*                                                                         *)
(* Of TlbContract the inductive invariant is StaleIsQueued with            *)
(* EpochIsCurrent and the types; all that is asked of a queue is in        *)
(* QueueStep.  Of each other system it is the operator named ...OK below;  *)
(* a run of the composition is a run of each (the ...Part lemmas).         *)
(*                                                                         *)
(* The last two use functions defined by recursion: that they are what     *)
(* their definitions say is RecursionOnInterval, and what they compute is  *)
(* shown by induction over the numbers (EveryNumber).                      *)
(***************************************************************************)
EXTENDS MCSoftware, TLAPS, FiniteSetTheorems, WellFoundedInduction

Single(s) == s = {} \/ \E x : s = {x}

-----------------------------------------------------------------------------
(* One step of a queue of either kind: what was queued or arrives is queued*)
(* afterwards, unless it is delivered or spilled.                          *)
After(q, arrived) == Drained(q, Enqueued(q, arrived))

(* What arrives is queued or spilled, or was queued already; only then is  *)
(* the queue as it was.                                                    *)
LEMMA EnqueuedShape ==
    ASSUME NEW S, NEW q \in Seq(S), NEW arrived \in SUBSET S, Single(arrived)
    PROVE  \/ Enqueued(q, arrived) = q /\ arrived \subseteq Range(q) \cup Spilled(q, arrived)
           \/ \E x \in S : /\ arrived = {x} /\ Len(q) < QUEUE_DEPTH
                           /\ Enqueued(q, arrived) = Append(q, x)
<1>1. CASE arrived \subseteq Range(q) \cup Spilled(q, arrived)
  BY <1>1 DEF Enqueued
<1>2. CASE ~(arrived \subseteq Range(q) \cup Spilled(q, arrived))
  <2>1. PICK x : arrived = {x}
    BY <1>2 DEF Single
  <2>2. x \in S /\ (CHOOSE n \in arrived : TRUE) = x
    BY <2>1
  <2>3. Enqueued(q, arrived) = Append(q, x)
    BY <1>2, <2>2 DEF Enqueued
  <2>4. Len(q) < QUEUE_DEPTH
    BY <1>2, <2>1 DEF Spilled
  <2> QED  BY <2>1, <2>2, <2>3, <2>4
<1> QED  BY <1>1, <1>2

(* One more entry at the end, and what the queue holds then.               *)
LEMMA AppendRange ==
    ASSUME NEW S, NEW q \in Seq(S), NEW x \in S
    PROVE  /\ Append(q, x) \in Seq(S) /\ Append(q, x) # << >>
           /\ Len(Append(q, x)) = Len(q) + 1
           /\ Range(Append(q, x)) = Range(q) \cup {x}
           /\ q # << >> => Head(Append(q, x)) = Head(q)
<1>1. Append(q, x) \in Seq(S) /\ Len(Append(q, x)) = Len(q) + 1
  OBVIOUS
<1>3. Append(q, x) # << >>
  <2>1. Len(q) \in Nat /\ Len(<< >>) = 0
    OBVIOUS
  <2>2. Len(Append(q, x)) # Len(<< >>)
    BY <1>1, <2>1
  <2> QED  BY <2>2, Zenon
<1>4. q # << >> => Head(Append(q, x)) = Head(q)
  <2>1. SUFFICES ASSUME q # << >> PROVE Append(q, x)[1] = q[1]
    BY <1>1, <1>3
  <2>2. 1 \in 1 .. Len(q)
    BY <2>1
  <2> QED  BY <2>2
<1>2. Range(Append(q, x)) = Range(q) \cup {x}
  <2>1. \A y \in Range(q) : y \in Range(Append(q, x))
    BY DEF Range
  <2>2. x \in Range(Append(q, x))
    BY DEF Range
  <2>3. \A y \in Range(Append(q, x)) : y \in Range(q) \cup {x}
    BY DEF Range
  <2> QED  BY <2>1, <2>2, <2>3
<1> QED  BY <1>1, <1>2, <1>3, <1>4

(* Without its head a queue has lost its head and nothing more.            *)
LEMMA TailRange ==
    ASSUME NEW S, NEW q \in Seq(S), q # << >>
    PROVE  /\ Tail(q) \in Seq(S) /\ Len(Tail(q)) = Len(q) - 1
           /\ Range(q) \subseteq Range(Tail(q)) \cup {Head(q)}
<1>1. Tail(q) \in Seq(S) /\ Len(Tail(q)) = Len(q) - 1
  OBVIOUS
<1>2. ASSUME NEW y \in Range(q), y # Head(q)
      PROVE  y \in Range(Tail(q))
  <2>1. PICK i \in 1 .. Len(q) : q[i] = y
    BY DEF Range
  <2>2. i # 1
    BY <1>2, <2>1
  <2>3. i - 1 \in 1 .. Len(Tail(q)) /\ Tail(q)[i - 1] = y
    BY <1>1, <2>1, <2>2
  <2>4. DOMAIN Tail(q) = 1 .. Len(Tail(q))
    BY <1>1
  <2> QED  BY <2>3, <2>4 DEF Range
<1> QED  BY <1>1, <1>2

(* Nothing gets lost unnoticed, the queue stays in its bound, and one      *)
(* entry at a time never makes it longer than one.                         *)
LEMMA QueueStep ==
    ASSUME NEW S, NEW q \in Seq(S), Len(q) <= QUEUE_DEPTH,
           NEW arrived \in SUBSET S, Single(arrived)
    PROVE  /\ After(q, arrived) \in Seq(S)
           /\ Len(After(q, arrived)) <= QUEUE_DEPTH
           /\ Range(q) \cup arrived \subseteq
                Range(After(q, arrived)) \cup Delivered(q) \cup Spilled(q, arrived)
           /\ Len(q) <= 1 => Len(After(q, arrived)) <= 1
<1> DEFINE e == Enqueued(q, arrived)
           Joined(r) ==
             /\ r \in Seq(S) /\ Len(r) <= QUEUE_DEPTH /\ Len(r) <= Len(q) + 1
             /\ Range(q) \cup arrived \subseteq Range(r) \cup Spilled(q, arrived)
             /\ q # << >> => r # << >> /\ Head(r) = Head(q)
<1>0. QUEUE_DEPTH \in Nat /\ Len(q) \in Nat
  BY DepthAssumption
<1>1. Joined(e)
  <2>1. CASE e = q /\ arrived \subseteq Range(q) \cup Spilled(q, arrived)
    BY <2>1, <1>0
  <2>2. ASSUME NEW x \in S, arrived = {x}, Len(q) < QUEUE_DEPTH, e = Append(q, x)
        PROVE  Joined(e)
    <3>1. Joined(Append(q, x))
      BY <2>2, <1>0, AppendRange
    <3> QED  BY <2>2, <3>1
  <2> QED  BY <2>1, <2>2, EnqueuedShape
<1>2. CASE q = << >>
  <2>1. After(q, arrived) = e
    BY <1>2 DEF After, Drained
  <2> QED  BY <1>0, <1>1, <1>2, <2>1
<1>3. CASE q # << >>
  <2> HIDE DEF e
  <2>1. After(q, arrived) = Tail(e)
    BY <1>3 DEF After, Drained, e
  <2>2. Delivered(q) = {Head(e)}
    BY <1>1, <1>3 DEF Delivered
  <2>3. /\ Tail(e) \in Seq(S) /\ Len(Tail(e)) = Len(e) - 1
        /\ Range(e) \subseteq Range(Tail(e)) \cup {Head(e)}
    BY <1>1, <1>3, TailRange
  <2> QED  BY <1>0, <1>1, <2>1, <2>2, <2>3
<1> QED  BY <1>2, <1>3

-----------------------------------------------------------------------------
(* What an event may bring.                                                *)
LEMMA EventShape ==
    ASSUME NEW e \in Event
    PROVE  /\ e.commits \subseteq Source
           /\ e.records \subseteq Witness
           /\ e.lines \in SUBSET Source /\ Single(e.lines)
           /\ e.entries \in SUBSET TargetEntry /\ Single(e.entries)
           /\ e.downgrades \subseteq Witness /\ e.restores \subseteq Witness
<1>1. CASE e = Idle
  BY <1>1 DEF Idle, Single
<1>2. CASE \E s \in Source : e = [Idle EXCEPT !.commits = {s}]
  BY <1>2 DEF Idle, Single
<1>3. CASE \E w \in Witness : e = [Idle EXCEPT !.records = {w}]
  BY <1>3 DEF Idle, Single
<1>4. CASE \E s \in Source : e = [Idle EXCEPT !.lines = {s}]
  BY <1>4 DEF Idle, Single
<1>5. CASE \E n \in TargetEntry : e = [Idle EXCEPT !.entries = {n}]
  BY <1>5 DEF Idle, Single
<1>6. CASE \E w \in Witness : e = [Idle EXCEPT !.downgrades = {w}]
  BY <1>6 DEF Idle, Single
<1>7. CASE \E w \in Witness : e = [Idle EXCEPT !.restores = {w}]
  BY <1>7 DEF Idle, Single
<1> QED  BY <1>1, <1>2, <1>3, <1>4, <1>5, <1>6, <1>7 DEF Event

(* What both queues are after a step.                                      *)
LEMMA SourceQueueStep ==
    ASSUME TypeOK, NEW e \in Event, Step(e)
    PROVE  /\ source_queue' \in Seq(Source) /\ Len(source_queue') <= QUEUE_DEPTH
           /\ \A l \in Range(source_queue) \cup e.lines :
                \/ l \in Range(source_queue') \/ l \in Delivered(source_queue)
                \/ overflow'
           /\ Len(source_queue) <= 1 => Len(source_queue') <= 1
<1>1. source_queue' = After(source_queue, e.lines)
  BY DEF Step, SourceStep, After
<1>2. Spilled(source_queue, e.lines) # {} => overflow'
  BY DEF Step, Spills
<1>3. source_queue \in Seq(Source) /\ Len(source_queue) <= QUEUE_DEPTH
  BY DEF TypeOK
<1>4. e.lines \in SUBSET Source /\ Single(e.lines)
  BY EventShape
<1> QED  BY <1>1, <1>2, <1>3, <1>4, QueueStep

(* The same of the target queue, for every event.                          *)
LEMMA TargetQueueStep ==
    ASSUME TypeOK, NEW e \in Event, Step(e)
    PROVE  /\ target_queue' \in Seq(TargetEntry) /\ Len(target_queue') <= QUEUE_DEPTH
           /\ \A n \in Range(target_queue) \cup e.entries :
                \/ n \in Range(target_queue') \/ n \in Delivered(target_queue)
                \/ overflow'
           /\ Len(target_queue) <= 1 => Len(target_queue') <= 1
<1>1. target_queue' = After(target_queue, e.entries)
  BY DEF Step, TargetStep, After
<1>2. Spilled(target_queue, e.entries) # {} => overflow'
  BY DEF Step, Spills
<1>3. target_queue \in Seq(TargetEntry) /\ Len(target_queue) <= QUEUE_DEPTH
  BY DEF TypeOK
<1>4. e.entries \in SUBSET TargetEntry /\ Single(e.entries)
  BY EventShape
<1> QED  BY <1>1, <1>2, <1>3, <1>4, QueueStep

-----------------------------------------------------------------------------
(* The types are kept, and with them the bound of both queues, whatever    *)
(* QUEUE_DEPTH is: copper_tlb_coherence_contract.py, step_state.           *)
THEOREM TypeCorrect == Spec => []TypeOK
<1>1. Init => TypeOK
  <2> SUFFICES ASSUME Init PROVE TypeOK
    OBVIOUS
  <2>1. source_queue \in Seq(Source) /\ target_queue \in Seq(TargetEntry)
    BY DEF Init
  <2>2. Len(source_queue) <= QUEUE_DEPTH /\ Len(target_queue) <= QUEUE_DEPTH
    BY DepthAssumption DEF Init
  <2>3. current_epoch \in [Witness -> Bit] /\ witness_epoch \in [Witness -> Bit]
    BY DEF Init, Bit
  <2> QED  BY <2>1, <2>2, <2>3 DEF Init, TypeOK
<1>2. TypeOK /\ [Next]_vars => TypeOK'
  <2> SUFFICES ASSUME TypeOK, [Next]_vars PROVE TypeOK'
    OBVIOUS
  <2>1. ASSUME NEW e \in Event, Step(e) PROVE TypeOK'
    <3>1. /\ e.commits \subseteq Source /\ e.records \subseteq Witness
          /\ e.downgrades \subseteq Witness /\ e.restores \subseteq Witness
      BY EventShape
    <3>2. source_truth' \subseteq Source /\ source_meta' \subseteq Source
      BY <2>1, <3>1 DEF Step, SourceStep, TypeOK
    <3>3. target_truth' \subseteq Witness /\ target_meta' \subseteq Witness
      BY <2>1, <3>1 DEF Step, TargetStep, Recorded, TypeOK
    <3>4. permission' \subseteq Witness
      BY <2>1, <3>1 DEF Step, PermissionAfter, TypeOK
    <3>5. witness_epoch' \in [Witness -> Bit]
      BY <2>1 DEF Step, TargetStep, TypeOK
    <3>6. \A b \in Bit : Bumped(b) \in Bit
      BY DEF Bit, Bumped
    <3>7. current_epoch' \in [Witness -> Bit]
      BY <2>1, <3>6 DEF Step, TargetStep, TypeOK
    <3>8. overflow' \in BOOLEAN
      BY <2>1 DEF Step, TypeOK
    <3>9. demanded' \subseteq Witness
      BY <2>1, <3>1 DEF Step, Recorded, TypeOK
    <3> QED
      BY <2>1, <3>2, <3>3, <3>4, <3>5, <3>7, <3>8, <3>9, SourceQueueStep,
         TargetQueueStep DEF TypeOK
  <2>2. CASE UNCHANGED vars
    BY <2>2 DEF TypeOK, vars
  <2> QED  BY <2>1, <2>2 DEF Next
<1> QED  BY <1>1, <1>2, PTL DEF Spec

(* A live witness has the epoch of its translation: the drain that flips   *)
(* the bit takes the witness with it.                                      *)
THEOREM EpochsAgree == Spec => []EpochIsCurrent
<1>1. Init => EpochIsCurrent
  BY DEF Init, EpochIsCurrent
<1>2. TypeOK /\ EpochIsCurrent /\ [Next]_vars => EpochIsCurrent'
  <2> SUFFICES ASSUME TypeOK, EpochIsCurrent, [Next]_vars PROVE EpochIsCurrent'
    OBVIOUS
  <2>1. ASSUME NEW e \in Event, Step(e), NEW w \in target_meta'
        PROVE  witness_epoch'[w] = current_epoch'[w]
    <3>1. w \in target_meta \cup Recorded(e) /\ w \notin Repairs
      BY <2>1 DEF Step, TargetStep
    <3>2. w \in Witness
      BY <3>1, EventShape DEF Recorded, TypeOK
    <3>3. current_epoch'[w] = current_epoch[w]
      BY <2>1, <3>1, <3>2 DEF Step, TargetStep, Repairs
    <3>4. witness_epoch'[w] = IF w \in Recorded(e) THEN current_epoch[w]
                                                   ELSE witness_epoch[w]
      BY <2>1, <3>2 DEF Step, TargetStep
    <3> QED  BY <3>1, <3>3, <3>4 DEF EpochIsCurrent
  <2>2. CASE UNCHANGED vars
    BY <2>2 DEF EpochIsCurrent, vars
  <2> QED  BY <2>1, <2>2 DEF Next, EpochIsCurrent
<1> QED  BY <1>1, <1>2, TypeCorrect, PTL DEF Spec

(* Metadata that outlives its truth is named by an entry that waits, or the*)
(* queues have overflowed: the inductive invariant behind the hold.        *)
LEMMA StaleStep ==
    ASSUME TypeOK, StaleIsQueued, NEW e \in Event, Step(e)
    PROVE  StaleIsQueued'
<1> SUFFICES ASSUME ~overflow'
             PROVE  /\ source_meta' \subseteq source_truth' \cup Range(source_queue')
                    /\ target_meta' \subseteq
                          target_truth' \cup Covered(Range(target_queue'))
  BY DEF StaleIsQueued, Range, Covered
<1>1. ~overflow
  BY DEF Step
<1>2. ASSUME NEW l \in source_meta'
      PROVE  l \in source_truth' \cup Range(source_queue')
  <2>1. l \in source_meta \cup e.commits /\ l \notin Delivered(source_queue)
    BY DEF Step, SourceStep
  <2>2. CASE l \in Range(source_queue) \cup e.lines
    BY <2>1, <2>2, SourceQueueStep
  <2>3. CASE l \notin Range(source_queue) \cup e.lines
    <3>1. l \in source_truth \cup e.commits
      BY <1>1, <2>1, <2>3 DEF StaleIsQueued
    <3> QED  BY <2>3, <3>1 DEF Step, SourceStep
  <2> QED  BY <2>2, <2>3
<1>3. ASSUME NEW w \in target_meta'
      PROVE  w \in target_truth' \cup Covered(Range(target_queue'))
  <2>1. /\ w \in target_meta \cup Recorded(e)
        /\ w \notin Covered(Delivered(target_queue))
    BY DEF Step, TargetStep, Repairs
  <2>2. CASE w \in Covered(Range(target_queue) \cup e.entries)
    <3>1. PICK n \in Range(target_queue) \cup e.entries : w \in n.covers
      BY <2>2 DEF Covered
    <3>2. n \notin Delivered(target_queue)
      BY <2>1, <3>1 DEF Covered
    <3>3. n \in Range(target_queue')
      BY <3>2, TargetQueueStep
    <3> QED  BY <3>1, <3>3 DEF Covered
  <2>3. CASE w \notin Covered(Range(target_queue) \cup e.entries)
    <3>1. w \notin Covered(Range(target_queue)) /\ w \notin Covered(e.entries)
      BY <2>3 DEF Covered
    <3>2. w \in target_truth \cup Recorded(e)
      BY <1>1, <2>1, <3>1 DEF StaleIsQueued
    <3> QED  BY <3>1, <3>2 DEF Step, TargetStep
  <2> QED  BY <2>2, <2>3
<1> QED  BY <1>2, <1>3

(* Metadata that outlives its truth is named by an entry that waits, or    *)
(* the queues have overflowed, for every depth: enqueue, drain and spill   *)
(* of TlbContract.                                                         *)
THEOREM StaleQueued == Spec => []StaleIsQueued
<1>1. Init => StaleIsQueued
  BY DEF Init, StaleIsQueued
<1>2. TypeOK /\ StaleIsQueued /\ [Next]_vars => StaleIsQueued'
  <2> SUFFICES ASSUME TypeOK, StaleIsQueued, [Next]_vars PROVE StaleIsQueued'
    OBVIOUS
  <2>1. CASE UNCHANGED vars
    BY <2>1 DEF StaleIsQueued, vars, Range, Covered
  <2> QED  BY <2>1, StaleStep DEF Next
<1> QED  BY <1>1, <1>2, TypeCorrect, PTL DEF Spec

(* What issues is true before and after the event of its step, and what is *)
(* true, named by nothing pending, and of a witness that demand has        *)
(* recorded since its last downgrade, issues: search_unsafe and the false  *)
(* blocks of copper_tlb_coherence_contract.py, for every size.             *)
THEOREM IssueSound == Spec => []IssueIsExact
<1>1. ASSUME TypeOK, StaleIsQueued, NEW e \in Event, NEW q \in Query,
             IssueAllowed(e, q)
      PROVE  /\ GroundTruthAuthorized(q)
             /\ q.src \notin e.lines
             /\ q.witness \notin Covered(e.entries)
             /\ q.witness \in PermissionAfter(e)
  <2>1. MetadataAuthorized(q) /\ ~overflow /\ ~QueuedConflict(q) /\ ~EventConflict(e, q)
    BY <1>1 DEF IssueAllowed, Hold
  <2>2. q.src \in source_truth /\ q.witness \in target_truth
    BY <1>1, <2>1 DEF StaleIsQueued, MetadataAuthorized, QueuedConflict
  <2> QED
    BY <2>1, <2>2 DEF MetadataAuthorized, GroundTruthAuthorized, EventConflict,
                      PermissionAfter
<1>2. HoldIsScoped
  <2> SUFFICES ASSUME NEW e \in Event, NEW q \in Query,
                      GroundTruthAuthorized(q),
                      q.src \in source_meta, q.witness \in target_meta,
                      q.witness \in demanded,
                      q.src \notin Range(source_queue) \cup e.lines,
                      q.witness \notin Covered(Range(target_queue) \cup e.entries),
                      q.witness \notin e.downgrades,
                      ~overflow
               PROVE  IssueAllowed(e, q)
    BY DEF HoldIsScoped
  <2>1. q.witness \notin Covered(Range(target_queue)) /\ q.witness \notin Covered(e.entries)
    BY DEF Covered
  <2> QED
    BY <2>1 DEF IssueAllowed, MetadataAuthorized, GroundTruthAuthorized, Hold,
                QueuedConflict, EventConflict
<1>3. TypeOK /\ StaleIsQueued => IssueIsExact
  BY <1>1, <1>2 DEF IssueIsExact, IssueIsTrue
<1> QED  BY <1>3, TypeCorrect, StaleQueued, PTL

(* Two slots are enough for ever: no queue keeps more than one entry over  *)
(* a step, so the overflow bit of a queue of two or more is never set.     *)
THEOREM TwoSlots == Spec => []TwoSlotsSuffice
<1> DEFINE Short == QUEUE_DEPTH >= 2 =>
                        /\ Len(source_queue) <= 1 /\ Len(target_queue) <= 1
                        /\ ~overflow
<1>1. Init => Short
  BY DEF Init
<1>2. TypeOK /\ Short /\ [Next]_vars => Short'
  <2> SUFFICES ASSUME TypeOK, Short, [Next]_vars, QUEUE_DEPTH >= 2
               PROVE  /\ Len(source_queue') <= 1 /\ Len(target_queue') <= 1
                      /\ ~overflow'
    OBVIOUS
  <2>1. ASSUME NEW e \in Event, Step(e)
        PROVE  /\ Len(source_queue') <= 1 /\ Len(target_queue') <= 1
               /\ ~overflow'
    <3>1. Len(source_queue) \in Nat /\ Len(target_queue) \in Nat
      BY DEF TypeOK
    <3>2. Len(source_queue) < QUEUE_DEPTH /\ Len(target_queue) < QUEUE_DEPTH
      BY <3>1, DepthAssumption
    <3>3. ~Spills(e)
      BY <3>2 DEF Spills, Spilled
    <3>4. ~overflow'
      BY <2>1, <3>3 DEF Step
    <3> QED  BY <2>1, <3>4, SourceQueueStep, TargetQueueStep
  <2>2. CASE UNCHANGED vars
    BY <2>2 DEF vars
  <2> QED  BY <2>1, <2>2 DEF Next
<1>3. Short => TwoSlotsSuffice
  BY DEF TwoSlotsSuffice
<1> QED  BY <1>1, <1>2, <1>3, TypeCorrect, PTL DEF Spec

-----------------------------------------------------------------------------
(* Every run of the composition is a run of the CLPD contract,             *)
LEMMA ClpdPart == Software => Clpd!Spec
<1>1. SoftwareInit => Clpd!Init
  BY DEF SoftwareInit
<1>2. [SoftwareNext]_all => [Clpd!Next]_(Clpd!vars)
  BY DEF SoftwareNext, ContractStep, ServiceStep, ParentStep, ChildStep,
         Misfortune, ImportStep, all, contracts, clpd, Clpd!vars
<1> QED BY <1>1, <1>2, PTL DEF Software, Clpd!Spec

(* ... of the authority contract,                                          *)
LEMMA AuthorityPart == Software => Authority!Spec
<1>1. SoftwareInit => Authority!Init
  BY DEF SoftwareInit
<1>2. [SoftwareNext]_all => [Authority!Next]_(Authority!vars)
  BY DEF SoftwareNext, ContractStep, ServiceStep, ParentStep, ChildStep,
         Misfortune, ImportStep, all, contracts, authority, Authority!vars
<1> QED BY <1>1, <1>2, PTL DEF Software, Authority!Spec

(* ... of the LSQ contract,                                                *)
LEMMA TrackerPart == Software => Ooo!Spec
<1>1. SoftwareInit => Ooo!Init
  BY DEF SoftwareInit
<1>2. [SoftwareNext]_all => [Ooo!Next]_(Ooo!vars)
  BY DEF SoftwareNext, ContractStep, ServiceStep, ParentStep, ChildStep,
         Misfortune, ImportStep, all, contracts, tracker, Ooo!vars
<1> QED BY <1>1, <1>2, PTL DEF Software, Ooo!Spec

(* ... of ROPL,                                                            *)
LEMMA ReplayPart == Software => Ropl!Spec
<1>1. SoftwareInit => Ropl!Init
  BY DEF SoftwareInit
<1>2. [SoftwareNext]_all => [Ropl!Next]_(Ropl!vars)
  BY DEF SoftwareNext, ContractStep, ServiceStep, ParentStep, ChildStep,
         Misfortune, ImportStep, all, contracts, replay, Ropl!vars
<1> QED BY <1>1, <1>2, PTL DEF Software, Ropl!Spec

(* ... and of the exchange.                                                *)
LEMMA ProcessPart == Software => Process!Spec
<1>1. SoftwareInit => Process!Init
  BY DEF SoftwareInit
<1>2. [SoftwareNext]_all => [Process!Next]_(Process!vars)
  BY DEF SoftwareNext, ContractStep, ServiceStep, ParentStep, ChildStep,
         Misfortune, ImportStep, all, programs, process, Process!vars,
         Process!net, Process!counters, Process!Next, Process!Misfortune
<1> QED BY <1>1, <1>2, PTL DEF Software, Process!Spec

-----------------------------------------------------------------------------
(* The CLPD contract.  A valid entry lies where its line maps to, has the  *)
(* epoch the line has now and the token the truth keeps for it, and every  *)
(* word of its mask is in the truth and was committed under its token.     *)
SpeaksTruly(i) ==
    /\ LineIdx[entry[i].tag] = i
    /\ entry[i].epoch = line_epoch[entry[i].tag]
    /\ entry[i].token = truth_token[entry[i].tag]
    /\ entry[i].mask \subseteq truth_mask[entry[i].tag]
    /\ \A w \in entry[i].mask :
           <<entry[i].tag, w, entry[i].token>> \in committed

ClpdOK == /\ cl_token \in Space
          /\ line_epoch \in [LineTag -> Clpd!Epoch]
          /\ truth_token \in [LineTag -> Space]
          /\ truth_mask \in [LineTag -> SUBSET Word]
          /\ entry \in [EntryIdx -> Clpd!Clpd!Entry \cup {NoEntry}]
          /\ \A i \in EntryIdx : entry[i] # NoEntry => SpeaksTruly(i)

(* The entry a commit leaves: of its line, in its epoch and under the      *)
(* token of the core, its mask the word and at most what it was.           *)
LEMMA CommittedEntryShape ==
    ASSUME ClpdOK, NEW l \in LineTag, NEW w \in Word
    PROVE  LET e == Clpd!CommittedEntry(l, w)
               o == entry[LineIdx[l]]
           IN  /\ e \in Clpd!Clpd!Entry /\ e # NoEntry
               /\ e.tag = l /\ e.token = cl_token /\ e.epoch = line_epoch[l]
               /\ \/ e.mask = {w}
                  \/ o # NoEntry /\ o.tag = l /\ o.token = cl_token
                     /\ e.mask = o.mask \cup {w}
<1> DEFINE o == entry[LineIdx[l]]
<1>1. LineIdx[l] \in EntryIdx /\ o \in Clpd!Clpd!Entry \cup {NoEntry}
  BY DirectoryAssumption DEF ClpdOK
<1>2. line_epoch[l] \in Clpd!Epoch /\ cl_token \in Space
  BY DEF ClpdOK
<1>3. CASE o # NoEntry /\ o.tag = l /\ o.token = cl_token /\ o.epoch = line_epoch[l]
  <2>1. o \in Clpd!Clpd!Entry
    BY <1>1, <1>3
  <2>2. Clpd!CommittedEntry(l, w) = [o EXCEPT !.mask = @ \cup {w}]
    BY <1>3 DEF Clpd!CommittedEntry
  <2>3. [o EXCEPT !.mask = @ \cup {w}]
          = [tag |-> o.tag, token |-> o.token, epoch |-> o.epoch,
             mask |-> o.mask \cup {w}]
    BY <2>1 DEF Clpd!Clpd!Entry
  <2>4. o.mask \cup {w} \in SUBSET Word
    BY <2>1 DEF Clpd!Clpd!Entry
  <2>5. [tag |-> o.tag, token |-> o.token, epoch |-> o.epoch,
         mask |-> o.mask \cup {w}] \in Clpd!Clpd!Entry
    BY <1>2, <1>3, <2>4 DEF Clpd!Clpd!Entry
  <2> QED BY <1>3, <2>2, <2>3, <2>5, NoEntryAssumption
<1>4. CASE ~(o # NoEntry /\ o.tag = l /\ o.token = cl_token /\ o.epoch = line_epoch[l])
  <2>1. Clpd!CommittedEntry(l, w)
          = [tag |-> l, token |-> cl_token, epoch |-> line_epoch[l], mask |-> {w}]
    BY <1>4 DEF Clpd!CommittedEntry
  <2>2. [tag |-> l, token |-> cl_token, epoch |-> line_epoch[l], mask |-> {w}]
          \in Clpd!Clpd!Entry
    BY <1>2 DEF Clpd!Clpd!Entry
  <2> QED BY <2>1, <2>2, NoEntryAssumption
<1> QED BY <1>3, <1>4

(* A commit leaves its entry with words committed under its token.         *)
LEMMA CommitWordStep ==
    ASSUME ClpdOK, NEW l \in LineTag, NEW w \in Word, Clpd!CommitWord(l, w)
    PROVE  ClpdOK'
<1> DEFINE e == Clpd!CommittedEntry(l, w)
           x == LineIdx[l]
<1>1. /\ e \in Clpd!Clpd!Entry /\ e # NoEntry
      /\ e.tag = l /\ e.token = cl_token /\ e.epoch = line_epoch[l]
      /\ \/ e.mask = {w}
         \/ entry[x] # NoEntry /\ entry[x].tag = l /\ entry[x].token = cl_token
            /\ e.mask = entry[x].mask \cup {w}
  BY CommittedEntryShape
<1>2. x \in EntryIdx
  BY DirectoryAssumption
<1> HIDE DEF e
<1>3. /\ truth_mask' = [truth_mask EXCEPT ![l] = @ \cup {w}]
      /\ truth_token' = [truth_token EXCEPT ![l] = cl_token]
      /\ entry' = [entry EXCEPT ![x] = e]
      /\ committed' = committed \cup {<<l, w, cl_token>>}
      /\ UNCHANGED <<cl_token, line_epoch>>
  BY DEF Clpd!CommitWord, e
<1>4. /\ cl_token' \in Space
      /\ line_epoch' \in [LineTag -> Clpd!Epoch]
      /\ truth_token' \in [LineTag -> Space]
      /\ truth_mask' \in [LineTag -> SUBSET Word]
      /\ entry' \in [EntryIdx -> Clpd!Clpd!Entry \cup {NoEntry}]
  BY <1>1, <1>3 DEF ClpdOK
<1>5. ASSUME NEW i \in EntryIdx, entry'[i] # NoEntry PROVE SpeaksTruly(i)'
  <2>1. CASE i = x
    <3>1. entry'[i] = e
      BY <1>3, <2>1 DEF ClpdOK
    <3>2. truth_token'[l] = cl_token /\ truth_mask'[l] = truth_mask[l] \cup {w}
      BY <1>3 DEF ClpdOK
    <3>3. e.mask \subseteq truth_mask[l] \cup {w}
      BY <1>1, <1>2 DEF ClpdOK, SpeaksTruly
    <3>4. \A v \in e.mask : <<l, v, cl_token>> \in committed'
      BY <1>1, <1>2, <1>3 DEF ClpdOK, SpeaksTruly
    <3> QED BY <1>1, <1>3, <2>1, <3>1, <3>2, <3>3, <3>4 DEF SpeaksTruly
  <2>2. CASE i # x
    <3>1. entry'[i] = entry[i] /\ entry[i] # NoEntry
      BY <1>3, <1>5, <2>2 DEF ClpdOK
    <3>2. SpeaksTruly(i) /\ entry[i].tag \in LineTag
      BY <3>1 DEF ClpdOK, Clpd!Clpd!Entry
    <3>3. entry[i].tag # l
      BY <2>2, <3>2 DEF SpeaksTruly
    <3>4. /\ truth_token'[entry[i].tag] = truth_token[entry[i].tag]
          /\ truth_mask'[entry[i].tag] = truth_mask[entry[i].tag]
      BY <1>3, <3>2, <3>3 DEF ClpdOK
    <3> QED BY <1>3, <3>1, <3>2, <3>4 DEF SpeaksTruly
  <2> QED BY <2>1, <2>2
<1> QED BY <1>4, <1>5 DEF ClpdOK

(* An update of a line clears the entry of that line.                      *)
LEMMA SourceUpdateStep ==
    ASSUME ClpdOK, NEW l \in LineTag, Clpd!SourceUpdate(l)
    PROVE  ClpdOK'
<1> DEFINE x == LineIdx[l]
           cleared == IF entry[x] # NoEntry /\ entry[x].tag = l THEN NoEntry
                                                                ELSE entry[x]
<1>1. x \in EntryIdx
  BY DirectoryAssumption
<1>2. /\ line_epoch' = [line_epoch EXCEPT ![l] = 1 - @]
      /\ truth_mask' = [truth_mask EXCEPT ![l] = {}]
      /\ entry' = [entry EXCEPT ![x] = cleared]
      /\ committed' = {c \in committed : c[1] # l}
      /\ UNCHANGED <<cl_token, truth_token>>
  BY DEF Clpd!SourceUpdate, Clpd!ClearedDirectory
<1>3. cleared \in Clpd!Clpd!Entry \cup {NoEntry}
  BY <1>1 DEF ClpdOK
<1>4. \A b \in Clpd!Epoch : 1 - b \in Clpd!Epoch
  BY DEF Clpd!Epoch
<1>5. /\ cl_token' \in Space
      /\ line_epoch' \in [LineTag -> Clpd!Epoch]
      /\ truth_token' \in [LineTag -> Space]
      /\ truth_mask' \in [LineTag -> SUBSET Word]
      /\ entry' \in [EntryIdx -> Clpd!Clpd!Entry \cup {NoEntry}]
  BY <1>2, <1>3, <1>4 DEF ClpdOK
<1>6. ASSUME NEW i \in EntryIdx, entry'[i] # NoEntry PROVE SpeaksTruly(i)'
  <2>1. entry'[i] = entry[i] /\ entry[i] # NoEntry
    BY <1>2, <1>6 DEF ClpdOK
  <2>2. SpeaksTruly(i) /\ entry[i].tag \in LineTag
    BY <2>1 DEF ClpdOK, Clpd!Clpd!Entry
  <2>3. entry[i].tag # l
    <3>1. SUFFICES ASSUME entry[i].tag = l PROVE FALSE
      OBVIOUS
    <3>2. i = x /\ cleared = NoEntry
      BY <2>1, <2>2, <3>1 DEF SpeaksTruly
    <3>3. entry'[i] = NoEntry
      BY <1>2, <3>2 DEF ClpdOK
    <3> QED BY <1>6, <3>3
  <2>4. /\ line_epoch'[entry[i].tag] = line_epoch[entry[i].tag]
        /\ truth_mask'[entry[i].tag] = truth_mask[entry[i].tag]
    BY <1>2, <2>2, <2>3 DEF ClpdOK
  <2>5. \A w \in entry[i].mask :
            <<entry[i].tag, w, entry[i].token>> \in committed'
    BY <1>2, <2>2, <2>3 DEF SpeaksTruly
  <2> QED BY <1>2, <2>1, <2>2, <2>4, <2>5 DEF SpeaksTruly
<1> QED BY <1>5, <1>6 DEF ClpdOK

(* ClpdOK holds of the contract after every step.                          *)
LEMMA ClpdInvariant == Clpd!Spec => []ClpdOK
<1>1. Clpd!Init => ClpdOK
  BY SpaceAssumption DEF Clpd!Init, ClpdOK, Clpd!Epoch
<1>2. ClpdOK /\ [Clpd!Next]_(Clpd!vars) => ClpdOK'
  <2> SUFFICES ASSUME ClpdOK, [Clpd!Next]_(Clpd!vars) PROVE ClpdOK'
    OBVIOUS
  <2>1. CASE Clpd!ContextSwitch
    BY <2>1 DEF Clpd!ContextSwitch, ClpdOK, SpeaksTruly
  <2>2. CASE UNCHANGED Clpd!vars
    BY <2>2 DEF Clpd!vars, ClpdOK, SpeaksTruly
  <2> QED BY <2>1, <2>2, CommitWordStep, SourceUpdateStep DEF Clpd!Next
<1> QED BY <1>1, <1>2, PTL DEF Clpd!Spec

(* What the directory authorizes was committed, whatever shares an entry   *)
(* and however often the one bit of an epoch comes round: explore_clpd of  *)
(* copper_clpd_state_space.py, for every number of lines, words, tokens    *)
(* and entries.                                                            *)
THEOREM ClpdAuthorityIsCommitted == Software => []AuthorityIsCommitted
<1>1. ClpdOK => AuthorityIsCommitted
  <2> SUFFICES ASSUME ClpdOK, NEW l \in LineTag, NEW w \in Word,
                      NEW s \in Space, NEW t \in Space, NEW e \in Clpd!Epoch,
                      Clpd!ClpdAuthorized(l, w, s, t, e)
               PROVE  /\ Clpd!TruthAuthorized(l, w, s, e)
                      /\ <<l, w, s>> \in committed
                      /\ s = t
                      /\ e = line_epoch[l]
    BY DEF AuthorityIsCommitted, Clpd!AuthorityIsCommitted
  <2>1. LineIdx[l] \in EntryIdx
    BY DirectoryAssumption
  <2>2. SpeaksTruly(LineIdx[l])
    BY <2>1 DEF ClpdOK, Clpd!ClpdAuthorized
  <2> QED BY <2>2 DEF SpeaksTruly, Clpd!ClpdAuthorized, Clpd!TruthAuthorized
<1> QED BY <1>1, ClpdPart, ClpdInvariant, PTL

(* Every step of the contract's directory is a clock edge of the directory *)
(* in copper_clpd_gate.sv: a commit without a clear, or one clear.         *)
THEOREM ClpdImplementsGate == Software => ImplementsGate
<1> DEFINE GateStep == \E commit \in Clpd!Clpd!Fact \cup {NoCommit}, l \in LineTag :
                       \/ Clpd!Clpd!Edge(commit, {})
                       \/ commit = NoCommit /\ Clpd!Clpd!Edge(commit, {l})
<1>1. ASSUME ClpdOK, NEW l \in LineTag, NEW w \in Word, Clpd!CommitWord(l, w)
      PROVE  GateStep
  <2> DEFINE c == [line |-> l, word |-> w, token |-> cl_token,
                   epoch |-> line_epoch[l]]
             x == LineIdx[l]
  <2>1. c \in Clpd!Clpd!Fact /\ c # NoCommit
    BY <1>1, NoCommitAssumption DEF ClpdOK, Clpd!Clpd!Fact
  <2>2. entry' = [i \in EntryIdx |-> IF i = x THEN Clpd!CommittedEntry(l, w)
                                              ELSE entry[i]]
    BY <1>1 DEF Clpd!CommitWord, ClpdOK
  <2>3. \A i \in EntryIdx : ~Clpd!Clpd!ClearHits(i, {})
    BY DEF Clpd!Clpd!ClearHits
  <2>4. ASSUME NEW i \in EntryIdx
        PROVE  Clpd!Clpd!NextEntry(i, c, {})
                 = IF i = x THEN Clpd!CommittedEntry(l, w) ELSE entry[i]
    <3>1. CASE i # x
      BY <2>1, <2>3, <3>1 DEF Clpd!Clpd!NextEntry
    <3>2. CASE i = x /\ Clpd!Clpd!Merges(i, c)
      BY <2>1, <2>3, <3>2
         DEF Clpd!Clpd!NextEntry, Clpd!Clpd!Merges, Clpd!CommittedEntry
    <3>3. CASE i = x /\ ~Clpd!Clpd!Merges(i, c)
      BY <2>1, <2>3, <3>3
         DEF Clpd!Clpd!NextEntry, Clpd!Clpd!Merges, Clpd!CommittedEntry,
             Clpd!Clpd!Replacement
    <3> QED BY <3>1, <3>2, <3>3
  <2> HIDE DEF c, x
  <2>5. Clpd!Clpd!Edge(c, {})
    BY <2>2, <2>4 DEF Clpd!Clpd!Edge
  <2> QED BY <2>1, <2>5
<1>2. ASSUME ClpdOK, NEW l \in LineTag, Clpd!SourceUpdate(l) PROVE GateStep
  <2> DEFINE x == LineIdx[l]
  <2>1. entry' = [i \in EntryIdx |->
                     IF i = x /\ entry[x] # NoEntry /\ entry[x].tag = l
                     THEN NoEntry ELSE entry[i]]
    BY <1>2 DEF Clpd!SourceUpdate, Clpd!ClearedDirectory, ClpdOK
  <2>2. ASSUME NEW i \in EntryIdx
        PROVE  Clpd!Clpd!NextEntry(i, NoCommit, {l})
                 = IF i = x /\ entry[x] # NoEntry /\ entry[x].tag = l
                   THEN NoEntry ELSE entry[i]
    BY DEF Clpd!Clpd!NextEntry, Clpd!Clpd!ClearHits
  <2>3. Clpd!Clpd!Edge(NoCommit, {l})
    BY <2>1, <2>2 DEF Clpd!Clpd!Edge
  <2> QED BY <2>3
<1>3. ClpdOK /\ [Clpd!Next]_(Clpd!vars) => [GateStep]_entry
  BY <1>1, <1>2 DEF Clpd!Next, Clpd!ContextSwitch, Clpd!vars
<1> QED BY <1>3, ClpdPart, ClpdInvariant, PTL
        DEF Clpd!Spec, ImplementsGate, Clpd!ImplementsGate

-----------------------------------------------------------------------------
(* The authority contract.  Between none and one update the bits of value  *)
(* and epoch tell whether the word of the tag has changed; a valid proof   *)
(* has seen no update at all; a fill that was reached through a witness is *)
(* terminal; a valid witness is of the present translation.                *)
AuthorityTyped ==
    /\ au_src \in [clean : BOOLEAN, value : Authority!Bit, epoch : Authority!Bit]
    /\ au_token \in Space
    /\ au_proof \in [valid : BOOLEAN, value : Authority!Bit, epoch : Authority!Bit,
                    token : Space, sound : BOOLEAN]
    /\ inflight \in [valid : BOOLEAN, value : Authority!Bit,
                     epoch : Authority!Bit, token : Space]
    /\ target \in [same_page : BOOLEAN, candidate : Authority!Bit]
    /\ witness \in [valid : BOOLEAN, target : Authority!Bit, token : Space]
    /\ since_capture \in 0 .. 2 /\ since_proof \in 0 .. 2

BitsTell ==
    /\ since_capture = 0 => inflight.epoch = au_src.epoch
    /\ since_capture = 1 => inflight.epoch = 1 - au_src.epoch

ProofIsFresh == au_proof.valid => since_proof = 0 /\ au_proof.sound

FillsAreTerminal == /\ chased \in BOOLEAN /\ terminal_source \in BOOLEAN
                    /\ chased => terminal_source

WitnessIsPresent == /\ remapped \in BOOLEAN
                    /\ witness.valid => ~remapped

AuthorityOK == /\ AuthorityTyped /\ BitsTell /\ ProofIsFresh
               /\ FillsAreTerminal /\ WitnessIsPresent

(* At first there is neither source, proof nor witness.                    *)
LEMMA AuthorityInit == Authority!Init => AuthorityOK
<1> SUFFICES ASSUME Authority!Init PROVE AuthorityOK
  OBVIOUS
<1> USE SpaceAssumption DEF Authority!Init
<1>1. AuthorityTyped
  BY DEF AuthorityTyped, Authority!Bit
<1>2. BitsTell
  BY DEF BitsTell
<1>3. ~au_proof.valid /\ ~witness.valid
  OBVIOUS
<1>4. FillsAreTerminal
  BY DEF FillsAreTerminal
<1> QED BY <1>1, <1>2, <1>3, <1>4
        DEF AuthorityOK, ProofIsFresh, WitnessIsPresent

(* Every step of the contract, one by one, and what it disturbs.           *)
LEMMA AuthorityStep ==
    ASSUME AuthorityOK, [Authority!Next]_(Authority!vars)
    PROVE  AuthorityOK'
<1> USE DEF AuthorityOK
<1>1. \A b \in Authority!Bit : 1 - b \in Authority!Bit /\ 1 - (1 - b) = b /\ b # 1 - b
  BY DEF Authority!Bit
<1>2. CASE Authority!DemandLoad
  <2>1. AuthorityTyped'
    BY <1>1, <1>2 DEF AuthorityTyped, Authority!DemandLoad
  <2>2. BitsTell' /\ ProofIsFresh'
    BY <1>1, <1>2 DEF AuthorityTyped, BitsTell, ProofIsFresh, Authority!DemandLoad
  <2>3. FillsAreTerminal' /\ WitnessIsPresent'
    BY <1>2 DEF AuthorityTyped, FillsAreTerminal, WitnessIsPresent, Authority!DemandLoad
  <2> QED BY <2>1, <2>2, <2>3
<1>3. CASE Authority!CaptureTag
  <2>1. AuthorityTyped'
    BY <1>1, <1>3 DEF AuthorityTyped, Authority!CaptureTag
  <2>2. BitsTell' /\ ProofIsFresh'
    BY <1>1, <1>3 DEF AuthorityTyped, BitsTell, ProofIsFresh, Authority!CaptureTag
  <2>3. FillsAreTerminal' /\ WitnessIsPresent'
    BY <1>3 DEF AuthorityTyped, FillsAreTerminal, WitnessIsPresent, Authority!CaptureTag
  <2> QED BY <2>1, <2>2, <2>3
<1>4. CASE Authority!CommitPointerUse
  <2>1. AuthorityTyped'
    <3>1. Authority!CepfMatch = TRUE
      BY <1>4 DEF Authority!CommitPointerUse, Authority!CepfMatch
    <3>2. au_proof' = [valid |-> TRUE, value |-> au_src.value,
                       epoch |-> au_src.epoch, token |-> au_token, sound |-> TRUE]
      BY <1>4, <3>1 DEF Authority!CommitPointerUse
    <3>3. au_proof' \in [valid : BOOLEAN, value : Authority!Bit,
                         epoch : Authority!Bit, token : Space, sound : BOOLEAN]
      BY <3>2 DEF AuthorityTyped
    <3>4. /\ inflight' = [inflight EXCEPT !.valid = FALSE]
          /\ since_proof' = 0
          /\ UNCHANGED <<au_src, au_token, target, witness, since_capture>>
      BY <1>4 DEF Authority!CommitPointerUse
    <3>5. inflight' \in [valid : BOOLEAN, value : Authority!Bit,
                         epoch : Authority!Bit, token : Space]
      BY <3>4 DEF AuthorityTyped
    <3> QED BY <3>3, <3>4, <3>5 DEF AuthorityTyped
  <2>2. BitsTell' /\ ProofIsFresh'
    BY <1>1, <1>4 DEF AuthorityTyped, BitsTell, ProofIsFresh, Authority!CommitPointerUse, Authority!CepfMatch
  <2>3. FillsAreTerminal' /\ WitnessIsPresent'
    BY <1>4 DEF AuthorityTyped, FillsAreTerminal, WitnessIsPresent, Authority!CommitPointerUse, Authority!CepfMatch
  <2> QED BY <2>1, <2>2, <2>3
<1>5. CASE Authority!Squash
  <2>1. AuthorityTyped'
    BY <1>1, <1>5 DEF AuthorityTyped, Authority!Squash, Authority!history
  <2>2. BitsTell' /\ ProofIsFresh'
    BY <1>1, <1>5 DEF AuthorityTyped, BitsTell, ProofIsFresh, Authority!Squash, Authority!history
  <2>3. FillsAreTerminal' /\ WitnessIsPresent'
    BY <1>5 DEF AuthorityTyped, FillsAreTerminal, WitnessIsPresent, Authority!Squash, Authority!history
  <2> QED BY <2>1, <2>2, <2>3
<1>6. CASE Authority!SourceUpdate
  <2>1. /\ au_src' = [clean |-> FALSE, value |-> 1 - au_src.value,
                       epoch |-> 1 - au_src.epoch]
        /\ au_proof' = [au_proof EXCEPT !.valid = FALSE, !.sound = FALSE]
        /\ UNCHANGED <<au_token, inflight, target, witness>>
        /\ since_capture' = (IF since_capture < 2 THEN since_capture + 1
                                                  ELSE since_capture)
        /\ since_proof' = (IF since_proof < 2 THEN since_proof + 1
                                              ELSE since_proof)
    BY <1>6 DEF Authority!SourceUpdate, Authority!ProofAfterUpdate,
                Authority!OneMore, Authority!MaxUpdates
  <2>2. AuthorityTyped'
    <3>1. au_src.value \in Authority!Bit /\ au_src.epoch \in Authority!Bit
      BY DEF AuthorityTyped
    <3>2. au_src' \in [clean : BOOLEAN, value : Authority!Bit, epoch : Authority!Bit]
      BY <1>1, <2>1, <3>1
    <3>3. au_proof' \in [valid : BOOLEAN, value : Authority!Bit,
                         epoch : Authority!Bit, token : Space, sound : BOOLEAN]
      BY <2>1 DEF AuthorityTyped
    <3>4. since_capture' \in 0 .. 2 /\ since_proof' \in 0 .. 2
      BY <2>1 DEF AuthorityTyped
    <3> QED BY <2>1, <3>2, <3>3, <3>4 DEF AuthorityTyped
  <2>4. BitsTell'
    <3>1. /\ au_src'.epoch = 1 - au_src.epoch /\ inflight'.epoch = inflight.epoch
          /\ au_src.epoch \in Authority!Bit
      BY <2>1 DEF AuthorityTyped
    <3>2. since_capture \in 0 .. 2
      BY DEF AuthorityTyped
    <3> QED BY <1>1, <2>1, <3>1, <3>2 DEF BitsTell
  <2>5. ProofIsFresh'
    BY <2>1 DEF AuthorityTyped, ProofIsFresh
  <2>3. FillsAreTerminal' /\ WitnessIsPresent'
    BY <1>6 DEF AuthorityTyped, FillsAreTerminal, WitnessIsPresent, Authority!SourceUpdate, Authority!ProofAfterUpdate, Authority!OneMore
  <2> QED BY <2>2, <2>3, <2>4, <2>5
<1>7. CASE Authority!ContextSwitch
  <2>1. AuthorityTyped'
    BY <1>1, <1>7 DEF AuthorityTyped, Authority!ContextSwitch, Authority!WitnessAfterRemap
  <2>2. BitsTell' /\ ProofIsFresh'
    BY <1>1, <1>7 DEF AuthorityTyped, BitsTell, ProofIsFresh, Authority!ContextSwitch, Authority!WitnessAfterRemap
  <2>3. FillsAreTerminal' /\ WitnessIsPresent'
    BY <1>7 DEF AuthorityTyped, FillsAreTerminal, WitnessIsPresent, Authority!ContextSwitch, Authority!WitnessAfterRemap
  <2> QED BY <2>1, <2>2, <2>3
<1>8. CASE Authority!TargetMoves
  <2>1. AuthorityTyped'
    BY <1>1, <1>8 DEF AuthorityTyped, Authority!TargetMoves, Authority!history
  <2>2. BitsTell' /\ ProofIsFresh'
    BY <1>1, <1>8 DEF AuthorityTyped, BitsTell, ProofIsFresh, Authority!TargetMoves, Authority!history
  <2>3. FillsAreTerminal' /\ WitnessIsPresent'
    BY <1>8 DEF AuthorityTyped, FillsAreTerminal, WitnessIsPresent, Authority!TargetMoves, Authority!history
  <2> QED BY <2>1, <2>2, <2>3
<1>9. CASE Authority!RecordWitness
  <2>1. AuthorityTyped'
    BY <1>1, <1>9 DEF AuthorityTyped, Authority!RecordWitness
  <2>2. BitsTell' /\ ProofIsFresh'
    BY <1>1, <1>9 DEF AuthorityTyped, BitsTell, ProofIsFresh, Authority!RecordWitness
  <2>3. FillsAreTerminal' /\ WitnessIsPresent'
    BY <1>9 DEF AuthorityTyped, FillsAreTerminal, WitnessIsPresent, Authority!RecordWitness
  <2> QED BY <2>1, <2>2, <2>3
<1>10. CASE Authority!Remap
  <2>1. AuthorityTyped'
    BY <1>1, <1>10 DEF AuthorityTyped, Authority!Remap, Authority!WitnessAfterRemap
  <2>2. BitsTell' /\ ProofIsFresh'
    BY <1>1, <1>10 DEF AuthorityTyped, BitsTell, ProofIsFresh, Authority!Remap, Authority!WitnessAfterRemap
  <2>3. FillsAreTerminal' /\ WitnessIsPresent'
    BY <1>10 DEF AuthorityTyped, FillsAreTerminal, WitnessIsPresent, Authority!Remap, Authority!WitnessAfterRemap
  <2> QED BY <2>1, <2>2, <2>3
<1>11. CASE Authority!EvictWitness
  <2>1. AuthorityTyped'
    BY <1>1, <1>11 DEF AuthorityTyped, Authority!EvictWitness, Authority!history
  <2>2. BitsTell' /\ ProofIsFresh'
    BY <1>1, <1>11 DEF AuthorityTyped, BitsTell, ProofIsFresh, Authority!EvictWitness, Authority!history
  <2>3. FillsAreTerminal' /\ WitnessIsPresent'
    BY <1>11 DEF AuthorityTyped, FillsAreTerminal, WitnessIsPresent, Authority!EvictWitness, Authority!history
  <2> QED BY <2>1, <2>2, <2>3
<1>12. CASE Authority!IssuePrefetch
  <2>1. AuthorityTyped'
    BY <1>1, <1>12 DEF AuthorityTyped, Authority!IssuePrefetch, Authority!CanIssue, Authority!WitnessExact
  <2>2. BitsTell' /\ ProofIsFresh'
    BY <1>1, <1>12 DEF AuthorityTyped, BitsTell, ProofIsFresh, Authority!IssuePrefetch, Authority!CanIssue, Authority!WitnessExact
  <2>3. FillsAreTerminal' /\ WitnessIsPresent'
    BY <1>12 DEF AuthorityTyped, FillsAreTerminal, WitnessIsPresent, Authority!IssuePrefetch, Authority!CanIssue, Authority!WitnessExact
  <2> QED BY <2>1, <2>2, <2>3
<1>13. CASE UNCHANGED Authority!vars
  BY <1>13 DEF Authority!vars, AuthorityTyped, BitsTell, ProofIsFresh,
     FillsAreTerminal, WitnessIsPresent
<1> QED BY <1>2, <1>3, <1>4, <1>5, <1>6, <1>7, <1>8, <1>9, <1>10, <1>11, <1>12, <1>13
        DEF Authority!Next

(* AuthorityOK holds of the contract after every step.                     *)
LEMMA AuthorityInvariant == Authority!Spec => []AuthorityOK
  BY AuthorityInit, AuthorityStep, PTL DEF Authority!Spec

(* A prefetch is issued only with a proof that no update has followed, not *)
(* from a fill that was reached through a witness, and off its page only   *)
(* under the translation its witness was made in: the claim of             *)
(* copper_authority_state_space.py, for any number of address spaces.      *)
THEOREM AuthorityIssueIsSound == Software => []IssueIsSound
<1>1. AuthorityOK => IssueIsSound
  BY DEF AuthorityOK, ProofIsFresh, FillsAreTerminal, WitnessIsPresent,
         IssueIsSound, Authority!IssueIsSound, Authority!CanIssue,
         Authority!WitnessExact
<1> QED BY <1>1, AuthorityPart, AuthorityInvariant, PTL

(* One update between capture and commit always keeps a proof from being   *)
(* made: CepfMatch compares an epoch that one update cannot bring round.   *)
THEOREM AuthorityUpdateIsCaught == Software => OneUpdateIsCaught
<1>1. AuthorityOK /\ [Authority!Next]_(Authority!vars)
        => [~au_proof.valid /\ au_proof'.valid => since_capture # 1]_(Authority!vars)
  <2> SUFFICES ASSUME AuthorityOK, Authority!Next, ~au_proof.valid, au_proof'.valid
               PROVE  since_capture # 1
    OBVIOUS
  <2>1. CASE Authority!CommitPointerUse
    BY <2>1 DEF Authority!CommitPointerUse, Authority!CepfMatch, AuthorityOK,
                AuthorityTyped, BitsTell, Authority!Bit
  <2>2. CASE Authority!SourceUpdate
    BY <2>2 DEF Authority!SourceUpdate, Authority!ProofAfterUpdate, AuthorityOK,
                AuthorityTyped
  <2>3. CASE au_proof' = au_proof
    BY <2>3
  <2> QED
    BY <2>1, <2>2, <2>3
       DEF Authority!Next, Authority!DemandLoad, Authority!CaptureTag,
           Authority!Squash, Authority!ContextSwitch, Authority!TargetMoves,
           Authority!RecordWitness, Authority!Remap, Authority!EvictWitness,
           Authority!IssuePrefetch
<1> QED BY <1>1, AuthorityPart, AuthorityInvariant, PTL
        DEF Authority!Spec, OneUpdateIsCaught, Authority!OneUpdateIsCaught

-----------------------------------------------------------------------------
(* The LSQ contract.  A source that was revoked since its capture has a    *)
(* tag marked stale.                                                       *)
TrackerOK ==
    /\ oo_tag \in [live : BOOLEAN, stale : BOOLEAN, epoch : Ooo!Bit, value : Ooo!Bit]
    /\ oo_epoch \in Ooo!Bit /\ current_value \in Ooo!Bit
    /\ revoked \in BOOLEAN /\ (revoked => oo_tag.stale)

(* TrackerOK holds of the contract after every step.                       *)
LEMMA TrackerInvariant == Ooo!Spec => []TrackerOK
<1>1. Ooo!Init => TrackerOK
  <2> SUFFICES ASSUME Ooo!Init PROVE TrackerOK
    OBVIOUS
  <2>1. oo_tag \in [live : BOOLEAN, stale : BOOLEAN, epoch : Ooo!Bit, value : Ooo!Bit]
    BY DEF Ooo!Init, Ooo!Bit
  <2> QED BY <2>1 DEF Ooo!Init, TrackerOK, Ooo!Bit
<1>2. TrackerOK /\ [Ooo!Next]_(Ooo!vars) => TrackerOK'
  <2> SUFFICES ASSUME TrackerOK, [Ooo!Next]_(Ooo!vars) PROVE TrackerOK'
    OBVIOUS
  <2> USE DEF TrackerOK, Ooo!Bit, Ooo!source, Ooo!memory, Ooo!faults
  <2>1. CASE Ooo!ExecuteSourceLoad
    BY <2>1 DEF Ooo!ExecuteSourceLoad
  <2>2. CASE Ooo!RetireSourceLoad
    BY <2>2 DEF Ooo!RetireSourceLoad
  <2>3. CASE Ooo!ExecuteDependent
    BY <2>3 DEF Ooo!ExecuteDependent
  <2>4. CASE Ooo!RetireDependent
    BY <2>4 DEF Ooo!RetireDependent
  <2>5. CASE Ooo!BackendFlush
    BY <2>5 DEF Ooo!BackendFlush
  <2>6. CASE Ooo!SourceRevoke
    <3>1. oo_epoch' \in Ooo!Bit /\ current_value' \in Ooo!Bit
      BY <2>6 DEF Ooo!SourceRevoke, Ooo!Changed
    <3>2. oo_tag' = [oo_tag EXCEPT !.stale = TRUE] /\ revoked' = TRUE
      BY <2>6 DEF Ooo!SourceRevoke
    <3>3. /\ oo_tag' \in [live : BOOLEAN, stale : BOOLEAN, epoch : Ooo!Bit,
                          value : Ooo!Bit]
          /\ oo_tag'.stale
      BY <3>2
    <3> QED BY <3>1, <3>2, <3>3
  <2>7. CASE Ooo!SilentChange
    BY <2>7 DEF Ooo!SilentChange, Ooo!Changed
  <2>8. CASE Ooo!TargetFault
    BY <2>8 DEF Ooo!TargetFault
  <2>9. CASE UNCHANGED Ooo!vars
    BY <2>9 DEF Ooo!vars
  <2> QED BY <2>1, <2>2, <2>3, <2>4, <2>5, <2>6, <2>7, <2>8, <2>9 DEF Ooo!Next
<1> QED BY <1>1, <1>2, PTL DEF Ooo!Spec

(* A proof is made when both operations have retired, and of a word that   *)
(* neither a revocation nor a flush has touched since its capture: the     *)
(* claim of copper_ooo_lsq_proof_contract.py.                              *)
THEOREM TrackerProofIsUntouched == Software => ProofIsUntouched
<1> DEFINE Untouched ==
        /\ src_retired /\ dep_retired'
        /\ ~revoked /\ ~flushed_since_capture
        /\ oo_tag.live
        /\ oo_tag.epoch = oo_epoch /\ oo_tag.value = current_value
        /\ oo_target /\ oo_perm
<1>1. TrackerOK /\ [Ooo!Next]_(Ooo!vars)
        => [~oo_proof /\ oo_proof' => Untouched]_(Ooo!vars)
  <2> SUFFICES ASSUME TrackerOK, Ooo!Next, ~oo_proof, oo_proof' PROVE Untouched
    OBVIOUS
  <2>1. CASE Ooo!RetireDependent
    BY <2>1 DEF Ooo!RetireDependent, Ooo!AllowsProof, TrackerOK
  <2>2. CASE oo_proof' = oo_proof
    BY <2>2
  <2> QED
    BY <2>1, <2>2
       DEF Ooo!Next, Ooo!ExecuteSourceLoad, Ooo!RetireSourceLoad,
           Ooo!ExecuteDependent, Ooo!BackendFlush, Ooo!SourceRevoke,
           Ooo!SilentChange, Ooo!TargetFault
<1> QED BY <1>1, TrackerPart, TrackerInvariant, PTL
        DEF Ooo!Spec, ProofIsUntouched, Ooo!ProofIsUntouched

-----------------------------------------------------------------------------
(* ROPL.  After one event of a kind its bit differs from the one captured. *)
ReplayTyped ==
    /\ ro_src \in Ropl!Load /\ ro_dep \in Ropl!Load
    /\ ro_tag \in [live : BOOLEAN, captured : [Ropl!Kind -> Ropl!Bit]]
    /\ generation \in [Ropl!Kind -> Ropl!Bit]
    /\ happened \in [Ropl!Kind -> 0 .. Ropl!MaxHappened]

ReplayOK ==
    /\ ReplayTyped
    /\ \A k \in Ropl!Kind : happened[k] = 1 => ro_tag.captured[k] # generation[k]
    /\ \A k \in Ropl!Kind : happened[k] = 0 => ro_tag.captured[k] = generation[k]

(* A generation that advances once differs from the captured one, and one  *)
(* that has not advanced does not.                                         *)
LEMMA AdvanceStep ==
    ASSUME ReplayOK, NEW k \in Ropl!Kind, Ropl!Advance(k), ro_tag' = ro_tag
    PROVE  /\ generation' \in [Ropl!Kind -> Ropl!Bit]
           /\ happened' \in [Ropl!Kind -> 0 .. Ropl!MaxHappened]
           /\ \A j \in Ropl!Kind :
                  /\ happened'[j] = 1 => ro_tag'.captured[j] # generation'[j]
                  /\ happened'[j] = 0 => ro_tag'.captured[j] = generation'[j]
<1> USE DEF Ropl!Bit, Ropl!MaxHappened
<1>1. /\ generation \in [Ropl!Kind -> Ropl!Bit]
      /\ happened \in [Ropl!Kind -> 0 .. Ropl!MaxHappened]
      /\ \A j \in Ropl!Kind : ro_tag.captured[j] \in Ropl!Bit
  BY DEF ReplayOK, ReplayTyped
<1>2. /\ generation' = [generation EXCEPT ![k] = 1 - @]
      /\ happened' = [happened EXCEPT ![k] = IF @ < 2 THEN @ + 1 ELSE @]
  BY DEF Ropl!Advance
<1>3. generation[k] \in 0 .. 1 /\ happened[k] \in 0 .. 2
  BY <1>1
<1>4. /\ generation' \in [Ropl!Kind -> Ropl!Bit]
      /\ happened' \in [Ropl!Kind -> 0 .. Ropl!MaxHappened]
  BY <1>1, <1>2, <1>3
<1>5. ASSUME NEW j \in Ropl!Kind
      PROVE  /\ happened'[j] = 1 => ro_tag'.captured[j] # generation'[j]
             /\ happened'[j] = 0 => ro_tag'.captured[j] = generation'[j]
  <2>1. CASE j = k
    BY <1>1, <1>2, <1>3, <2>1 DEF ReplayOK
  <2>2. CASE j # k
    BY <1>1, <1>2, <2>2 DEF ReplayOK
  <2> QED BY <2>1, <2>2
<1> QED BY <1>4, <1>5

(* ReplayOK holds of the contract after every step.                        *)
LEMMA ReplayInvariant == Ropl!Spec => []ReplayOK
<1>1. Ropl!Init => ReplayOK
  <2> SUFFICES ASSUME Ropl!Init PROVE ReplayOK
    OBVIOUS
  <2>1. ReplayTyped
    BY DEF Ropl!Init, Ropl!Idle, ReplayTyped, Ropl!Load, Ropl!Bit, Ropl!MaxHappened
  <2>2. \A k \in Ropl!Kind : happened[k] = 0 /\ ro_tag.captured[k] = generation[k]
    BY DEF Ropl!Init
  <2> QED BY <2>1, <2>2 DEF ReplayOK
<1>2. ReplayOK /\ [Ropl!Next]_(Ropl!vars) => ReplayOK'
  <2> SUFFICES ASSUME ReplayOK, [Ropl!Next]_(Ropl!vars) PROVE ReplayOK'
    OBVIOUS
  <2> USE DEF Ropl!Load
  <2>1. CASE Ropl!ExecuteSource
    <3>1. /\ generation \in [Ropl!Kind -> Ropl!Bit]
          /\ generation' = generation
          /\ ro_tag' = [live |-> TRUE, captured |-> generation]
          /\ happened' = [k \in Ropl!Kind |-> 0]
      BY <2>1 DEF Ropl!ExecuteSource, ReplayOK, ReplayTyped
    <3>2. \A k \in Ropl!Kind : happened'[k] = 0 /\ ro_tag'.captured[k] = generation'[k]
      BY <3>1
    <3>3. ReplayTyped'
      <4>1. ro_tag' \in [live : BOOLEAN, captured : [Ropl!Kind -> Ropl!Bit]]
        BY <3>1
      <4>2. happened' \in [Ropl!Kind -> 0 .. Ropl!MaxHappened]
        BY <3>1 DEF Ropl!MaxHappened
      <4>3. ro_src' \in Ropl!Load /\ ro_dep' \in Ropl!Load
        BY <2>1 DEF Ropl!ExecuteSource, ReplayOK, ReplayTyped
      <4> QED BY <3>1, <4>1, <4>2, <4>3 DEF ReplayTyped
    <3> QED BY <3>2, <3>3 DEF ReplayOK
  <2>2. CASE Ropl!FinishSource
    BY <2>2 DEF Ropl!FinishSource, ReplayOK, ReplayTyped
  <2>3. CASE Ropl!ExecuteDependent
    BY <2>3 DEF Ropl!ExecuteDependent, ReplayOK, ReplayTyped
  <2>4. CASE Ropl!RetireDependent
    BY <2>4 DEF Ropl!RetireDependent, ReplayOK, ReplayTyped
  <2>5. CASE Ropl!DependentException
    BY <2>5 DEF Ropl!DependentException, ReplayOK, ReplayTyped
  <2>6. CASE Ropl!DependentReplay
    <3>1. "replay" \in Ropl!Kind
      BY DEF Ropl!Kind
    <3> QED BY <2>6, <3>1, AdvanceStep DEF Ropl!DependentReplay, ReplayOK, ReplayTyped
  <2>7. CASE Ropl!SquashOrAlias
    <3>1. PICK k \in Ropl!Kind : Ropl!Advance(k)
      BY <2>7 DEF Ropl!SquashOrAlias, Ropl!Kind
    <3> QED BY <2>7, <3>1, AdvanceStep DEF Ropl!SquashOrAlias, ReplayOK, ReplayTyped
  <2>8. CASE Ropl!MemoryOrderViolation
    BY <2>8 DEF Ropl!MemoryOrderViolation, ReplayOK, ReplayTyped
  <2>9. CASE Ropl!TargetFault
    BY <2>9 DEF Ropl!TargetFault, ReplayOK, ReplayTyped
  <2>10. CASE UNCHANGED Ropl!vars
    BY <2>10 DEF Ropl!vars, ReplayOK, ReplayTyped
  <2> QED BY <2>1, <2>2, <2>3, <2>4, <2>5, <2>6, <2>7, <2>8, <2>9, <2>10
          DEF Ropl!Next
<1> QED BY <1>1, <1>2, PTL DEF Ropl!Spec

(* One replay, squash or alias kill since capture keeps a proof from being *)
(* made, and so does an exception of either operation: the claim of        *)
(* copper_ooo_replay_exception_alias_contract.py.                          *)
THEOREM ReplayIsCaught == Software => OneReplayIsCaught
<1> DEFINE Caught == /\ \A k \in Ropl!Kind : happened[k] # 1
                     /\ ro_src.retired /\ ~ro_src.exception
                     /\ ro_dep'.retired /\ ~ro_dep'.exception
<1>1. ReplayOK /\ [Ropl!Next]_(Ropl!vars)
        => [~ro_proof /\ ro_proof' => Caught]_(Ropl!vars)
  <2> SUFFICES ASSUME ReplayOK, Ropl!Next, ~ro_proof, ro_proof' PROVE Caught
    OBVIOUS
  <2>1. CASE Ropl!RetireDependent
    BY <2>1 DEF Ropl!RetireDependent, Ropl!AllowsProof, Ropl!Current, ReplayOK,
                ReplayTyped, Ropl!Load
  <2>2. CASE ro_proof' = ro_proof
    BY <2>2
  <2> QED
    BY <2>1, <2>2
       DEF Ropl!Next, Ropl!ExecuteSource, Ropl!FinishSource,
           Ropl!ExecuteDependent, Ropl!DependentException,
           Ropl!DependentReplay, Ropl!SquashOrAlias,
           Ropl!MemoryOrderViolation, Ropl!TargetFault
<1> QED BY <1>1, ReplayPart, ReplayInvariant, PTL
        DEF Ropl!Spec, OneReplayIsCaught, Ropl!OneIsCaught

-----------------------------------------------------------------------------
(* The exchange.  Five facts, each of one relation between the processes:  *)
(* what the pc of the parent says of the child and of the counters,        *)
ParentPC == {"listen", "pipe", "fork", "connect", "hello", "handshake", "write",
             "read", "result", "wait", "kill", "reap", "failed", "completed",
             "lost"}
ChildPC == {"none", "ended", "reaped"} \cup Process!Running

ParentTyped ==
    /\ parent = [pc |-> parent.pc, fds |-> parent.fds, polls |-> parent.polls,
                 records |-> parent.records]
    /\ parent.pc \in ParentPC /\ parent.records \in Nat
ChildTyped ==
    /\ child = [pc |-> child.pc, fds |-> child.fds, polls |-> child.polls,
                records |-> child.records, status |-> child.status]
    /\ child.pc \in ChildPC /\ child.records \in Nat
    /\ child.status \in {"none", "0", "1", "signal"}
WireTyped == c2s \in Seq(Nat) /\ s2c \in Seq(Nat)
CounterTyped == tcp_pairs \in Nat /\ child_failures \in Nat
ProcessTyped == ParentTyped /\ ChildTyped /\ WireTyped /\ CounterTyped

ChildOfParent ==
    /\ parent.pc \in {"listen", "pipe", "fork"} => child.pc = "none"
    /\ parent.pc = "listen" => parent.fds = {}
    /\ parent.pc \in {"connect", "hello", "handshake", "write", "read",
                      "result", "wait", "kill"}
           => child.pc \notin {"none", "reaped"}
    /\ parent.pc = "reap" => child.pc = "ended"
    /\ parent.pc = "wait" => child.pc \in {"exit", "ended"}
    /\ parent.pc \in Process!Returned => parent.fds = {}
    /\ parent.pc = "failed" => child.pc \in {"none", "reaped"}
    /\ parent.pc = "completed" => child.pc = "reaped"
    /\ parent.pc = "lost" => child.pc \in {"exit", "ended", "reaped"}
    /\ pipe # << >> => child.pc \in {"exit", "ended", "reaped"}
    /\ child.pc \in {"exit", "ended", "reaped"} => child.fds = {}

CountedOnce ==
    /\ parent.pc # "completed" => tcp_pairs = 0
    /\ parent.pc = "lost" => child_failures <= 1
    /\ parent.pc # "lost" =>
          tcp_pairs + child_failures =
              IF parent.pc \in {"reap", "completed"}
                 \/ (parent.pc = "failed" /\ child.pc # "none") THEN 1 ELSE 0

(* ... what its records and the status of the child mean,                  *)
RecordsAgree ==
    /\ parent.pc \in {"result", "wait", "completed"} => parent.records = RECORDS
    /\ parent.pc \in {"listen", "pipe", "fork", "connect", "hello", "handshake"}
           => parent.records = 0
    /\ child.pc \in {"none", "accept", "handshake"} => child.records = 0
    /\ child.pc \in {"read", "echo"} => child.records < RECORDS
    /\ child.status = "0" => child.records = RECORDS
    /\ child.status = "0" => child.pc \in {"ended", "reaped"}
    /\ parent.pc = "completed" => child.status = "0"

(* ... and how many messages lie between them: as long as the parent has   *)
(* not given up, what is on its way is at most what one side has sent and  *)
(* the other has not taken.                                                *)
GoodPC == {"listen", "pipe", "fork", "connect", "hello", "handshake", "write",
           "read", "result", "wait", "completed"}

ParentSent == CASE parent.pc = "handshake" -> 1
                [] parent.pc \in {"write", "result", "wait", "completed"} ->
                       parent.records + 1
                [] parent.pc = "read" -> parent.records + 2
                [] OTHER -> 0
ParentTook == IF parent.pc \in {"write", "read", "result", "wait", "completed"}
              THEN parent.records + 1 ELSE 0
ChildSent == IF child.pc \in {"none", "accept", "handshake"} THEN 0
             ELSE child.records + 1
ChildTook == CASE child.pc = "echo" -> child.records + 2
               [] child.pc # "echo"
                    /\ (child.pc = "read" \/ child.records = RECORDS) ->
                       child.records + 1
               [] OTHER -> 0

OnTheWay == parent.pc \in GoodPC => /\ Len(c2s) + ChildTook <= ParentSent
                                    /\ Len(s2c) + ParentTook <= ChildSent

ProcessOK == /\ ProcessTyped /\ ChildOfParent /\ CountedOnce
             /\ RecordsAgree /\ OnTheWay

(* All five hold of the initial state.                                    *)
LEMMA ProcessInit == Process!Init => ProcessOK
<1> SUFFICES ASSUME Process!Init PROVE ProcessOK
  OBVIOUS
<1> USE DEF Process!Init
<1>1. ProcessTyped
  BY DEF ProcessTyped, ParentTyped, ChildTyped, WireTyped, CounterTyped, ParentPC,
         ChildPC
<1>2. ChildOfParent /\ CountedOnce /\ RecordsAgree
  BY DEF ChildOfParent, CountedOnce, RecordsAgree, Process!Returned
<1>3. Len(<< >>) = 0
  OBVIOUS
<1>4. OnTheWay
  BY <1>3, RecordsAssumption DEF OnTheWay, ParentSent, ParentTook, ChildSent, ChildTook
<1> QED BY <1>1, <1>2, <1>4 DEF ProcessOK

(* What a write and a read do to the length of a direction.                *)
LEMMA Wire ==
    ASSUME NEW q \in Seq(Nat)
    PROVE  /\ Len(q) \in Nat
           /\ \A n \in Nat : /\ Append(q, n) \in Seq(Nat)
                            /\ Len(Append(q, n)) = Len(q) + 1
           /\ q # << >> => /\ Tail(q) \in Seq(Nat)
                          /\ Len(Tail(q)) = Len(q) - 1 /\ Len(q) >= 1
  OBVIOUS

(* Types, of the parent,                                                   *)
LEMMA ParentTypedStep ==
    ASSUME ParentTyped, [Process!Next]_(Process!vars)
    PROVE  ParentTyped'
<1> USE DEF ParentTyped, ParentPC, Process!ParentAt, Process!ChildAt, Process!Goto,
           Process!net, Process!counters
<1>1. CASE Process!Listen
  BY <1>1 DEF Process!Listen
<1>2. CASE Process!Pipe
  BY <1>2 DEF Process!Pipe
<1>3. CASE Process!Fork
  BY <1>3 DEF Process!Fork, Process!KeptByParent
<1>4. CASE Process!Connect
  BY <1>4 DEF Process!Connect
<1>5. CASE Process!Hello
  BY <1>5 DEF Process!Hello
<1>6. CASE Process!WriteRecord
  BY <1>6 DEF Process!WriteRecord
<1>7. CASE Process!ParentReceives
  <2>1. CASE parent' = Process!Goto(parent, "write")
    BY <2>1
  <2>2. CASE parent' = [Process!Goto(parent, Process!AfterRecord(parent.records + 1))
                            EXCEPT !.records = @ + 1]
    <3>1. Process!AfterRecord(parent.records + 1) \in {"result", "write"}
      BY DEF Process!AfterRecord
    <3>2. \A pc : Process!Goto(parent, pc).records = parent.records
      OBVIOUS
    <3>3. parent' = [Process!Goto(parent, Process!AfterRecord(parent.records + 1))
                        EXCEPT !.records = parent.records + 1]
      BY <2>2, <3>2
    <3>4. /\ parent'.pc \in {"result", "write"}
          /\ parent'.records = parent.records + 1
      BY <3>1, <3>3
    <3>5. parent' = [pc |-> parent'.pc, fds |-> parent'.fds,
                     polls |-> parent'.polls, records |-> parent'.records]
      BY <3>3
    <3> QED BY <3>4, <3>5
  <2> QED BY <1>7, <2>1, <2>2 DEF Process!ParentReceives
<1>8. CASE Process!ParentPolls
  BY <1>8 DEF Process!ParentPolls
<1>9. CASE Process!ParentCallFails
  BY <1>9 DEF Process!ParentCallFails
<1>10. CASE Process!ReadResult
  BY <1>10 DEF Process!ReadResult
<1>11. CASE Process!Wait
  BY <1>11 DEF Process!Wait
<1>12. CASE Process!Kill
  BY <1>12 DEF Process!Kill
<1>13. CASE Process!Reap
  BY <1>13 DEF Process!Reap, Process!Reaped
<1>14. CASE Process!Accept
  BY <1>14 DEF Process!Accept
<1>15. CASE Process!AnswerHello
  BY <1>15 DEF Process!AnswerHello
<1>16. CASE Process!ReadRecord
  BY <1>16 DEF Process!ReadRecord
<1>17. CASE Process!Echo
  BY <1>17 DEF Process!Echo
<1>18. CASE Process!ChildPolls
  BY <1>18 DEF Process!ChildPolls
<1>19. CASE Process!ChildCallFails
  BY <1>19 DEF Process!ChildCallFails
<1>20. CASE Process!CloseServer
  BY <1>20 DEF Process!CloseServer
<1>21. CASE Process!Report
  BY <1>21 DEF Process!Report
<1>22. CASE Process!Exit
  BY <1>22 DEF Process!Exit
<1>23. CASE Process!ChildDies
  BY <1>23 DEF Process!ChildDies
<1>24. CASE Process!WaitFails
  BY <1>24 DEF Process!WaitFails, Process!Reaped
<1>25. CASE Process!ReadFails
  BY <1>25 DEF Process!ReadFails
<1>26. CASE UNCHANGED Process!vars
  BY <1>26 DEF Process!vars
<1> QED BY <1>1, <1>2, <1>3, <1>4, <1>5, <1>6, <1>7, <1>8, <1>9, <1>10, <1>11, <1>12,
           <1>13, <1>14, <1>15, <1>16, <1>17, <1>18, <1>19, <1>20, <1>21, <1>22, <1>23, <1>24,
           <1>25, <1>26
        DEF Process!Next, Process!Parent, Process!Child, Process!Misfortune

(* ... of the child,                                                       *)
LEMMA ChildTypedStep ==
    ASSUME ChildTyped, [Process!Next]_(Process!vars)
    PROVE  ChildTyped'
<1> USE DEF ChildTyped, ChildPC, Process!Running,
           Process!ParentAt, Process!ChildAt, Process!Goto,
           Process!net, Process!counters
<1>1. CASE Process!Listen
  BY <1>1 DEF Process!Listen
<1>2. CASE Process!Pipe
  BY <1>2 DEF Process!Pipe
<1>3. CASE Process!Fork
  BY <1>3 DEF Process!Fork, Process!KeptByParent
<1>4. CASE Process!Connect
  BY <1>4 DEF Process!Connect
<1>5. CASE Process!Hello
  BY <1>5 DEF Process!Hello
<1>6. CASE Process!WriteRecord
  BY <1>6 DEF Process!WriteRecord
<1>7. CASE Process!ParentReceives
  BY <1>7 DEF Process!ParentReceives, Process!AfterRecord
<1>8. CASE Process!ParentPolls
  BY <1>8 DEF Process!ParentPolls
<1>9. CASE Process!ParentCallFails
  BY <1>9 DEF Process!ParentCallFails
<1>10. CASE Process!ReadResult
  BY <1>10 DEF Process!ReadResult
<1>11. CASE Process!Wait
  BY <1>11 DEF Process!Wait
<1>12. CASE Process!Kill
  BY <1>12 DEF Process!Kill
<1>13. CASE Process!Reap
  BY <1>13 DEF Process!Reap, Process!Reaped
<1>14. CASE Process!Accept
  BY <1>14 DEF Process!Accept
<1>15. CASE Process!AnswerHello
  BY <1>15 DEF Process!AnswerHello
<1>16. CASE Process!ReadRecord
  BY <1>16 DEF Process!ReadRecord
<1>17. CASE Process!Echo
  <2>1. PICK next \in {"close", "read"} :
          child' = [Process!Goto(child, next) EXCEPT !.records = @ + 1]
    BY <1>17 DEF Process!Echo
  <2>2. Process!Goto(child, next).records = child.records
    OBVIOUS
  <2>3. child' = [Process!Goto(child, next) EXCEPT !.records = child.records + 1]
    BY <2>1, <2>2
  <2>4. /\ child'.pc = next /\ child'.records = child.records + 1
        /\ child'.status = child.status
    BY <2>3
  <2>5. child' = [pc |-> child'.pc, fds |-> child'.fds, polls |-> child'.polls,
                  records |-> child'.records, status |-> child'.status]
    BY <2>3
  <2> QED BY <2>4, <2>5
<1>18. CASE Process!ChildPolls
  BY <1>18 DEF Process!ChildPolls
<1>19. CASE Process!ChildCallFails
  BY <1>19 DEF Process!ChildCallFails
<1>20. CASE Process!CloseServer
  BY <1>20 DEF Process!CloseServer
<1>21. CASE Process!Report
  BY <1>21 DEF Process!Report
<1>22. CASE Process!Exit
  BY <1>22 DEF Process!Exit
<1>23. CASE Process!ChildDies
  BY <1>23 DEF Process!ChildDies
<1>24. CASE Process!WaitFails
  BY <1>24 DEF Process!WaitFails, Process!Reaped
<1>25. CASE Process!ReadFails
  BY <1>25 DEF Process!ReadFails
<1>26. CASE UNCHANGED Process!vars
  BY <1>26 DEF Process!vars
<1> QED BY <1>1, <1>2, <1>3, <1>4, <1>5, <1>6, <1>7, <1>8, <1>9, <1>10, <1>11, <1>12,
           <1>13, <1>14, <1>15, <1>16, <1>17, <1>18, <1>19, <1>20, <1>21, <1>22, <1>23, <1>24,
           <1>25, <1>26
        DEF Process!Next, Process!Parent, Process!Child, Process!Misfortune

(* ... and of what lies between them.                                      *)
LEMMA WireTypedStep ==
    ASSUME ProcessTyped, [Process!Next]_(Process!vars)
    PROVE  (WireTyped /\ CounterTyped)'
<1> USE Wire DEF ProcessTyped, ParentTyped, ChildTyped, WireTyped,
           CounterTyped, Process!ParentAt, Process!ChildAt, Process!Goto,
           Process!net, Process!counters
<1>1. CASE Process!Listen
  BY <1>1 DEF Process!Listen
<1>2. CASE Process!Pipe
  BY <1>2 DEF Process!Pipe
<1>3. CASE Process!Fork
  BY <1>3 DEF Process!Fork, Process!KeptByParent
<1>4. CASE Process!Connect
  BY <1>4 DEF Process!Connect
<1>5. CASE Process!Hello
  BY <1>5 DEF Process!Hello
<1>6. CASE Process!WriteRecord
  BY <1>6 DEF Process!WriteRecord
<1>7. CASE Process!ParentReceives
  BY <1>7 DEF Process!ParentReceives, Process!AfterRecord
<1>8. CASE Process!ParentPolls
  BY <1>8 DEF Process!ParentPolls
<1>9. CASE Process!ParentCallFails
  BY <1>9 DEF Process!ParentCallFails
<1>10. CASE Process!ReadResult
  BY <1>10 DEF Process!ReadResult
<1>11. CASE Process!Wait
  BY <1>11 DEF Process!Wait
<1>12. CASE Process!Kill
  BY <1>12 DEF Process!Kill
<1>13. CASE Process!Reap
  BY <1>13 DEF Process!Reap, Process!Reaped
<1>14. CASE Process!Accept
  BY <1>14 DEF Process!Accept
<1>15. CASE Process!AnswerHello
  BY <1>15 DEF Process!AnswerHello
<1>16. CASE Process!ReadRecord
  BY <1>16 DEF Process!ReadRecord
<1>17. CASE Process!Echo
  BY <1>17 DEF Process!Echo
<1>18. CASE Process!ChildPolls
  BY <1>18 DEF Process!ChildPolls
<1>19. CASE Process!ChildCallFails
  BY <1>19 DEF Process!ChildCallFails
<1>20. CASE Process!CloseServer
  BY <1>20 DEF Process!CloseServer
<1>21. CASE Process!Report
  BY <1>21 DEF Process!Report
<1>22. CASE Process!Exit
  BY <1>22 DEF Process!Exit
<1>23. CASE Process!ChildDies
  BY <1>23 DEF Process!ChildDies
<1>24. CASE Process!WaitFails
  BY <1>24 DEF Process!WaitFails, Process!Reaped
<1>25. CASE Process!ReadFails
  BY <1>25 DEF Process!ReadFails
<1>26. CASE UNCHANGED Process!vars
  BY <1>26 DEF Process!vars
<1> QED BY <1>1, <1>2, <1>3, <1>4, <1>5, <1>6, <1>7, <1>8, <1>9, <1>10, <1>11, <1>12,
           <1>13, <1>14, <1>15, <1>16, <1>17, <1>18, <1>19, <1>20, <1>21, <1>22, <1>23, <1>24,
           <1>25, <1>26
        DEF Process!Next, Process!Parent, Process!Child, Process!Misfortune

(* There is a child as long as the pc of the parent says so.               *)
LEMMA ChildOfParentStep ==
    ASSUME ProcessTyped, ChildOfParent, [Process!Next]_(Process!vars)
    PROVE  ChildOfParent'
<1> USE DEF ProcessTyped, ChildOfParent, ParentTyped, ChildTyped, ParentPC, ChildPC, Process!Running,
           Process!Returned, Process!ParentAt, Process!ChildAt, Process!Goto,
           Process!net, Process!counters
<1>1. CASE Process!Listen
  BY <1>1 DEF Process!Listen
<1>2. CASE Process!Pipe
  BY <1>2 DEF Process!Pipe
<1>3. CASE Process!Fork
  BY <1>3 DEF Process!Fork, Process!KeptByParent
<1>4. CASE Process!Connect
  BY <1>4 DEF Process!Connect
<1>5. CASE Process!Hello
  BY <1>5 DEF Process!Hello
<1>6. CASE Process!WriteRecord
  BY <1>6 DEF Process!WriteRecord
<1>7. CASE Process!ParentReceives
  BY <1>7 DEF Process!ParentReceives, Process!AfterRecord
<1>8. CASE Process!ParentPolls
  BY <1>8 DEF Process!ParentPolls
<1>9. CASE Process!ParentCallFails
  BY <1>9 DEF Process!ParentCallFails
<1>10. CASE Process!ReadResult
  BY <1>10 DEF Process!ReadResult
<1>11. CASE Process!Wait
  BY <1>11 DEF Process!Wait
<1>12. CASE Process!Kill
  BY <1>12 DEF Process!Kill
<1>13. CASE Process!Reap
  BY <1>13 DEF Process!Reap, Process!Reaped
<1>14. CASE Process!Accept
  BY <1>14 DEF Process!Accept
<1>15. CASE Process!AnswerHello
  BY <1>15 DEF Process!AnswerHello
<1>16. CASE Process!ReadRecord
  BY <1>16 DEF Process!ReadRecord
<1>17. CASE Process!Echo
  BY <1>17 DEF Process!Echo
<1>18. CASE Process!ChildPolls
  BY <1>18 DEF Process!ChildPolls
<1>19. CASE Process!ChildCallFails
  BY <1>19 DEF Process!ChildCallFails
<1>20. CASE Process!CloseServer
  BY <1>20 DEF Process!CloseServer
<1>21. CASE Process!Report
  BY <1>21 DEF Process!Report
<1>22. CASE Process!Exit
  BY <1>22 DEF Process!Exit
<1>23. CASE Process!ChildDies
  BY <1>23 DEF Process!ChildDies
<1>24. CASE Process!WaitFails
  BY <1>24 DEF Process!WaitFails, Process!Reaped
<1>25. CASE Process!ReadFails
  BY <1>25 DEF Process!ReadFails
<1>26. CASE UNCHANGED Process!vars
  BY <1>26 DEF Process!vars
<1> QED BY <1>1, <1>2, <1>3, <1>4, <1>5, <1>6, <1>7, <1>8, <1>9, <1>10, <1>11, <1>12,
           <1>13, <1>14, <1>15, <1>16, <1>17, <1>18, <1>19, <1>20, <1>21, <1>22, <1>23, <1>24,
           <1>25, <1>26
        DEF Process!Next, Process!Parent, Process!Child, Process!Misfortune

(* What was forked is counted once.                                        *)
LEMMA CountedOnceStep ==
    ASSUME ProcessTyped, ChildOfParent, CountedOnce, [Process!Next]_(Process!vars)
    PROVE  CountedOnce'
<1> USE DEF ProcessTyped, ChildOfParent, CountedOnce, CounterTyped,
           ParentTyped, ChildTyped, ParentPC, ChildPC, Process!Running,
           Process!Returned, Process!ParentAt, Process!ChildAt, Process!Goto,
           Process!net, Process!counters
<1>1. CASE Process!Listen
  BY <1>1 DEF Process!Listen
<1>2. CASE Process!Pipe
  BY <1>2 DEF Process!Pipe
<1>3. CASE Process!Fork
  BY <1>3 DEF Process!Fork, Process!KeptByParent
<1>4. CASE Process!Connect
  BY <1>4 DEF Process!Connect
<1>5. CASE Process!Hello
  BY <1>5 DEF Process!Hello
<1>6. CASE Process!WriteRecord
  BY <1>6 DEF Process!WriteRecord
<1>7. CASE Process!ParentReceives
  BY <1>7 DEF Process!ParentReceives, Process!AfterRecord
<1>8. CASE Process!ParentPolls
  BY <1>8 DEF Process!ParentPolls
<1>9. CASE Process!ParentCallFails
  BY <1>9 DEF Process!ParentCallFails
<1>10. CASE Process!ReadResult
  BY <1>10 DEF Process!ReadResult
<1>11. CASE Process!Wait
  <2>1. parent.pc = "wait" /\ child.pc = "ended" /\ child'.pc = "reaped"
    BY <1>11 DEF Process!Wait
  <2>2. parent'.pc \in {"completed", "failed"}
    BY <1>11 DEF Process!Wait
  <2>3. tcp_pairs' + child_failures' = tcp_pairs + child_failures + 1
    BY <1>11 DEF Process!Wait
  <2>4. tcp_pairs' = tcp_pairs \/ parent'.pc = "completed"
    BY <1>11 DEF Process!Wait
  <2> QED BY <2>1, <2>2, <2>3, <2>4
<1>12. CASE Process!Kill
  BY <1>12 DEF Process!Kill
<1>13. CASE Process!Reap
  BY <1>13 DEF Process!Reap, Process!Reaped
<1>14. CASE Process!Accept
  BY <1>14 DEF Process!Accept
<1>15. CASE Process!AnswerHello
  BY <1>15 DEF Process!AnswerHello
<1>16. CASE Process!ReadRecord
  BY <1>16 DEF Process!ReadRecord
<1>17. CASE Process!Echo
  BY <1>17 DEF Process!Echo
<1>18. CASE Process!ChildPolls
  BY <1>18 DEF Process!ChildPolls
<1>19. CASE Process!ChildCallFails
  BY <1>19 DEF Process!ChildCallFails
<1>20. CASE Process!CloseServer
  BY <1>20 DEF Process!CloseServer
<1>21. CASE Process!Report
  BY <1>21 DEF Process!Report
<1>22. CASE Process!Exit
  BY <1>22 DEF Process!Exit
<1>23. CASE Process!ChildDies
  BY <1>23 DEF Process!ChildDies
<1>24. CASE Process!WaitFails
  BY <1>24 DEF Process!WaitFails, Process!Reaped
<1>25. CASE Process!ReadFails
  BY <1>25 DEF Process!ReadFails
<1>26. CASE UNCHANGED Process!vars
  BY <1>26 DEF Process!vars
<1> QED BY <1>1, <1>2, <1>3, <1>4, <1>5, <1>6, <1>7, <1>8, <1>9, <1>10, <1>11, <1>12,
           <1>13, <1>14, <1>15, <1>16, <1>17, <1>18, <1>19, <1>20, <1>21, <1>22, <1>23, <1>24,
           <1>25, <1>26
        DEF Process!Next, Process!Parent, Process!Child, Process!Misfortune

(* The records of both.                                                    *)
LEMMA RecordsAgreeStep ==
    ASSUME ProcessTyped, ChildOfParent, RecordsAgree, [Process!Next]_(Process!vars)
    PROVE  RecordsAgree'
<1> USE RecordsAssumption DEF ProcessTyped, ChildOfParent, RecordsAgree,
           ParentTyped, ChildTyped, ParentPC, ChildPC, Process!Running,
           Process!ParentAt, Process!ChildAt, Process!Goto,
           Process!net, Process!counters
<1>1. CASE Process!Listen
  BY <1>1 DEF Process!Listen
<1>2. CASE Process!Pipe
  BY <1>2 DEF Process!Pipe
<1>3. CASE Process!Fork
  BY <1>3 DEF Process!Fork, Process!KeptByParent
<1>4. CASE Process!Connect
  BY <1>4 DEF Process!Connect
<1>5. CASE Process!Hello
  BY <1>5 DEF Process!Hello
<1>6. CASE Process!WriteRecord
  BY <1>6 DEF Process!WriteRecord
<1>7. CASE Process!ParentReceives
  BY <1>7 DEF Process!ParentReceives, Process!AfterRecord
<1>8. CASE Process!ParentPolls
  BY <1>8 DEF Process!ParentPolls
<1>9. CASE Process!ParentCallFails
  BY <1>9 DEF Process!ParentCallFails
<1>10. CASE Process!ReadResult
  BY <1>10 DEF Process!ReadResult
<1>11. CASE Process!Wait
  BY <1>11 DEF Process!Wait, Process!Accepted
<1>12. CASE Process!Kill
  BY <1>12 DEF Process!Kill
<1>13. CASE Process!Reap
  BY <1>13 DEF Process!Reap, Process!Reaped
<1>14. CASE Process!Accept
  BY <1>14 DEF Process!Accept
<1>15. CASE Process!AnswerHello
  BY <1>15 DEF Process!AnswerHello
<1>16. CASE Process!ReadRecord
  BY <1>16 DEF Process!ReadRecord
<1>17. CASE Process!Echo
  BY <1>17 DEF Process!Echo
<1>18. CASE Process!ChildPolls
  BY <1>18 DEF Process!ChildPolls
<1>19. CASE Process!ChildCallFails
  BY <1>19 DEF Process!ChildCallFails
<1>20. CASE Process!CloseServer
  BY <1>20 DEF Process!CloseServer
<1>21. CASE Process!Report
  BY <1>21 DEF Process!Report
<1>22. CASE Process!Exit
  BY <1>22 DEF Process!Exit
<1>23. CASE Process!ChildDies
  BY <1>23 DEF Process!ChildDies
<1>24. CASE Process!WaitFails
  BY <1>24 DEF Process!WaitFails, Process!Reaped
<1>25. CASE Process!ReadFails
  BY <1>25 DEF Process!ReadFails
<1>26. CASE UNCHANGED Process!vars
  BY <1>26 DEF Process!vars
<1> QED BY <1>1, <1>2, <1>3, <1>4, <1>5, <1>6, <1>7, <1>8, <1>9, <1>10, <1>11, <1>12,
           <1>13, <1>14, <1>15, <1>16, <1>17, <1>18, <1>19, <1>20, <1>21, <1>22, <1>23, <1>24,
           <1>25, <1>26
        DEF Process!Next, Process!Parent, Process!Child, Process!Misfortune

(* The messages on their way.                                              *)
LEMMA OnTheWayStep ==
    ASSUME ProcessTyped, ChildOfParent, RecordsAgree, OnTheWay, [Process!Next]_(Process!vars)
    PROVE  OnTheWay'
<1> USE RecordsAssumption, Wire DEF ProcessTyped, RecordsAgree, OnTheWay, GoodPC,
           WireTyped, ParentSent, ParentTook, ChildSent, ChildTook,
           ParentTyped, ChildTyped, ParentPC, ChildPC, Process!Running,
           Process!ParentAt, Process!ChildAt, Process!Goto,
           Process!net, Process!counters
<1>1. CASE Process!Listen
  BY <1>1 DEF Process!Listen
<1>2. CASE Process!Pipe
  BY <1>2 DEF Process!Pipe
<1>3. CASE Process!Fork
  <2>1. /\ parent.pc = "fork" /\ child.pc = "none"
        /\ parent'.pc \in {"connect", "failed"}
        /\ UNCHANGED <<c2s, s2c>>
    BY <1>3 DEF Process!Fork, ChildOfParent
  <2>2. /\ child'.pc \in {"none", "accept"}
        /\ child.records = 0 /\ child'.records = 0
    BY <1>3, <2>1 DEF Process!Fork
  <2> QED BY <2>1, <2>2
<1>4. CASE Process!Connect
  BY <1>4 DEF Process!Connect
<1>5. CASE Process!Hello
  BY <1>5 DEF Process!Hello
<1>6. CASE Process!WriteRecord
  <2>1. /\ parent.pc = "write" /\ parent'.pc = "read"
        /\ parent'.records = parent.records /\ parent.records \in Nat
        /\ UNCHANGED <<child, s2c>>
    BY <1>6 DEF Process!WriteRecord
  <2>2. /\ Len(c2s') = Len(c2s) + 1 /\ Len(c2s) \in Nat /\ Len(s2c) \in Nat
    BY <1>6 DEF Process!WriteRecord
  <2>3. /\ ParentSent' = ParentSent + 1 /\ ParentTook' = ParentTook
        /\ ChildSent' = ChildSent /\ ChildTook' = ChildTook
        /\ ParentSent \in Nat /\ ChildTook \in Nat
    <3>1. ChildSent' = ChildSent /\ ChildTook' = ChildTook
      BY <2>1
    <3>2. ParentSent' = ParentSent + 1 /\ ParentSent \in Nat
      BY <2>1
    <3>3. ParentTook' = ParentTook
      BY <2>1
    <3>4. child.records \in Nat
      OBVIOUS
    <3>5. ChildTook \in Nat
      BY <3>4, SMTT(30)
    <3> QED BY <3>1, <3>2, <3>3, <3>5
  <2>4. /\ Len(c2s) + ChildTook <= ParentSent
        /\ Len(s2c) + ParentTook <= ChildSent
    BY <2>1
  <2>5. /\ Len(c2s') + ChildTook' <= ParentSent'
        /\ Len(s2c') + ParentTook' <= ChildSent'
    <3> HIDE DEF ParentSent, ParentTook, ChildSent, ChildTook
    <3> QED BY <2>1, <2>2, <2>3, <2>4
  <2> QED BY <2>5
<1>7. CASE Process!ParentReceives
  <2>1. /\ Len(s2c') = Len(s2c) - 1 /\ Len(s2c) \in Nat /\ Len(c2s) \in Nat
        /\ UNCHANGED <<c2s, child>>
    BY <1>7 DEF Process!ParentReceives
  <2>2. CASE parent.pc = "handshake" /\ parent' = Process!Goto(parent, "write")
    <3>1. parent'.pc = "write" /\ parent'.records = 0 /\ parent.records = 0
      BY <2>2
    <3> QED BY <2>1, <2>2, <3>1
  <2>3. CASE /\ parent.pc = "read"
             /\ parent' = [Process!Goto(parent, Process!AfterRecord(parent.records + 1))
                               EXCEPT !.records = @ + 1]
    <3>1. Process!AfterRecord(parent.records + 1) \in {"result", "write"}
      BY DEF Process!AfterRecord
    <3>2. /\ parent'.pc \in {"result", "write"}
          /\ parent'.records = parent.records + 1
      BY <2>3, <3>1
    <3> QED BY <2>1, <2>3, <3>2, SMTT(30)
  <2> QED BY <1>7, <2>2, <2>3 DEF Process!ParentReceives
<1>8. CASE Process!ParentPolls
  BY <1>8 DEF Process!ParentPolls
<1>9. CASE Process!ParentCallFails
  BY <1>9 DEF Process!ParentCallFails
<1>10. CASE Process!ReadResult
  BY <1>10 DEF Process!ReadResult
<1>11. CASE Process!Wait
  BY <1>11 DEF Process!Wait
<1>12. CASE Process!Kill
  BY <1>12 DEF Process!Kill
<1>13. CASE Process!Reap
  BY <1>13 DEF Process!Reap, Process!Reaped
<1>14. CASE Process!Accept
  BY <1>14 DEF Process!Accept
<1>15. CASE Process!AnswerHello
  BY <1>15 DEF Process!AnswerHello
<1>16. CASE Process!ReadRecord
  BY <1>16 DEF Process!ReadRecord
<1>17. CASE Process!Echo
  BY <1>17 DEF Process!Echo
<1>18. CASE Process!ChildPolls
  BY <1>18 DEF Process!ChildPolls
<1>19. CASE Process!ChildCallFails
  BY <1>19 DEF Process!ChildCallFails
<1>20. CASE Process!CloseServer
  BY <1>20 DEF Process!CloseServer
<1>21. CASE Process!Report
  BY <1>21 DEF Process!Report
<1>22. CASE Process!Exit
  BY <1>22 DEF Process!Exit
<1>23. CASE Process!ChildDies
  <2>1. /\ child.pc \in Process!Running
        /\ child'.pc = "ended" /\ child'.records = child.records
        /\ UNCHANGED <<parent, c2s, s2c>>
    BY <1>23 DEF Process!ChildDies
  <2>2. Len(c2s) \in Nat /\ Len(s2c) \in Nat
    OBVIOUS
  <2>3. ChildTook' <= ChildTook /\ ChildSent <= ChildSent'
    BY <2>1
  <2> QED BY <2>1, <2>2, <2>3
<1>24. CASE Process!WaitFails
  BY <1>24 DEF Process!WaitFails, Process!Reaped
<1>25. CASE Process!ReadFails
  BY <1>25 DEF Process!ReadFails
<1>26. CASE UNCHANGED Process!vars
  BY <1>26 DEF Process!vars
<1> QED BY <1>1, <1>2, <1>3, <1>4, <1>5, <1>6, <1>7, <1>8, <1>9, <1>10, <1>11, <1>12,
           <1>13, <1>14, <1>15, <1>16, <1>17, <1>18, <1>19, <1>20, <1>21, <1>22, <1>23, <1>24,
           <1>25, <1>26
        DEF Process!Next, Process!Parent, Process!Child, Process!Misfortune

(* All five together.                                                      *)
LEMMA ProcessInvariant == Process!Spec => []ProcessOK
<1>1. ProcessOK /\ [Process!Next]_(Process!vars) => ProcessOK'
  BY ParentTypedStep, ChildTypedStep, WireTypedStep, ChildOfParentStep,
     CountedOnceStep, RecordsAgreeStep, OnTheWayStep DEF ProcessOK, ProcessTyped
<1> QED BY <1>1, ProcessInit, PTL DEF Process!Spec

(* An exchange that reports success had every record echoed and left       *)
(* nothing in the connection: tls_workload, for any number of records and  *)
(* of polls, whatever fails and whenever the child dies.                   *)
THEOREM ExchangeIsComplete == Software => []SuccessIsComplete
<1>1. ProcessOK => SuccessIsComplete
  <2> SUFFICES ASSUME ProcessOK, parent.pc = "completed"
               PROVE  /\ parent.records = RECORDS /\ child.records = RECORDS
                      /\ child.status = "0"
                      /\ c2s = << >> /\ s2c = << >>
    BY DEF SuccessIsComplete, Process!SuccessIsComplete, Process!ParentAt
  <2>1. /\ parent.records = RECORDS /\ child.records = RECORDS
        /\ child.status = "0" /\ child.pc = "reaped"
    BY DEF ProcessOK, RecordsAgree, ChildOfParent
  <2>2. Len(c2s) \in Nat /\ Len(s2c) \in Nat
    BY Wire DEF ProcessOK, ProcessTyped, WireTyped
  <2>3. Len(c2s) = 0 /\ Len(s2c) = 0
    BY <2>1, <2>2, RecordsAssumption
       DEF ProcessOK, OnTheWay, GoodPC, ParentSent, ParentTook, ChildSent, ChildTook
  <2>4. c2s = << >> /\ s2c = << >>
    BY <2>3 DEF ProcessOK, ProcessTyped, WireTyped
  <2> QED BY <2>1, <2>4
<1> QED BY <1>1, ProcessPart, ProcessInvariant, PTL

(* When the exchange has returned no descriptor of the parent is open and  *)
(* what was forked has been waited for and is counted once - unless waitpid*)
(* has failed: then the child has closed everything and only has to exit,  *)
(* and the exchange is not counted as a pair.                              *)
THEOREM ExchangeLeavesNothing == Software => []NothingIsLeft
<1>1. ProcessOK => NothingIsLeft
  <2> SUFFICES ASSUME ProcessOK, parent.pc \in Process!Returned
               PROVE  Process!NothingIsLeft
    BY DEF NothingIsLeft, Process!NothingIsLeft
  <2>1. CASE parent.pc = "lost"
    BY <2>1 DEF ProcessOK, ProcessTyped, ChildOfParent, CountedOnce,
         Process!NothingIsLeft, Process!Returned, Process!ParentAt
  <2>2. CASE parent.pc # "lost"
    BY <2>2 DEF ProcessOK, ProcessTyped, ChildTyped, ChildOfParent, CountedOnce,
         Process!NothingIsLeft, Process!Returned, Process!ParentAt, Process!ChildAt
  <2> QED BY <2>1, <2>2
<1> QED BY <1>1, ProcessPart, ProcessInvariant, PTL

-----------------------------------------------------------------------------
(* Recursive functions.  A set of numbers that has 0 and with every number *)
(* the next has all; the least number outside it is what shows it.         *)
LEMMA LeastNumber ==
    ASSUME NEW S, S \subseteq Nat, S # {}
    PROVE  \E n \in S : \A m \in S : n <= m
<1>1. PICK n \in S : \A m \in S : ~ (<<m, n>> \in OpToRel(<, Nat))
  BY NatLessThanWellFounded, WFMin
<1>2. \A m \in S : <<m, n>> \in Nat \X Nat
  OBVIOUS
<1>3. \A m \in S : ~ (m < n)
  BY <1>1, <1>2 DEF OpToRel
<1> QED BY <1>3

(* A set that has 0 and with every number the next has every number.       *)
LEMMA EveryNumber ==
    ASSUME NEW S, 0 \in S, \A n \in Nat : n \in S => n + 1 \in S
    PROVE  \A n \in Nat : n \in S
<1> DEFINE Rest == Nat \ S
<1>1. SUFFICES ASSUME Rest # {} PROVE FALSE
  OBVIOUS
<1>2. PICK n \in Rest : \A m \in Rest : n <= m
  <2> HIDE DEF Rest
  <2>1. Rest \subseteq Nat
    BY DEF Rest
  <2> QED BY <1>1, <2>1, LeastNumber
<1>3. n - 1 \in Nat
  BY <1>2
<1>4. n - 1 \in S
  BY <1>2, <1>3
<1> QED BY <1>2, <1>3, <1>4

(* What a function that is defined by recursion over 0 .. N has to be: for *)
(* every first value and every step there is one.                          *)
LEMMA RecursionOnInterval ==
    ASSUME NEW X, NEW x0 \in X, NEW N \in Nat, NEW Succ \in [1 .. N -> [X -> X]]
    PROVE  \E f \in [0 .. N -> X] :
              f[0] = x0 /\ \A n \in 1 .. N : f[n] = Succ[n][f[n - 1]]
<1> DEFINE Defines(f, n) ==
               /\ f \in [0 .. n -> X] /\ f[0] = x0
               /\ \A m \in 1 .. n : f[m] = Succ[m][f[m - 1]]
           S == {n \in Nat : n <= N => \E f : Defines(f, n)}
<1>1. 0 \in S
  <2> DEFINE g == [m \in 0 .. 0 |-> x0]
  <2>1. Defines(g, 0)
    OBVIOUS
  <2> QED BY <2>1
<1>2. ASSUME NEW n \in Nat, n \in S PROVE n + 1 \in S
  <2> SUFFICES ASSUME n + 1 <= N PROVE \E f : Defines(f, n + 1)
    OBVIOUS
  <2>1. PICK f : Defines(f, n)
    BY <1>2
  <2> DEFINE g == [m \in 0 .. n + 1 |-> IF m = n + 1 THEN Succ[n + 1][f[n]] ELSE f[m]]
  <2>2. Succ[n + 1][f[n]] \in X
    <3>1. n + 1 \in 1 .. N /\ f[n] \in X
      BY <2>1
    <3> QED BY <3>1
  <2>3. \A m \in 0 .. n : g[m] = f[m]
    OBVIOUS
  <2>4. g[n + 1] = Succ[n + 1][g[n]]
    BY <2>3
  <2>5. g \in [0 .. n + 1 -> X]
    BY <2>1, <2>2
  <2>6. ASSUME NEW m \in 1 .. n + 1 PROVE g[m] = Succ[m][g[m - 1]]
    <3>1. CASE m = n + 1
      BY <2>4, <3>1
    <3>2. CASE m # n + 1
      <4>1. m \in 1 .. n /\ m \in 0 .. n /\ m - 1 \in 0 .. n
        BY <3>2
      <4> QED BY <2>1, <2>3, <4>1
    <3> QED BY <3>1, <3>2
  <2>7. g[0] = x0
    BY <2>1, <2>3
  <2> QED BY <2>5, <2>6, <2>7
<1> HIDE DEF S
<1>3. N \in S
  BY <1>1, <1>2, EveryNumber
<1> QED BY <1>3 DEF S

-----------------------------------------------------------------------------
(* The import.  Rows is every row that a canonical file can have.          *)
Rows == [open : BOOLEAN, status : Import!StatusWord, torn : {"no", "fresh", "stored"}]

IsMerged(rows, set) ==
    /\ rows \in Seq(Rows)
    /\ Import!Elements(rows) = set
    /\ \A i, j \in DOMAIN rows : rows[i] = rows[j] => i = j

(* A row that was not there, at the end: it is there once.                 *)
LEMMA AppendedRow ==
    ASSUME NEW rows, NEW set, IsMerged(rows, set), NEW row \in Rows, row \notin set
    PROVE  IsMerged(Append(rows, row), set \cup {row})
<1> DEFINE q == Append(rows, row)
<1>1. /\ q \in Seq(Rows) /\ DOMAIN q = 1 .. Len(rows) + 1
      /\ DOMAIN rows = 1 .. Len(rows) /\ Len(rows) \in Nat
      /\ \A i \in 1 .. Len(rows) : q[i] = rows[i]
      /\ q[Len(rows) + 1] = row
  BY DEF IsMerged
<1>2. \A i \in 1 .. Len(rows) : rows[i] \in set
  BY <1>1 DEF IsMerged, Import!Elements
<1> HIDE DEF q
<1>3. Import!Elements(q) = set \cup {row}
  <2>1. ASSUME NEW r \in set \cup {row} PROVE \E i \in DOMAIN q : q[i] = r
    <3>1. CASE r = row
      BY <1>1, <3>1
    <3>2. CASE r \in set
      <4>1. PICK i \in DOMAIN rows : rows[i] = r
        BY <3>2 DEF IsMerged, Import!Elements
      <4>2. i \in DOMAIN q /\ q[i] = r
        BY <1>1, <4>1
      <4> QED BY <4>2
    <3> QED BY <3>1, <3>2
  <2>2. ASSUME NEW i \in DOMAIN q PROVE q[i] \in set \cup {row}
    BY <1>1, <1>2
  <2> QED BY <2>1, <2>2 DEF Import!Elements
<1>4. ASSUME NEW i \in DOMAIN q, NEW j \in DOMAIN q, q[i] = q[j] PROVE i = j
  <2>1. (i \in DOMAIN rows /\ j \in DOMAIN rows) => i = j
    BY <1>1, <1>4 DEF IsMerged
  <2> QED BY <1>1, <1>2, <1>4, <2>1
<1>5. q \in Seq(Rows)
  BY <1>1
<1> QED BY <1>3, <1>4, <1>5 DEF IsMerged, q

(* The rows of a file, by induction over them: each once.                  *)
LEMMA DistinctRows ==
    ASSUME NEW rows \in Seq(Rows)
    PROVE  IsMerged(Import!Distinct(rows), Import!Elements(rows))
<1> DEFINE N == Len(rows)
           Recursive(g) ==
               g = [n \in 0 .. Len(rows) |->
                     IF n = 0 THEN << >>
                     ELSE IF rows[n] \in Import!Elements(g[n - 1]) THEN g[n - 1]
                     ELSE Append(g[n - 1], rows[n])]
           new == CHOOSE g : Recursive(g)
<1>1. N \in Nat /\ DOMAIN rows = 1 .. N /\ \A n \in 1 .. N : rows[n] \in Rows
  OBVIOUS
<1>2. \E g : Recursive(g)
  <2> DEFINE Succ == [n \in 1 .. N |-> [q \in Seq(Rows) |->
                         IF rows[n] \in Import!Elements(q) THEN q
                         ELSE Append(q, rows[n])]]
  <2> DEFINE Q == Seq(Rows)
  <2>1. Succ \in [1 .. N -> [Q -> Q]]
    <3>1. \A n \in 1 .. N, q \in Seq(Rows) : Append(q, rows[n]) \in Seq(Rows)
      BY <1>1
    <3> QED BY <3>1
  <2>2. << >> \in Seq(Rows)
    OBVIOUS
  <2>3. \A n \in 1 .. N, q \in Seq(Rows) :
           Succ[n][q] = IF rows[n] \in Import!Elements(q) THEN q
                        ELSE Append(q, rows[n])
    OBVIOUS
  <2> DEFINE none == << >>
  <2> HIDE DEF Succ, none, N, Q
  <2>. N \in Nat /\ none \in Q
    BY <1>1, <2>2 DEF none, Q
  <2>4. PICK f \in [0 .. N -> Q] :
           f[0] = none /\ \A n \in 1 .. N : f[n] = Succ[n][f[n - 1]]
    BY <2>1, RecursionOnInterval
  <2> USE DEF none, N, Q
  <2>5. ASSUME NEW n \in 1 .. N
        PROVE  f[n] = IF rows[n] \in Import!Elements(f[n - 1]) THEN f[n - 1]
                      ELSE Append(f[n - 1], rows[n])
    <3>1. f[n - 1] \in Seq(Rows)
      BY <1>1
    <3> QED BY <2>3, <2>4, <3>1
  <2>6. Recursive(f)
    <3> DEFINE h == [n \in 0 .. Len(rows) |->
                     IF n = 0 THEN << >>
                     ELSE IF rows[n] \in Import!Elements(f[n - 1]) THEN f[n - 1]
                     ELSE Append(f[n - 1], rows[n])]
    <3>1. ASSUME NEW n \in 0 .. N PROVE f[n] = h[n]
      <4>1. n = 0 \/ n \in 1 .. N
        BY <1>1
      <4> QED BY <2>4, <2>5, <4>1
    <3>2. f = h
      BY <3>1
    <3> QED BY <3>2
  <2> QED BY <2>6
<1>3. Recursive(new)
  BY <1>2
<1>4. Import!Distinct(rows) = new[N]
  BY DEF Import!Distinct
<1>5. /\ new[0] = << >>
      /\ \A n \in 1 .. N :
            new[n] = IF rows[n] \in Import!Elements(new[n - 1]) THEN new[n - 1]
                     ELSE Append(new[n - 1], rows[n])
  <2>1. new = [n \in 0 .. N |->
                     IF n = 0 THEN << >>
                     ELSE IF rows[n] \in Import!Elements(new[n - 1]) THEN new[n - 1]
                     ELSE Append(new[n - 1], rows[n])]
    BY <1>3
  <2> HIDE DEF new
  <2>2. 0 \in 0 .. N /\ \A n \in 1 .. N : n \in 0 .. N /\ n # 0
    BY <1>1
  <2> QED BY <2>1, <2>2
<1> HIDE DEF new, Recursive
<1> DEFINE First(n) == {rows[i] : i \in 1 .. n}
           S == {n \in Nat : n <= N => IsMerged(new[n], First(n))}
<1>6. 0 \in S
  <2>1. First(0) = {} /\ Import!Elements(<< >>) = {} /\ << >> \in Seq(Rows)
    BY DEF Import!Elements
  <2>2. IsMerged(<< >>, First(0))
    BY <2>1 DEF IsMerged
  <2> QED BY <1>5, <2>2
<1>7. ASSUME NEW n \in Nat, n \in S PROVE n + 1 \in S
  <2> SUFFICES ASSUME n + 1 <= N PROVE IsMerged(new[n + 1], First(n + 1))
    OBVIOUS
  <2>1. IsMerged(new[n], First(n)) /\ n + 1 \in 1 .. N /\ (n + 1) - 1 = n
    BY <1>1, <1>7
  <2>2. First(n + 1) = First(n) \cup {rows[n + 1]}
    <3>1. \A i : i \in 1 .. n + 1 <=> i \in 1 .. n \/ i = n + 1
      OBVIOUS
    <3> QED BY <3>1
  <2>3. Import!Elements(new[n]) = First(n)
    BY <2>1 DEF IsMerged
  <2>4. rows[n + 1] \in Rows
    BY <1>1, <2>1
  <2> HIDE DEF First
  <2>5. CASE rows[n + 1] \in Import!Elements(new[n])
    <3>1. new[n + 1] = new[n]
      BY <1>5, <2>1, <2>5
    <3>2. First(n + 1) = First(n)
      BY <2>2, <2>3, <2>5
    <3> QED BY <2>1, <3>1, <3>2
  <2>6. CASE rows[n + 1] \notin Import!Elements(new[n])
    <3>1. new[n + 1] = Append(new[n], rows[n + 1])
      BY <1>5, <2>1, <2>6
    <3>2. First(n + 1) = First(n) \cup {rows[n + 1]}
      BY <2>2, <2>6
    <3>3. rows[n + 1] \notin First(n)
      BY <2>3, <2>6
    <3> QED BY <2>1, <2>4, <3>1, <3>2, <3>3, AppendedRow
  <2> QED BY <2>5, <2>6
<1>8. N \in S
  <2> HIDE DEF S
  <2> QED BY <1>1, <1>6, <1>7, EveryNumber
<1>9. First(N) = Import!Elements(rows)
  BY <1>1 DEF Import!Elements
<1>10. IsMerged(new[N], First(N))
  BY <1>1, <1>8
<1> HIDE DEF First
<1> QED BY <1>4, <1>9, <1>10

(* What a file can have of the rows offered: themselves and, once a stop   *)
(* was inside it, what is left of them.                                    *)
Known(set, hurt) ==
    set \cup {row \in Rows : hurt /\ \E whole \in set : row \in Import!Remains(whole)}

HoldsRows(rows, set, hurt) ==
    /\ rows \in Seq(Rows) /\ set \subseteq Import!Row
    /\ \A i, j \in DOMAIN rows :
        rows[i] = rows[j] /\ rows[i].torn = "no" => i = j
    /\ Import!Elements(rows) \subseteq Known(set, hurt)
    /\ ~hurt => Import!Elements(rows) = set

(* Cut again, or stored, what is left of a row is left of that row.        *)
LEMMA RemainsOfRow ==
    ASSUME NEW whole \in Import!Row
    PROVE  /\ whole \in Rows
           /\ Import!Remains(whole) \subseteq Rows
           /\ \A row \in Import!Remains(whole) :
                /\ row.torn # "no"
                /\ [row EXCEPT !.torn = "stored"] \in Import!Remains(whole)
           /\ \A row \in {whole} \cup Import!Remains(whole) :
                Import!Cuts(row) \subseteq Import!Remains(whole)
<1>1. /\ whole.open \in BOOLEAN /\ whole.status \in Import!StatusWord /\ whole.torn = "no"
      /\ whole \in Rows
  BY DEF Import!Row, Rows
<1>2. Import!Remains(whole) \subseteq Rows
  <2> SUFFICES ASSUME NEW row \in Import!Remains(whole) PROVE row \in Rows
    OBVIOUS
  <2>1. row \in [open : {FALSE, whole.open}, status : {"other", whole.status},
                torn : {"fresh", "stored"}]
    BY DEF Import!Remains
  <2>2. {FALSE, whole.open} \subseteq BOOLEAN
    <3>1. whole.open \in BOOLEAN
      BY <1>1
    <3> QED BY <3>1, Zenon
  <2>3. {"other", whole.status} \subseteq Import!StatusWord
    BY <1>1 DEF Import!StatusWord
  <2> QED BY <2>1, <2>2, <2>3 DEF Rows
<1>3. ASSUME NEW row \in Import!Remains(whole)
      PROVE  row.torn # "no" /\ [row EXCEPT !.torn = "stored"] \in Import!Remains(whole)
  BY DEF Import!Remains
<1>4. ASSUME NEW row \in {whole} \cup Import!Remains(whole), NEW cut \in Import!Cuts(row)
      PROVE  cut \in Import!Remains(whole)
  <2>1. CASE row = whole
    BY <1>1, <2>1 DEF Import!Cuts, Import!Remains, Rows
  <2>2. CASE row \in Import!Remains(whole)
    BY <2>2 DEF Import!Cuts, Import!Remains
  <2> QED BY <2>1, <2>2
<1> QED BY <1>1, <1>2, <1>3, <1>4

(* What of a row is known when the row is.                                 *)
LEMMA KnownRows ==
    ASSUME NEW set, set \subseteq Import!Row, NEW hurt \in BOOLEAN,
           NEW row \in Known(set, hurt)
    PROVE  /\ row \in Rows
           /\ row.torn = "no" => row \in set
           /\ row.torn = "fresh" => [row EXCEPT !.torn = "stored"] \in Known(set, hurt)
           /\ \A cut \in Import!Cuts(row) :
                cut \in Known(set, TRUE) /\ cut \in Rows /\ cut.torn # "no"
<1>1. CASE row \in set
  <2>1. row \in Import!Row /\ row.torn = "no" /\ row \in Rows
    BY <1>1, RemainsOfRow DEF Import!Row
  <2>2. ASSUME NEW cut \in Import!Cuts(row)
        PROVE  cut \in Known(set, TRUE) /\ cut \in Rows /\ cut.torn # "no"
    <3>1. cut \in Import!Remains(row)
      BY <2>1, RemainsOfRow
    <3> QED BY <1>1, <2>1, <3>1, RemainsOfRow DEF Known
  <2> QED BY <1>1, <2>1, <2>2
<1>2. CASE row \notin set
  <2>1. PICK whole \in set : hurt /\ row \in Import!Remains(whole)
    BY <1>2 DEF Known
  <2>2. whole \in Import!Row
    BY <2>1
  <2>3. /\ row \in Rows /\ row.torn # "no"
        /\ [row EXCEPT !.torn = "stored"] \in Import!Remains(whole)
        /\ Import!Cuts(row) \subseteq Import!Remains(whole)
    BY <2>1, <2>2, RemainsOfRow
  <2>4. \A r \in Import!Remains(whole) : /\ r \in Rows /\ r.torn # "no"
                                         /\ r \in Known(set, hurt)
                                         /\ r \in Known(set, TRUE)
    BY <2>1, <2>2, RemainsOfRow DEF Known
  <2> QED BY <2>3, <2>4
<1> QED BY <1>1, <1>2

(* What is stored of rows: of a whole one itself, and only of it.          *)
LEMMA StoredRows ==
    ASSUME NEW rows \in Seq(Rows)
    PROVE  /\ Import!Stored(rows) \in Seq(Rows)
           /\ DOMAIN Import!Stored(rows) = DOMAIN rows
           /\ \A i \in DOMAIN rows :
                /\ rows[i].torn # "fresh" => Import!Stored(rows)[i] = rows[i]
                /\ rows[i].torn = "fresh" =>
                      /\ Import!Stored(rows)[i] = [rows[i] EXCEPT !.torn = "stored"]
                      /\ Import!Stored(rows)[i].torn = "stored"
<1>1. DOMAIN rows = 1 .. Len(rows) /\ Len(rows) \in Nat
      /\ \A i \in DOMAIN rows : rows[i] \in Rows
  OBVIOUS
<1>2. \A row \in Rows : /\ [row EXCEPT !.torn = "stored"] \in Rows
                        /\ [row EXCEPT !.torn = "stored"].torn = "stored"
  BY DEF Rows
<1>3. Import!Stored(rows) \in [1 .. Len(rows) -> Rows]
  BY <1>1, <1>2 DEF Import!Stored
<1>4. Import!Stored(rows) \in Seq(Rows)
  BY <1>1, <1>3
<1> QED BY <1>1, <1>2, <1>4 DEF Import!Stored

(* The rows of two files one after the other.                              *)
LEMMA JoinedRows ==
    ASSUME NEW old \in Seq(Rows), NEW rows \in Seq(Rows)
    PROVE  /\ old \o rows \in Seq(Rows)
           /\ Import!Elements(old \o rows)
                = Import!Elements(old) \cup Import!Elements(rows)
<1> DEFINE q == old \o rows
<1>1. /\ q \in Seq(Rows) /\ DOMAIN q = 1 .. Len(old) + Len(rows)
      /\ DOMAIN old = 1 .. Len(old) /\ DOMAIN rows = 1 .. Len(rows)
      /\ Len(old) \in Nat /\ Len(rows) \in Nat
      /\ \A i \in 1 .. Len(old) : q[i] = old[i]
      /\ \A i \in 1 .. Len(rows) : q[Len(old) + i] = rows[i]
  OBVIOUS
<1> HIDE DEF q
<1>2. ASSUME NEW i \in DOMAIN q
      PROVE  q[i] \in Import!Elements(old) \cup Import!Elements(rows)
  <2>1. CASE i \in 1 .. Len(old)
    BY <1>1, <2>1 DEF Import!Elements
  <2>2. CASE i \notin 1 .. Len(old)
    <3>1. i - Len(old) \in 1 .. Len(rows) /\ Len(old) + (i - Len(old)) = i
      BY <1>1, <2>2
    <3> QED BY <1>1, <3>1 DEF Import!Elements
  <2> QED BY <2>1, <2>2
<1>3. ASSUME NEW i \in DOMAIN old PROVE old[i] \in Import!Elements(q)
  BY <1>1 DEF Import!Elements
<1>4. ASSUME NEW i \in DOMAIN rows PROVE rows[i] \in Import!Elements(q)
  <2>1. Len(old) + i \in DOMAIN q
    BY <1>1
  <2> QED BY <1>1, <2>1 DEF Import!Elements
<1>5. Import!Elements(q) = Import!Elements(old) \cup Import!Elements(rows)
  BY <1>2, <1>3, <1>4 DEF Import!Elements
<1> QED BY <1>1, <1>5 DEF q

(* A file merged into what is there already.                               *)
LEMMA MergedFile ==
    ASSUME NEW old, NEW set, NEW hurt \in BOOLEAN, HoldsRows(old, set, hurt),
           NEW rows \in Seq(Import!Row)
    PROVE  /\ HoldsRows(Import!MergedRows(old, rows), set \cup Import!Elements(rows), hurt)
           /\ Import!Elements(rows) \subseteq Import!Elements(Import!MergedRows(old, rows))
<1> DEFINE all_rows == set \cup Import!Elements(rows)
           d == Import!Distinct(old \o rows)
           q == Import!Stored(d)
<1>1. /\ rows \in Seq(Rows) /\ Import!Elements(rows) \subseteq Import!Row
      /\ all_rows \subseteq Import!Row
  <2>1. \A i \in DOMAIN rows : rows[i] \in Import!Row
    OBVIOUS
  <2>2. \A i \in DOMAIN rows : rows[i] \in Rows
    BY <2>1, RemainsOfRow
  <2> QED BY <2>1, <2>2 DEF Import!Elements, HoldsRows
<1>2. IsMerged(d, Import!Elements(old) \cup Import!Elements(rows))
  <2>1. old \in Seq(Rows)
    BY DEF HoldsRows
  <2>2. /\ old \o rows \in Seq(Rows)
        /\ Import!Elements(old \o rows)
             = Import!Elements(old) \cup Import!Elements(rows)
    BY <1>1, <2>1, JoinedRows
  <2>3. IsMerged(Import!Distinct(old \o rows), Import!Elements(old \o rows))
    BY <2>2, DistinctRows
  <2> QED BY <2>2, <2>3
<1> HIDE DEF d
<1>3. /\ d \in Seq(Rows)
      /\ Import!Elements(d) = Import!Elements(old) \cup Import!Elements(rows)
      /\ \A i, j \in DOMAIN d : d[i] = d[j] => i = j
  BY <1>2 DEF IsMerged
<1>4. /\ q \in Seq(Rows) /\ DOMAIN q = DOMAIN d
      /\ \A i \in DOMAIN d :
           /\ d[i].torn # "fresh" => q[i] = d[i]
           /\ d[i].torn = "fresh" => /\ q[i] = [d[i] EXCEPT !.torn = "stored"]
                                     /\ q[i].torn = "stored"
  BY <1>3, StoredRows
<1> HIDE DEF q
<1>5. ASSUME NEW i \in DOMAIN d
      PROVE  /\ d[i] \in Known(all_rows, hurt)
             /\ ~hurt => d[i] \in all_rows
  <2>1. d[i] \in Import!Elements(old) \cup Import!Elements(rows)
    BY <1>3 DEF Import!Elements
  <2>2. Known(set, hurt) \subseteq Known(all_rows, hurt)
    BY DEF Known
  <2>3. all_rows \subseteq Known(all_rows, hurt)
    BY DEF Known
  <2> QED BY <2>1, <2>2, <2>3 DEF HoldsRows
<1>6. \A i \in DOMAIN q : q[i] \in Known(all_rows, hurt)
  <2> SUFFICES ASSUME NEW i \in DOMAIN q PROVE q[i] \in Known(all_rows, hurt)
    OBVIOUS
  <2>1. d[i] \in Known(all_rows, hurt)
    BY <1>4, <1>5
  <2>2. d[i].torn = "fresh" => [d[i] EXCEPT !.torn = "stored"] \in Known(all_rows, hurt)
    BY <1>1, <2>1, KnownRows
  <2> QED BY <1>4, <2>1, <2>2
<1>7. ASSUME NEW i \in DOMAIN q, NEW j \in DOMAIN q, q[i] = q[j], q[i].torn = "no"
      PROVE  i = j
  BY <1>3, <1>4, <1>7
<1>8. \A r \in Import!Row : r.torn = "no"
  BY DEF Import!Row
<1>9. ASSUME NEW r \in Import!Elements(d), r.torn = "no" PROVE r \in Import!Elements(q)
  <2>1. PICK i \in DOMAIN d : d[i] = r
    BY DEF Import!Elements
  <2>2. q[i] = r /\ i \in DOMAIN q
    BY <1>4, <1>9, <2>1
  <2> QED BY <2>2 DEF Import!Elements
<1>10. Import!Elements(rows) \subseteq Import!Elements(q)
  BY <1>1, <1>3, <1>8, <1>9
<1>11. ASSUME ~hurt PROVE Import!Elements(q) = all_rows
  <2>1. Import!Elements(d) = all_rows
    BY <1>3, <1>11 DEF HoldsRows
  <2>2. \A i \in DOMAIN q : q[i] \in all_rows
    BY <1>1, <1>4, <1>5, <1>8, <1>11
  <2>3. all_rows \subseteq Import!Elements(q)
    BY <1>1, <1>8, <1>9, <2>1
  <2> QED BY <2>2, <2>3 DEF Import!Elements
<1>12. Import!Elements(q) \subseteq Known(all_rows, hurt)
  BY <1>6 DEF Import!Elements
<1>13. HoldsRows(q, all_rows, hurt)
  <2> HIDE DEF all_rows
  <2> QED BY <1>1, <1>4, <1>7, <1>11, <1>12 DEF HoldsRows
<1>14. Import!MergedRows(old, rows) = q
  BY DEF Import!MergedRows, q, d
<1> QED BY <1>10, <1>13, <1>14

(* A file that a stop has left with some of its rows, and one cut.         *)
LEMMA PartialFile ==
    ASSUME NEW rows, NEW set, NEW hurt \in BOOLEAN, HoldsRows(rows, set, hurt),
           NEW left \in Import!Partial(rows)
    PROVE  HoldsRows(left, set, TRUE)
<1>1. /\ rows \in Seq(Rows) /\ set \subseteq Import!Row
      /\ DOMAIN rows = 1 .. Len(rows) /\ Len(rows) \in Nat
      /\ \A i \in DOMAIN rows : rows[i] \in Known(set, hurt) /\ rows[i] \in Rows
      /\ \A i, j \in DOMAIN rows :
           rows[i] = rows[j] /\ rows[i].torn = "no" => i = j
  BY DEF HoldsRows, Import!Elements
<1>2. Known(set, hurt) \subseteq Known(set, TRUE)
  BY DEF Known
<1>3. ASSUME NEW n \in 0 .. Len(rows)
      PROVE  LET q == SubSeq(rows, 1, n)
             IN  /\ q \in Seq(Rows) /\ DOMAIN q = 1 .. n /\ Len(q) = n
                 /\ \A i \in 1 .. n : i \in DOMAIN rows /\ q[i] = rows[i]
  BY <1>1
<1>4. ASSUME NEW n \in 0 .. Len(rows), left = SubSeq(rows, 1, n)
      PROVE  HoldsRows(left, set, TRUE)
  <2>1. /\ left \in Seq(Rows) /\ DOMAIN left = 1 .. n
        /\ \A i \in 1 .. n : i \in DOMAIN rows /\ left[i] = rows[i]
    BY <1>3, <1>4
  <2>2. Import!Elements(left) \subseteq Known(set, TRUE)
    BY <1>1, <1>2, <2>1 DEF Import!Elements
  <2> QED BY <1>1, <2>1, <2>2 DEF HoldsRows
<1>5. ASSUME NEW n \in DOMAIN rows, NEW cut \in Import!Cuts(rows[n]),
             left = Append(SubSeq(rows, 1, n - 1), cut)
      PROVE  HoldsRows(left, set, TRUE)
  <2>1. cut \in Known(set, TRUE) /\ cut \in Rows /\ cut.torn # "no"
    BY <1>1, KnownRows
  <2>2. n - 1 \in 0 .. Len(rows) /\ n \in Nat
    BY <1>1
  <2> DEFINE q == SubSeq(rows, 1, n - 1)
  <2>3. /\ q \in Seq(Rows) /\ DOMAIN q = 1 .. n - 1 /\ Len(q) = n - 1
        /\ \A i \in 1 .. n - 1 : i \in DOMAIN rows /\ q[i] = rows[i]
    BY <1>3, <2>2
  <2> HIDE DEF q
  <2>4. /\ left \in Seq(Rows) /\ DOMAIN left = 1 .. n /\ left[n] = cut
        /\ \A i \in 1 .. n - 1 : i \in DOMAIN rows /\ left[i] = rows[i]
    <3>1. left = Append(q, cut)
      BY <1>5 DEF q
    <3>2. left \in Seq(Rows) /\ DOMAIN left = 1 .. n /\ left[n] = cut
      BY <2>1, <2>2, <2>3, <3>1
    <3>3. \A i \in 1 .. n - 1 : left[i] = q[i]
      BY <2>1, <2>2, <2>3, <3>1
    <3> QED BY <2>3, <3>2, <3>3
  <2>5. \A i \in 1 .. n : i = n \/ i \in 1 .. n - 1
    BY <2>2
  <2>6. \A i, j \in DOMAIN left : left[i] = left[j] /\ left[i].torn = "no" => i = j
    BY <1>1, <2>1, <2>4, <2>5
  <2>7. \A i \in DOMAIN left : left[i] \in Known(set, TRUE)
    BY <1>1, <1>2, <2>1, <2>4, <2>5
  <2>8. Import!Elements(left) \subseteq Known(set, TRUE)
    BY <2>7 DEF Import!Elements
  <2> QED BY <1>1, <2>4, <2>6, <2>8 DEF HoldsRows
<1> QED BY <1>4, <1>5 DEF Import!Partial

(* Of every gate: what its canonical file holds, that it has a header until*)
(* a stop was inside it, and that the file just merged is in it.           *)
GateOK(g) ==
    /\ HoldsRows(canonical[g], offered[g], damaged[g] > 0)
    /\ damaged[g] = 0 => g \notin unreadable
    /\ importing /\ g \notin pending \cup unreadable /\ Import!Mergeable(artifact[g]) =>
          Import!Elements(artifact[g].rows) \subseteq Import!Elements(canonical[g])

ImportOK ==
    /\ artifact \in [Gate -> File \cup {NULL}]
    /\ canonical = [g \in Gate |-> canonical[g]]
    /\ offered = [g \in Gate |-> offered[g]]
    /\ damaged \in [Gate -> Nat]
    /\ \A g \in Gate : GateOK(g)

(* What a file to be merged has.                                           *)
LEMMA OfferedRows ==
    ASSUME ImportOK, NEW g \in Gate, Import!Mergeable(artifact[g])
    PROVE  artifact[g].rows \in Seq(Import!Row)
<1>1. artifact[g] \in File
  BY DEF Import!Mergeable, ImportOK
<1> QED BY <1>1, FileAssumption

(* Every step of the import: a merge, the ledgers, a stop.                 *)
LEMMA ImportStepOK ==
    ASSUME ImportOK, Import!Next
    PROVE  ImportOK'
<1> USE DEF Import!Elements, Import!Mergeable
<1>1. CASE Import!ImportSource
  BY <1>1 DEF Import!ImportSource, ImportOK, GateOK
<1>2. ASSUME NEW g \in Gate, Import!MergeEvidence(g) PROVE ImportOK'
  <2> USE DEF ImportOK
  <2>1. /\ g \in pending /\ pending' = pending \ {g}
        /\ UNCHANGED <<artifact, importing, unreadable, damaged>>
    BY <1>2 DEF Import!MergeEvidence
  <2>2. CASE Import!Merges(g)
    <3> DEFINE rows == artifact[g].rows
               new == Import!MergedRows(canonical[g], rows)
    <3>1. /\ canonical' = [canonical EXCEPT ![g] = new]
          /\ offered' = [offered EXCEPT ![g] = offered[g] \cup Import!Elements(rows)]
      BY <1>2, <2>2 DEF Import!MergeEvidence
    <3>2. /\ HoldsRows(new, offered[g] \cup Import!Elements(rows), damaged[g] > 0)
          /\ Import!Elements(rows) \subseteq Import!Elements(new)
      <4>1. rows \in Seq(Import!Row)
        BY <2>2, OfferedRows DEF Import!Merges
      <4>2. HoldsRows(canonical[g], offered[g], damaged[g] > 0)
        BY DEF GateOK
      <4>3. (damaged[g] > 0) \in BOOLEAN
        OBVIOUS
      <4> HIDE DEF rows, Import!Elements
      <4> QED BY <4>1, <4>2, <4>3, MergedFile
    <3> HIDE DEF new
    <3>3. canonical'[g] = new /\ offered'[g] = offered[g] \cup Import!Elements(rows)
      BY <3>1
    <3>4. GateOK(g)'
      BY <2>1, <3>2, <3>3 DEF GateOK
    <3>5. \A k \in Gate \ {g} : canonical'[k] = canonical[k] /\ offered'[k] = offered[k]
      BY <3>1
    <3>6. \A k \in Gate \ {g} : GateOK(k)'
      BY <2>1, <3>5 DEF GateOK
    <3>7. /\ canonical' = [k \in Gate |-> canonical'[k]]
          /\ offered' = [k \in Gate |-> offered'[k]]
      BY <3>1
    <3> QED BY <2>1, <3>4, <3>6, <3>7
  <2>3. CASE ~Import!Merges(g)
    <3>1. UNCHANGED <<canonical, offered>>
      BY <1>2, <2>3 DEF Import!MergeEvidence
    <3>2. GateOK(g)'
      BY <2>1, <2>3, <3>1 DEF Import!Merges, GateOK
    <3>3. ASSUME NEW k \in Gate \ {g} PROVE GateOK(k)'
      BY <2>1, <3>1, <3>3 DEF GateOK
    <3> QED BY <2>1, <3>1, <3>2, <3>3
  <2> QED BY <2>2, <2>3
<1>3. CASE Import!WriteLedgers
  BY <1>3 DEF Import!WriteLedgers, ImportOK, GateOK
<1>4. CASE Import!StoppedBetweenFiles
  BY <1>4 DEF Import!StoppedBetweenFiles, Import!Stopped, ImportOK, GateOK
<1>5. ASSUME NEW g \in Gate, Import!StoppedInFile(g) PROVE ImportOK'
  <2> USE DEF ImportOK
  <2> DEFINE rows == artifact[g].rows
             new == Import!MergedRows(canonical[g], rows)
             all_rows == offered[g] \cup Import!Elements(rows)
  <2>1. /\ Import!Merges(g) /\ importing' = FALSE
        /\ offered' = [offered EXCEPT ![g] = all_rows]
        /\ damaged' = [damaged EXCEPT ![g] = damaged[g] + 1]
        /\ UNCHANGED artifact
    BY <1>5 DEF Import!StoppedInFile, Import!Stopped
  <2>2. HoldsRows(new, all_rows, damaged[g] > 0)
    <3>1. rows \in Seq(Import!Row)
      BY <2>1, OfferedRows DEF Import!Merges
    <3>2. HoldsRows(canonical[g], offered[g], damaged[g] > 0)
      BY DEF GateOK
    <3>3. (damaged[g] > 0) \in BOOLEAN
      OBVIOUS
    <3> HIDE DEF rows
    <3> QED BY <3>1, <3>2, <3>3, MergedFile
  <2> HIDE DEF new, all_rows
  <2>3. PICK left : /\ canonical' = [canonical EXCEPT ![g] = left]
                    /\ left = << >> \/ left \in Import!Partial(new)
                    /\ unreadable' \subseteq unreadable \cup {g}
    BY <1>5 DEF Import!StoppedInFile, new
  <2>4. HoldsRows(left, all_rows, TRUE)
    <3>1. HoldsRows(<< >>, all_rows, TRUE)
      BY <2>2 DEF HoldsRows
    <3>2. CASE left \in Import!Partial(new)
      <4>1. (damaged[g] > 0) \in BOOLEAN
        OBVIOUS
      <4> QED BY <2>2, <3>2, <4>1, PartialFile
    <3> QED BY <2>3, <3>1, <3>2
  <2>5. /\ canonical'[g] = left /\ offered'[g] = all_rows
        /\ damaged'[g] # 0 /\ (damaged'[g] > 0) = TRUE
    BY <2>1, <2>3
  <2>6. GateOK(g)'
    BY <2>1, <2>4, <2>5 DEF GateOK
  <2>7. \A k \in Gate \ {g} : /\ canonical'[k] = canonical[k] /\ offered'[k] = offered[k]
                              /\ damaged'[k] = damaged[k]
    BY <2>1, <2>3
  <2>8. \A k \in Gate \ {g} : GateOK(k)'
    BY <2>1, <2>3, <2>7 DEF GateOK
  <2>9. /\ canonical' = [k \in Gate |-> canonical'[k]]
        /\ offered' = [k \in Gate |-> offered'[k]]
    BY <2>1, <2>3
  <2>10. damaged' \in [Gate -> Nat]
    <3>1. damaged[g] + 1 \in Nat
      OBVIOUS
    <3> QED BY <2>1, <3>1
  <2> QED BY <2>1, <2>6, <2>8, <2>9, <2>10
<1> QED BY <1>1, <1>2, <1>3, <1>4, <1>5 DEF Import!Next

(* A run of the composition is a run of the import.                        *)
LEMMA ImportPart == Software => Import!Spec
<1>1. SoftwareInit => Import!Init
  BY DEF SoftwareInit
<1>2. [SoftwareNext]_all => [Import!Next]_(Import!vars)
  BY DEF SoftwareNext, ContractStep, ServiceStep, ParentStep, ChildStep,
         Misfortune, ImportStep, all, programs, import, Import!vars
<1> QED BY <1>1, <1>2, PTL DEF Software, Import!Spec

(* Imports that repeat and that are stopped, between two files or anywhere *)
(* in one: a whole row is in its canonical file once, what is there comes  *)
(* from the files offered, all of it unless a stop was inside the file, and*)
(* a merge into a file with its header brings its rows back.  This is for  *)
(* all gates, files and numbers of stops: merge_evidence_csv, write_csv.   *)
THEOREM ImportKeepsEvidence == Software => []EvidenceIsMerged
<1>1. Import!Init => ImportOK
  <2>1. HoldsRows(<< >>, {}, FALSE)
    BY DEF HoldsRows, Known, Import!Elements
  <2>2. (0 > 0) = FALSE
    OBVIOUS
  <2>3. ASSUME Import!Init, NEW g \in Gate PROVE GateOK(g)
    BY <2>1, <2>2, <2>3 DEF Import!Init, GateOK
  <2>4. Import!Init => /\ artifact \in [Gate -> File \cup {NULL}]
                       /\ canonical = [g \in Gate |-> canonical[g]]
                       /\ offered = [g \in Gate |-> offered[g]]
                       /\ damaged \in [Gate -> Nat]
    BY DEF Import!Init
  <2> QED BY <2>3, <2>4 DEF ImportOK
<1>2. ImportOK /\ [Import!Next]_(Import!vars) => ImportOK'
  <2>1. ImportOK /\ UNCHANGED Import!vars => ImportOK'
    <3> SUFFICES ASSUME ImportOK, UNCHANGED Import!vars PROVE ImportOK'
      OBVIOUS
    <3>1. UNCHANGED <<canonical, artifact, pending, importing, unreadable,
                      offered, damaged>>
      BY DEF Import!vars
    <3>2. \A g \in Gate : GateOK(g)'
      BY <3>1 DEF ImportOK, GateOK, Import!Mergeable, Import!Elements
    <3>3. /\ artifact' \in [Gate -> File \cup {NULL}]
          /\ damaged' \in [Gate -> Nat]
      BY <3>1 DEF ImportOK
    <3>4. /\ canonical' = [g \in Gate |-> canonical'[g]]
          /\ offered' = [g \in Gate |-> offered'[g]]
      BY <3>1 DEF ImportOK
    <3> QED BY <3>2, <3>3, <3>4 DEF ImportOK
  <2> QED BY <2>1, ImportStepOK
<1>3. ImportOK => EvidenceIsMerged
  <2> SUFFICES ASSUME ImportOK, NEW g \in Gate
               PROVE  /\ \A i, j \in DOMAIN canonical[g] :
                          canonical[g][i] = canonical[g][j]
                            /\ canonical[g][i].torn = "no" => i = j
                      /\ \A row \in Import!Elements(canonical[g]) :
                          \/ row \in offered[g]
                          \/ damaged[g] > 0
                               /\ \E whole \in offered[g] : row \in Import!Remains(whole)
                      /\ damaged[g] = 0 =>
                            g \notin unreadable
                              /\ offered[g] = Import!Elements(canonical[g])
                      /\ importing /\ g \notin pending \cup unreadable
                            /\ Import!Mergeable(artifact[g]) =>
                            Import!Elements(artifact[g].rows)
                              \subseteq Import!Elements(canonical[g])
    BY DEF EvidenceIsMerged, Import!EvidenceIsMerged
  <2>1. GateOK(g) /\ damaged[g] \in Nat
    BY DEF ImportOK
  <2>2. HoldsRows(canonical[g], offered[g], damaged[g] > 0)
    BY <2>1 DEF GateOK
  <2>3. damaged[g] = 0 \/ damaged[g] > 0
    BY <2>1
  <2> QED BY <2>1, <2>2, <2>3 DEF GateOK, HoldsRows, Known
<1> QED BY <1>1, <1>2, <1>3, ImportPart, PTL DEF Import!Spec

-----------------------------------------------------------------------------
(* The session cache.  q[1] .. q[n] is the list that starts at first.      *)
Pointer == Session \cup {NULL}
Members(q, n) == {q[i] : i \in 1 .. n}
Last(q, n) == IF n = 0 THEN NULL ELSE q[n]

IsList(q, n, first, next, prev) ==
    /\ n \in Nat /\ q \in [1 .. n -> Session]
    /\ \A i, j \in 1 .. n : q[i] = q[j] => i = j
    /\ first = IF n = 0 THEN NULL ELSE q[1]
    /\ next \in [Session -> Pointer] /\ prev \in [Session -> Pointer]
    /\ \A i \in 1 .. n : next[q[i]] = IF i = n THEN NULL ELSE q[i + 1]
    /\ \A i \in 1 .. n : prev[q[i]] = IF i = 1 THEN NULL ELSE q[i - 1]

(* What taking s out, and putting it before first, do to the pointers of   *)
(* either list.                                                            *)
NextWithout(next, prev, s) ==
    [p \in Session |-> IF p = prev[s] THEN next[s]
                       ELSE IF p = s THEN NULL ELSE next[p]]
PrevWithout(next, prev, s) ==
    [p \in Session |-> IF p = next[s] THEN prev[s]
                       ELSE IF p = s THEN NULL ELSE prev[p]]
NextWith(next, first, s) == [next EXCEPT ![s] = first]
PrevWith(prev, first, s) ==
    [p \in Session |-> IF p = s THEN NULL ELSE IF p = first THEN s ELSE prev[p]]

Without(q, n, k) == [i \in 1 .. n - 1 |-> IF i < k THEN q[i] ELSE q[i + 1]]
With(q, n, s) == [i \in 1 .. n + 1 |-> IF i = 1 THEN s ELSE q[i - 1]]

(* Out of its place in the list, whichever it is, the rest closes up.      *)
LEMMA TakenOut ==
    ASSUME NEW q, NEW n, NEW first, NEW next, NEW prev, NEW k \in 1 .. n,
           IsList(q, n, first, next, prev)
    PROVE  LET s == q[k] IN
           /\ IsList(Without(q, n, k), n - 1,
                     IF prev[s] = NULL THEN next[s] ELSE first,
                     NextWithout(next, prev, s), PrevWithout(next, prev, s))
           /\ (IF next[s] = NULL THEN prev[s] ELSE Last(q, n))
                 = Last(Without(q, n, k), n - 1)
           /\ Members(Without(q, n, k), n - 1) = Members(q, n) \ {s}
<1> DEFINE s == q[k]
           r == Without(q, n, k)
           next1 == NextWithout(next, prev, s)
           prev1 == PrevWithout(next, prev, s)
<1>1. /\ n \in Nat /\ n # 0 /\ n - 1 \in Nat
      /\ \A i \in 1 .. n : q[i] \in Session /\ q[i] # NULL
      /\ \A i, j \in 1 .. n : q[i] = q[j] => i = j
      /\ s \in Session
  BY SessionAssumption DEF IsList
<1>2. /\ next[s] = IF k = n THEN NULL ELSE q[k + 1]
      /\ prev[s] = IF k = 1 THEN NULL ELSE q[k - 1]
  BY DEF IsList
<1>3. \A i \in 1 .. n - 1 : /\ i \in 1 .. n /\ i + 1 \in 1 .. n
                            /\ r[i] = IF i < k THEN q[i] ELSE q[i + 1]
  BY <1>1 DEF Without
<1>4. r \in [1 .. n - 1 -> Session]
  <2>1. \A i \in 1 .. n - 1 : r[i] \in Session
    BY <1>1, <1>3
  <2> QED BY <2>1 DEF Without
<1>5. \A i, j \in 1 .. n - 1 : r[i] = r[j] => i = j
  <2> SUFFICES ASSUME NEW i \in 1 .. n - 1, NEW j \in 1 .. n - 1, r[i] = r[j]
               PROVE  i = j
    OBVIOUS
  <2> DEFINE a == IF i < k THEN i ELSE i + 1
             b == IF j < k THEN j ELSE j + 1
  <2>1. a \in 1 .. n /\ b \in 1 .. n /\ q[a] = q[b]
    BY <1>3
  <2>2. a = b
    BY <1>1, <2>1
  <2> QED BY <1>1, <2>2
<1>6. (IF prev[s] = NULL THEN next[s] ELSE first) = IF n - 1 = 0 THEN NULL ELSE r[1]
  <2>1. CASE k = 1
    <3>1. n - 1 # 0 => r[1] = q[2] /\ next[s] = q[2]
      BY <1>1, <1>2, <1>3, <2>1
    <3>2. n - 1 = 0 => next[s] = NULL
      BY <1>1, <1>2, <2>1
    <3> QED BY <1>2, <2>1, <3>1, <3>2
  <2>2. CASE k # 1
    <3>1. k - 1 \in 1 .. n /\ 1 \in 1 .. n - 1 /\ 1 < k
      BY <1>1, <2>2
    <3>2. prev[s] # NULL /\ r[1] = q[1]
      BY <1>1, <1>2, <1>3, <2>2, <3>1
    <3>3. first = q[1]
      BY <1>1 DEF IsList
    <3> QED BY <1>1, <3>1, <3>2, <3>3
  <2> QED BY <2>1, <2>2
<1>7. (IF next[s] = NULL THEN prev[s] ELSE Last(q, n)) = Last(r, n - 1)
  <2>1. CASE k = n
    <3>1. n - 1 # 0 => r[n - 1] = q[n - 1] /\ prev[s] = q[n - 1]
      BY <1>1, <1>2, <1>3, <2>1
    <3>2. n - 1 = 0 => prev[s] = NULL
      BY <1>1, <1>2, <2>1
    <3> QED BY <1>2, <2>1, <3>1, <3>2 DEF Last
  <2>2. CASE k # n
    <3>1. k + 1 \in 1 .. n /\ n - 1 \in 1 .. n - 1 /\ ~(n - 1 < k) /\ (n - 1) + 1 = n
      BY <1>1, <2>2
    <3>2. next[s] # NULL /\ r[n - 1] = q[n]
      BY <1>1, <1>2, <1>3, <2>2, <3>1
    <3> QED BY <1>1, <3>1, <3>2 DEF Last
  <2> QED BY <2>1, <2>2
<1>8. next1 \in [Session -> Pointer] /\ prev1 \in [Session -> Pointer]
  <2>1. next \in [Session -> Pointer] /\ prev \in [Session -> Pointer]
    BY DEF IsList
  <2>2. NULL \in Pointer
    BY DEF Pointer
  <2>3. next[s] \in Pointer /\ prev[s] \in Pointer
    BY <1>1, <2>1
  <2> QED BY <2>1, <2>2, <2>3 DEF NextWithout, PrevWithout
<1>9. ASSUME NEW i \in 1 .. n, i # k
      PROVE  /\ next1[q[i]] = IF i = k - 1 THEN next[s] ELSE next[q[i]]
             /\ prev1[q[i]] = IF i = k + 1 THEN prev[s] ELSE prev[q[i]]
  <2>1. q[i] # s
    BY <1>1, <1>9
  <2>2. q[i] = prev[s] <=> i = k - 1
    <3>1. k # 1 => k - 1 \in 1 .. n
      BY <1>1
    <3> QED BY <1>1, <1>2, <3>1
  <2>3. q[i] = next[s] <=> i = k + 1
    <3>1. k # n => k + 1 \in 1 .. n
      BY <1>1
    <3> QED BY <1>1, <1>2, <3>1
  <2> QED BY <1>1, <2>1, <2>2, <2>3 DEF NextWithout, PrevWithout
<1>10. ASSUME NEW i \in 1 .. n - 1
       PROVE  next1[r[i]] = IF i = n - 1 THEN NULL ELSE r[i + 1]
  <2>1. CASE i < k
    <3>1. i \in 1 .. n /\ i # k /\ r[i] = q[i]
      BY <1>3, <2>1
    <3>2. CASE i = k - 1
      <4>1. next1[r[i]] = next[s]
        BY <1>9, <3>1, <3>2
      <4>2. i = n - 1 <=> k = n
        BY <1>1, <3>2
      <4>3. i # n - 1 => r[i + 1] = q[k + 1]
        <5>1. i # n - 1 => i + 1 \in 1 .. n - 1
          BY <1>1
        <5> QED BY <1>3, <3>2, <5>1
      <4> QED BY <1>2, <4>1, <4>2, <4>3
    <3>3. CASE i # k - 1
      <4>1. next1[r[i]] = next[q[i]]
        BY <1>9, <3>1, <3>3
      <4>2. i # n /\ next[q[i]] = q[i + 1]
        BY <1>1, <2>1, <3>1 DEF IsList
      <4>3. i + 1 \in 1 .. n - 1 /\ i + 1 < k /\ i # n - 1
        BY <1>1, <2>1, <3>3
      <4>4. r[i + 1] = q[i + 1]
        BY <1>3, <4>3
      <4> QED BY <4>1, <4>2, <4>3, <4>4
    <3> QED BY <3>2, <3>3
  <2>2. CASE ~(i < k)
    <3>1. i + 1 \in 1 .. n /\ i + 1 # k /\ i + 1 # k - 1 /\ r[i] = q[i + 1]
      BY <1>1, <1>3, <2>2
    <3>2. next1[r[i]] = next[q[i + 1]]
      BY <1>9, <3>1
    <3>3. next[q[i + 1]] = IF i + 1 = n THEN NULL ELSE q[(i + 1) + 1]
      BY <3>1 DEF IsList
    <3>4. i # n - 1 => r[i + 1] = q[(i + 1) + 1]
      <4>1. i # n - 1 => i + 1 \in 1 .. n - 1 /\ ~(i + 1 < k)
        BY <1>1, <2>2
      <4> QED BY <1>3, <4>1
    <3> QED BY <1>1, <3>2, <3>3, <3>4
  <2> QED BY <2>1, <2>2
<1>11. ASSUME NEW i \in 1 .. n - 1
       PROVE  prev1[r[i]] = IF i = 1 THEN NULL ELSE r[i - 1]
  <2>1. CASE i < k
    <3>1. i \in 1 .. n /\ i # k /\ i # k + 1 /\ r[i] = q[i]
      BY <1>3, <2>1
    <3>2. prev1[r[i]] = prev[q[i]]
      BY <1>9, <3>1
    <3>3. prev[q[i]] = IF i = 1 THEN NULL ELSE q[i - 1]
      BY <3>1 DEF IsList
    <3>4. i # 1 => r[i - 1] = q[i - 1]
      <4>1. i # 1 => i - 1 \in 1 .. n - 1 /\ i - 1 < k
        BY <1>1, <2>1
      <4> QED BY <1>3, <4>1
    <3> QED BY <3>2, <3>3, <3>4
  <2>2. CASE ~(i < k)
    <3>1. i + 1 \in 1 .. n /\ i + 1 # k /\ r[i] = q[i + 1]
      BY <1>1, <1>3, <2>2
    <3>2. CASE i = k
      <4>1. prev1[r[i]] = prev[s]
        BY <1>9, <3>1, <3>2
      <4>2. i # 1 => r[i - 1] = q[k - 1]
        <5>1. i # 1 => i - 1 \in 1 .. n - 1 /\ i - 1 < k
          BY <1>1, <3>2
        <5> QED BY <1>3, <3>2, <5>1
      <4> QED BY <1>2, <3>2, <4>1, <4>2
    <3>3. CASE i # k
      <4>1. prev1[r[i]] = prev[q[i + 1]]
        <5>1. i + 1 # k + 1
          BY <3>3
        <5> QED BY <1>9, <3>1, <5>1
      <4>2. prev[q[i + 1]] = q[i]
        BY <3>1 DEF IsList
      <4>3. i - 1 \in 1 .. n - 1 /\ ~(i - 1 < k) /\ i # 1 /\ (i - 1) + 1 = i
        BY <1>1, <2>2, <3>3
      <4>4. r[i - 1] = q[i]
        BY <1>3, <4>3
      <4> QED BY <4>1, <4>2, <4>3, <4>4
    <3> QED BY <3>2, <3>3
  <2> QED BY <2>1, <2>2
<1>12. Members(r, n - 1) = Members(q, n) \ {s}
  <2>1. ASSUME NEW i \in 1 .. n - 1 PROVE r[i] \in {q[j] : j \in 1 .. n} \ {s}
    <3>1. CASE i < k
      BY <1>1, <1>3, <3>1
    <3>2. CASE ~(i < k)
      BY <1>1, <1>3, <3>2
    <3> QED BY <3>1, <3>2
  <2>2. ASSUME NEW j \in 1 .. n, q[j] # s PROVE \E i \in 1 .. n - 1 : r[i] = q[j]
    <3>1. CASE j < k
      <4>1. j \in 1 .. n - 1 /\ r[j] = q[j]
        BY <1>1, <1>3, <3>1
      <4> QED BY <4>1
    <3>2. CASE ~(j < k)
      <4>1. j - 1 \in 1 .. n - 1 /\ ~(j - 1 < k) /\ (j - 1) + 1 = j
        BY <1>1, <2>2, <3>2
      <4>2. r[j - 1] = q[j]
        BY <1>3, <4>1
      <4> QED BY <4>1, <4>2
    <3> QED BY <3>1, <3>2
  <2> QED BY <2>1, <2>2 DEF Members
<1> HIDE DEF r, s, next1, prev1
<1>13. IsList(r, n - 1, IF prev[s] = NULL THEN next[s] ELSE first, next1, prev1)
  BY <1>1, <1>4, <1>5, <1>6, <1>8, <1>10, <1>11 DEF IsList
<1> QED BY <1>7, <1>12, <1>13 DEF r, s, next1, prev1

(* In front of the list, the rest follows.                                 *)
LEMMA PutInFront ==
    ASSUME NEW q, NEW n, NEW first, NEW next, NEW prev, NEW s \in Session,
           IsList(q, n, first, next, prev), \A i \in 1 .. n : q[i] # s
    PROVE  /\ IsList(With(q, n, s), n + 1, s,
                     NextWith(next, first, s), PrevWith(prev, first, s))
           /\ (IF first = NULL THEN s ELSE Last(q, n)) = Last(With(q, n, s), n + 1)
<1> DEFINE r == With(q, n, s)
           next1 == NextWith(next, first, s)
           prev1 == PrevWith(prev, first, s)
<1>1. /\ n \in Nat /\ n + 1 \in Nat
      /\ \A i \in 1 .. n : q[i] \in Session /\ q[i] # NULL
      /\ \A i, j \in 1 .. n : q[i] = q[j] => i = j
      /\ s # NULL
      /\ first = IF n = 0 THEN NULL ELSE q[1]
  BY SessionAssumption DEF IsList
<1>2. \A i \in 1 .. n + 1 : /\ i # 1 => i - 1 \in 1 .. n
                            /\ r[i] = IF i = 1 THEN s ELSE q[i - 1]
  BY <1>1 DEF With
<1>3. 1 \in 1 .. n + 1 /\ n + 1 \in 1 .. n + 1 /\ r[1] = s
  BY <1>1, <1>2
<1>4. r \in [1 .. n + 1 -> Session]
  <2>1. \A i \in 1 .. n + 1 : r[i] \in Session
    BY <1>1, <1>2
  <2> QED BY <2>1 DEF With
<1>5. \A i, j \in 1 .. n + 1 : r[i] = r[j] => i = j
  <2> SUFFICES ASSUME NEW i \in 1 .. n + 1, NEW j \in 1 .. n + 1, r[i] = r[j]
               PROVE  i = j
    OBVIOUS
  <2>1. CASE i # 1 /\ j # 1
    <3>1. i - 1 = j - 1
      BY <1>1, <1>2, <2>1
    <3> QED BY <1>1, <3>1
  <2>2. CASE i = 1 \/ j = 1
    BY <1>2, <2>2
  <2> QED BY <2>1, <2>2
<1>6. next1 \in [Session -> Pointer] /\ prev1 \in [Session -> Pointer]
  <2>1. next \in [Session -> Pointer] /\ prev \in [Session -> Pointer]
    BY DEF IsList
  <2>2. first \in Pointer /\ NULL \in Pointer /\ s \in Pointer
    BY <1>1 DEF Pointer
  <2> QED BY <2>1, <2>2 DEF NextWith, PrevWith
<1>7. /\ next1[s] = first /\ prev1[s] = NULL
      /\ \A i \in 1 .. n : next1[q[i]] = next[q[i]]
      /\ \A i \in 1 .. n : prev1[q[i]] = IF i = 1 THEN s ELSE prev[q[i]]
  <2>1. next \in [Session -> Pointer]
    BY DEF IsList
  <2>2. next1[s] = first /\ \A i \in 1 .. n : next1[q[i]] = next[q[i]]
    BY <1>1, <2>1 DEF NextWith
  <2>3. \A i \in 1 .. n : q[i] = first <=> i = 1
    <3>1. n # 0 => 1 \in 1 .. n /\ first = q[1]
      BY <1>1
    <3> QED BY <1>1, <3>1
  <2>4. prev1[s] = NULL /\ \A i \in 1 .. n : prev1[q[i]] = IF i = 1 THEN s ELSE prev[q[i]]
    BY <1>1, <2>3 DEF PrevWith
  <2> QED BY <2>2, <2>4
<1>8. ASSUME NEW i \in 1 .. n + 1
      PROVE  next1[r[i]] = IF i = n + 1 THEN NULL ELSE r[i + 1]
  <2>1. CASE i = 1
    <3>1. next1[r[i]] = first
      BY <1>2, <1>7, <2>1
    <3>2. n # 0 => 2 \in 1 .. n + 1
      BY <1>1
    <3>3. n # 0 => r[2] = q[1]
      BY <1>2, <3>2
    <3> QED BY <1>1, <2>1, <3>1, <3>3
  <2>2. CASE i # 1
    <3>1. i - 1 \in 1 .. n /\ r[i] = q[i - 1]
      BY <1>2, <2>2
    <3>2. next1[r[i]] = next[q[i - 1]]
      BY <1>7, <3>1
    <3>3. next[q[i - 1]] = IF i - 1 = n THEN NULL ELSE q[(i - 1) + 1]
      BY <3>1 DEF IsList
    <3>4. i # n + 1 => r[i + 1] = q[(i - 1) + 1]
      <4>1. i # n + 1 => i + 1 \in 1 .. n + 1 /\ i + 1 # 1 /\ (i + 1) - 1 = (i - 1) + 1
        BY <1>1
      <4> QED BY <1>2, <4>1
    <3>5. i - 1 = n <=> i = n + 1
      BY <1>1
    <3> QED BY <3>2, <3>3, <3>4, <3>5
  <2> QED BY <2>1, <2>2
<1>9. ASSUME NEW i \in 1 .. n + 1
      PROVE  prev1[r[i]] = IF i = 1 THEN NULL ELSE r[i - 1]
  <2>1. CASE i = 1
    BY <1>2, <1>7, <2>1
  <2>2. CASE i # 1
    <3>1. i - 1 \in 1 .. n /\ r[i] = q[i - 1]
      BY <1>2, <2>2
    <3>2. prev1[r[i]] = IF i - 1 = 1 THEN s ELSE prev[q[i - 1]]
      BY <1>7, <3>1
    <3>3. i - 1 # 1 => prev[q[i - 1]] = q[(i - 1) - 1]
      BY <3>1 DEF IsList
    <3>4. i - 1 \in 1 .. n + 1 /\ r[i - 1] = IF i - 1 = 1 THEN s ELSE q[(i - 1) - 1]
      <4>1. i - 1 \in 1 .. n + 1
        BY <1>1, <2>2
      <4> QED BY <1>2, <4>1
    <3> QED BY <2>2, <3>2, <3>3, <3>4
  <2> QED BY <2>1, <2>2
<1>10. (IF first = NULL THEN s ELSE Last(q, n)) = Last(r, n + 1)
  <2>1. CASE n = 0
    BY <1>1, <1>2, <1>3, <2>1 DEF Last
  <2>2. CASE n # 0
    <3>1. first # NULL
      BY <1>1, <2>2
    <3>2. n + 1 # 1 /\ (n + 1) - 1 = n /\ n + 1 # 0
      BY <1>1, <2>2
    <3>3. r[n + 1] = q[n]
      BY <1>2, <1>3, <3>2
    <3> QED BY <2>2, <3>1, <3>2, <3>3 DEF Last
  <2> QED BY <2>1, <2>2
<1> HIDE DEF r, next1, prev1
<1>12. IsList(r, n + 1, s, next1, prev1)
  <2>1. s = IF n + 1 = 0 THEN NULL ELSE r[1]
    BY <1>1, <1>3
  <2> QED BY <1>1, <1>4, <1>5, <1>6, <1>8, <1>9, <2>1 DEF IsList
<1> QED BY <1>10, <1>12 DEF r, next1, prev1

(* The list has gained that session and no other.                          *)
LEMMA FrontMembers ==
    ASSUME NEW q, NEW n \in Nat, NEW s
    PROVE  Members(With(q, n, s), n + 1) = Members(q, n) \cup {s}
<1> DEFINE r == With(q, n, s)
<1>1. \A i \in 1 .. n + 1 : /\ i # 1 => i - 1 \in 1 .. n
                            /\ r[i] = IF i = 1 THEN s ELSE q[i - 1]
  BY DEF With
<1>2. ASSUME NEW i \in 1 .. n + 1 PROVE r[i] \in {q[j] : j \in 1 .. n} \cup {s}
  BY <1>1
<1>3. ASSUME NEW j \in 1 .. n PROVE \E i \in 1 .. n + 1 : r[i] = q[j]
  <2>1. j + 1 \in 1 .. n + 1 /\ j + 1 # 1 /\ (j + 1) - 1 = j
    OBVIOUS
  <2>2. r[j + 1] = q[j]
    BY <1>1, <2>1
  <2> QED BY <2>1, <2>2
<1>4. 1 \in 1 .. n + 1 /\ r[1] = s
  BY <1>1
<1> QED BY <1>2, <1>3, <1>4 DEF Members

(* Neither touches a list that has nothing to do with s, or with what      *)
(* points to it.                                                           *)
LEMMA ListsApart ==
    ASSUME NEW q, NEW n, NEW first, NEW next, NEW prev,
           IsList(q, n, first, next, prev),
           NEW s \in Session, NEW other \in Pointer, \A i \in 1 .. n : q[i] # s
    PROVE  /\ (\A i \in 1 .. n : q[i] # prev[s] /\ q[i] # next[s])
                => IsList(q, n, first, NextWithout(next, prev, s), PrevWithout(next, prev, s))
           /\ (\A i \in 1 .. n : q[i] # other)
                => IsList(q, n, first, NextWith(next, other, s), PrevWith(prev, other, s))
<1>1. /\ next \in [Session -> Pointer] /\ prev \in [Session -> Pointer]
      /\ NULL \in Pointer /\ s \in Pointer
      /\ \A i \in 1 .. n : q[i] \in Session
  BY DEF IsList, Pointer
<1>2. ASSUME \A i \in 1 .. n : q[i] # prev[s] /\ q[i] # next[s]
      PROVE  IsList(q, n, first, NextWithout(next, prev, s), PrevWithout(next, prev, s))
  <2> DEFINE next1 == NextWithout(next, prev, s)
             prev1 == PrevWithout(next, prev, s)
  <2>1. next1 \in [Session -> Pointer] /\ prev1 \in [Session -> Pointer]
    <3>1. next[s] \in Pointer /\ prev[s] \in Pointer
      BY <1>1
    <3> QED BY <1>1, <3>1 DEF NextWithout, PrevWithout
  <2>2. \A i \in 1 .. n : next1[q[i]] = next[q[i]] /\ prev1[q[i]] = prev[q[i]]
    BY <1>1, <1>2 DEF NextWithout, PrevWithout
  <2> HIDE DEF next1, prev1
  <2>3. IsList(q, n, first, next1, prev1)
    BY <2>1, <2>2 DEF IsList
  <2> QED BY <2>3 DEF next1, prev1
<1>3. ASSUME \A i \in 1 .. n : q[i] # other
      PROVE  IsList(q, n, first, NextWith(next, other, s), PrevWith(prev, other, s))
  <2> DEFINE next1 == NextWith(next, other, s)
             prev1 == PrevWith(prev, other, s)
  <2>1. next1 \in [Session -> Pointer] /\ prev1 \in [Session -> Pointer]
    BY <1>1 DEF NextWith, PrevWith
  <2>2. \A i \in 1 .. n : next1[q[i]] = next[q[i]] /\ prev1[q[i]] = prev[q[i]]
    BY <1>1, <1>3 DEF NextWith, PrevWith
  <2> HIDE DEF next1, prev1
  <2>3. IsList(q, n, first, next1, prev1)
    BY <2>1, <2>2 DEF IsList
  <2> QED BY <2>3 DEF next1, prev1
<1> QED BY <1>2, <1>3

(* A walk along the list, by induction over its steps, meets the list and  *)
(* nothing else, and has room for all of it.                               *)
LEMMA WalkIsList ==
    ASSUME NEW q, NEW n, NEW first, NEW next, NEW prev,
           IsList(q, n, first, next, prev)
    PROVE  Service!Walk(first, next) = q
<1> DEFINE N == Cardinality(Session)
           Recursive(g) ==
               g = [i \in 1 .. Service!Cardinality(Session) + 1 |->
                       IF i = 1 THEN first
                       ELSE IF g[i - 1] = NULL THEN NULL ELSE next[g[i - 1]]]
           at == CHOOSE g : Recursive(g)
           met == {i \in DOMAIN at : at[i] # NULL}
           f == [i \in 1 .. N + 1 |-> IF i <= n THEN q[i] ELSE NULL]
<1>1. \A S : Service!Cardinality(S) = Cardinality(S)
  BY DEF Service!Cardinality, Cardinality
<1>2. N \in Nat /\ n \in Nat /\ n <= N
  <2>1. q \in Injection(1 .. n, Session)
    BY DEF IsList, Injection, IsInjective
  <2>2. Cardinality(1 .. n) <= N /\ N \in Nat
    BY <2>1, SessionAssumption, FS_Injection, FS_CardinalityType
  <2>3. n \in Nat
    BY DEF IsList
  <2>4. Cardinality(1 .. n) = n
    BY <2>3, FS_Interval
  <2> QED BY <2>2, <2>3, <2>4
<1>3. /\ \A i \in 1 .. n : q[i] \in Session /\ q[i] # NULL
      /\ \A i \in 1 .. n : next[q[i]] = IF i = n THEN NULL ELSE q[i + 1]
      /\ first = IF n = 0 THEN NULL ELSE q[1]
  BY SessionAssumption DEF IsList
<1> HIDE DEF N
<1>4. ASSUME NEW i \in 1 .. N + 1
      PROVE  f[i] = IF i = 1 THEN first
                    ELSE IF f[i - 1] = NULL THEN NULL ELSE next[f[i - 1]]
  <2>1. CASE i = 1
    BY <1>2, <1>3, <2>1
  <2>2. CASE i # 1
    <3>1. i - 1 \in 1 .. N + 1
      BY <1>2, <2>2
    <3>2. CASE i - 1 <= n
      <4>1. i - 1 \in 1 .. n /\ f[i - 1] = q[i - 1]
        BY <1>2, <3>1, <3>2
      <4>2. next[f[i - 1]] = IF i - 1 = n THEN NULL ELSE q[(i - 1) + 1]
        BY <1>3, <4>1
      <4>3. f[i] = IF i - 1 = n THEN NULL ELSE q[(i - 1) + 1]
        BY <1>2, <3>2
      <4> QED BY <1>3, <2>2, <4>1, <4>2, <4>3
    <3>3. CASE ~(i - 1 <= n)
      BY <1>2, <2>2, <3>1, <3>3
    <3> QED BY <3>2, <3>3
  <2> QED BY <2>1, <2>2
<1>5. Recursive(f)
  <2> DEFINE h == [i \in 1 .. Service!Cardinality(Session) + 1 |->
                       IF i = 1 THEN first
                       ELSE IF f[i - 1] = NULL THEN NULL ELSE next[f[i - 1]]]
  <2>1. Service!Cardinality(Session) = N
    BY <1>1 DEF N
  <2>2. \A i \in 1 .. N + 1 : f[i] = h[i]
    BY <1>4, <2>1
  <2>3. f = h
    BY <2>1, <2>2
  <2> QED BY <2>3
<1>6. Recursive(at)
  BY <1>5
<1>7. at = [i \in 1 .. N + 1 |->
               IF i = 1 THEN first
               ELSE IF at[i - 1] = NULL THEN NULL ELSE next[at[i - 1]]]
  BY <1>1, <1>6 DEF N
<1>8. Service!Walk(first, next) = [i \in 1 .. Service!Cardinality(met) |-> at[i]]
  BY DEF Service!Walk
<1> HIDE DEF at, f
<1> DEFINE S == {m \in Nat : m <= N => at[m + 1] = f[m + 1]}
<1>9. 0 \in S
  <2>1. 1 \in 1 .. N + 1
    BY <1>2
  <2> QED BY <1>4, <1>7, <2>1
<1>10. ASSUME NEW m \in Nat, m \in S PROVE m + 1 \in S
  <2> SUFFICES ASSUME m + 1 <= N PROVE at[(m + 1) + 1] = f[(m + 1) + 1]
    OBVIOUS
  <2>1. at[m + 1] = f[m + 1]
    BY <1>2, <1>10
  <2>2. (m + 1) + 1 \in 1 .. N + 1 /\ (m + 1) + 1 # 1 /\ ((m + 1) + 1) - 1 = m + 1
    BY <1>2
  <2>3. at[(m + 1) + 1] = IF at[m + 1] = NULL THEN NULL ELSE next[at[m + 1]]
    BY <1>7, <2>2
  <2> QED BY <1>4, <2>1, <2>2, <2>3
<1>11. \A m \in Nat : m \in S
  <2> HIDE DEF S
  <2> QED BY <1>9, <1>10, EveryNumber
<1>12. \A i \in 1 .. N + 1 : at[i] = f[i]
  <2> SUFFICES ASSUME NEW i \in 1 .. N + 1 PROVE at[i] = f[i]
    OBVIOUS
  <2>1. i - 1 \in Nat /\ i - 1 <= N /\ (i - 1) + 1 = i
    BY <1>2
  <2> QED BY <1>11, <2>1
<1>13. \A i \in 1 .. N + 1 : at[i] = IF i <= n THEN q[i] ELSE NULL
  BY <1>12 DEF f
<1>14. met = 1 .. n
  <2>1. DOMAIN at = 1 .. N + 1
    BY <1>7
  <2> QED BY <1>2, <1>3, <1>13, <2>1
<1> HIDE DEF met
<1>15. Service!Cardinality(met) = n
  <2>1. Cardinality(1 .. n) = n
    BY <1>2, FS_Interval
  <2>2. Service!Cardinality(met) = Cardinality(1 .. n)
    BY <1>1, <1>14
  <2> QED BY <2>1, <2>2
<1>16. q = [i \in 1 .. n |-> q[i]]
  BY DEF IsList
<1>17. \A i \in 1 .. n : at[i] = q[i]
  BY <1>2, <1>13
<1> QED BY <1>8, <1>15, <1>16, <1>17

(* The LRU list of n sessions in the order q, and the operations on it.    *)
LruList(l, q, n) ==
    /\ l = [head |-> l.head, tail |-> l.tail, next |-> l.next, prev |-> l.prev]
    /\ IsList(q, n, l.head, l.next, l.prev)
    /\ l.tail = Last(q, n)

(* lru_remove takes the session at place k out of the list.                *)
LEMMA LruRemoved ==
    ASSUME NEW l, NEW q, NEW n, LruList(l, q, n), NEW k \in 1 .. n
    PROVE  LruList(Service!LruRemove(l, q[k]), Without(q, n, k), n - 1)
<1> DEFINE s == q[k]
           m == Service!LruRemove(l, s)
<1>1. /\ m.head = IF l.prev[s] = NULL THEN l.next[s] ELSE l.head
      /\ m.tail = IF l.next[s] = NULL THEN l.prev[s] ELSE l.tail
      /\ m.next = NextWithout(l.next, l.prev, s)
      /\ m.prev = PrevWithout(l.next, l.prev, s)
      /\ m = [head |-> m.head, tail |-> m.tail, next |-> m.next, prev |-> m.prev]
  <2>1. m = [head |-> IF l.prev[s] = NULL THEN l.next[s] ELSE l.head,
             tail |-> IF l.next[s] = NULL THEN l.prev[s] ELSE l.tail,
             next |-> NextWithout(l.next, l.prev, s),
             prev |-> PrevWithout(l.next, l.prev, s)]
    <3> DEFINE h == IF l.prev[s] = NULL THEN l.next[s] ELSE l.head
               t == IF l.next[s] = NULL THEN l.prev[s] ELSE l.tail
               x == NextWithout(l.next, l.prev, s)
               v == PrevWithout(l.next, l.prev, s)
    <3>1. m = [l EXCEPT !.head = h, !.tail = t, !.next = x, !.prev = v]
      BY Zenon DEF Service!LruRemove, NextWithout, PrevWithout
    <3>2. l = [head |-> l.head, tail |-> l.tail, next |-> l.next, prev |-> l.prev]
      BY DEF LruList
    <3> HIDE DEF h, t, x, v, m
    <3>3. m = [head |-> h, tail |-> t, next |-> x, prev |-> v]
      BY <3>1, <3>2
    <3> QED BY <3>3 DEF h, t, x, v
  <2> HIDE DEF m, s
  <2> QED BY <2>1
<1>2. /\ IsList(Without(q, n, k), n - 1,
                IF l.prev[s] = NULL THEN l.next[s] ELSE l.head,
                NextWithout(l.next, l.prev, s), PrevWithout(l.next, l.prev, s))
      /\ (IF l.next[s] = NULL THEN l.prev[s] ELSE Last(q, n)) = Last(Without(q, n, k), n - 1)
  BY TakenOut DEF LruList
<1> HIDE DEF m, s
<1>3. LruList(m, Without(q, n, k), n - 1)
  <2>1. l.tail = Last(q, n)
    BY DEF LruList
  <2> QED BY <1>1, <1>2, <2>1 DEF LruList
<1> QED BY <1>3 DEF m, s

(* lru_push_front makes a session the first of the list.                   *)
LEMMA LruPushed ==
    ASSUME NEW l, NEW q, NEW n, LruList(l, q, n),
           NEW s \in Session, \A i \in 1 .. n : q[i] # s
    PROVE  LruList(Service!LruPushFront(l, s), With(q, n, s), n + 1)
<1> DEFINE m == Service!LruPushFront(l, s)
<1>1. /\ m.head = s
      /\ m.tail = IF l.head = NULL THEN s ELSE l.tail
      /\ m.next = NextWith(l.next, l.head, s)
      /\ m.prev = PrevWith(l.prev, l.head, s)
      /\ m = [head |-> m.head, tail |-> m.tail, next |-> m.next, prev |-> m.prev]
  BY DEF Service!LruPushFront, NextWith, PrevWith
<1>2. /\ IsList(With(q, n, s), n + 1, s,
                NextWith(l.next, l.head, s), PrevWith(l.prev, l.head, s))
      /\ (IF l.head = NULL THEN s ELSE Last(q, n)) = Last(With(q, n, s), n + 1)
  BY PutInFront DEF LruList
<1> HIDE DEF m
<1>3. LruList(m, With(q, n, s), n + 1)
  <2>1. l.tail = Last(q, n)
    BY DEF LruList
  <2> QED BY <1>1, <1>2, <2>1 DEF LruList
<1> QED BY <1>3 DEF m

(* The session at place k comes to the front.                              *)
Fronted(q, n, k) ==
    [i \in 1 .. n |-> IF i = 1 THEN q[k] ELSE IF i <= k THEN q[i - 1] ELSE q[i]]

(* Both, one after the other, move it there and keep the rest.             *)
LEMMA LruFronted ==
    ASSUME NEW l, NEW q, NEW n, LruList(l, q, n), NEW k \in 1 .. n
    PROVE  /\ LruList(Service!LruPushFront(Service!LruRemove(l, q[k]), q[k]),
                      Fronted(q, n, k), n)
           /\ Members(Fronted(q, n, k), n) = Members(q, n)
<1> DEFINE s == q[k]
           w == Without(q, n, k)
           r == With(w, n - 1, s)
<1>1. /\ n \in Nat /\ s \in Session /\ (n - 1) + 1 = n
      /\ IsList(q, n, l.head, l.next, l.prev)
  BY DEF LruList, IsList
<1>2. LruList(Service!LruRemove(l, s), w, n - 1)
  BY LruRemoved
<1>3. Members(w, n - 1) = Members(q, n) \ {s}
  BY <1>1, TakenOut
<1>4. \A i \in 1 .. n - 1 : w[i] # s
  <2> HIDE DEF w
  <2> QED BY <1>3 DEF Members
<1>6. r = Fronted(q, n, k)
  <2>1. ASSUME NEW i \in 1 .. n
        PROVE  (IF i = 1 THEN s ELSE w[i - 1])
                  = IF i = 1 THEN q[k] ELSE IF i <= k THEN q[i - 1] ELSE q[i]
    <3>1. CASE i = 1
      BY <3>1
    <3>2. CASE i # 1
      <4>1. i - 1 \in 1 .. n - 1 /\ (i - 1) + 1 = i /\ (i - 1 < k <=> i <= k)
        BY <1>1, <3>2
      <4> QED BY <3>2, <4>1 DEF Without
    <3> QED BY <3>1, <3>2
  <2> HIDE DEF w
  <2> QED BY <1>1, <2>1 DEF With, Fronted
<1> HIDE DEF s, w
<1>7. LruList(Service!LruPushFront(Service!LruRemove(l, s), s), r, n)
  BY <1>1, <1>2, <1>4, LruPushed
<1>8. Members(r, n) = Members(w, n - 1) \cup {s}
  BY <1>1, FrontMembers
<1>9. s \in Members(q, n)
  BY DEF s, Members
<1> HIDE DEF r
<1> QED BY <1>3, <1>6, <1>7, <1>8, <1>9 DEF s

(* The hash holds the sessions of E, each in the chain of its bucket.      *)
HashOf(h, id, E) ==
    /\ h = [first |-> h.first, next |-> h.next, prev |-> h.prev]
    /\ h.first \in [Bucket -> Pointer]
    /\ h.next \in [Session -> Pointer] /\ h.prev \in [Session -> Pointer]
    /\ \A b \in Bucket : \E q, n :
          /\ IsList(q, n, h.first[b], h.next, h.prev)
          /\ Members(q, n) = {s \in E : BucketOf[id[s]] = b}

(* hash_remove takes a session out of the chain of its bucket and leaves   *)
(* the chains of all other buckets alone.                                  *)
LEMMA HashRemoved ==
    ASSUME NEW h, NEW id \in [Session -> Sid], NEW E, E \subseteq Session,
           HashOf(h, id, E), NEW s \in E
    PROVE  HashOf(Service!HashRemove(h, id, s), id, E \ {s})
<1> DEFINE b0 == BucketOf[id[s]]
           m == Service!HashRemove(h, id, s)
           rest == IF h.prev[s] = NULL THEN h.next[s] ELSE h.first[b0]
<1>1. s \in Session /\ b0 \in Bucket
  BY BucketAssumption
<1>2. /\ m = [first |-> m.first, next |-> m.next, prev |-> m.prev]
      /\ m.first = [h.first EXCEPT ![b0] =
                       IF h.prev[s] = NULL THEN h.next[s] ELSE h.first[b0]]
      /\ m.next = NextWithout(h.next, h.prev, s)
      /\ m.prev = PrevWithout(h.next, h.prev, s)
  BY DEF Service!HashRemove, NextWithout, PrevWithout
<1>3. /\ h.first \in [Bucket -> Pointer]
      /\ h.next[s] \in Pointer /\ h.prev[s] \in Pointer
      /\ NULL \in Pointer
      /\ h.next \in [Session -> Pointer] /\ h.prev \in [Session -> Pointer]
  BY <1>1 DEF HashOf, Pointer
<1>4. PICK q0, n0 : /\ IsList(q0, n0, h.first[b0], h.next, h.prev)
                    /\ Members(q0, n0) = {r \in E : BucketOf[id[r]] = b0}
  BY <1>1 DEF HashOf
<1>5. PICK k \in 1 .. n0 : q0[k] = s
  BY <1>4 DEF Members
<1> HIDE DEF m, b0
<1>6. m.first \in [Bucket -> Pointer] /\ m.first[b0] = rest
  BY <1>1, <1>2, <1>3
<1>7. m.next \in [Session -> Pointer] /\ m.prev \in [Session -> Pointer]
  BY <1>2, <1>3 DEF NextWithout, PrevWithout
<1>8. ASSUME NEW b \in Bucket
      PROVE  \E q, n : /\ IsList(q, n, m.first[b], m.next, m.prev)
                       /\ Members(q, n) = {r \in E \ {s} : BucketOf[id[r]] = b}
  <2>1. CASE b = b0
    <3>1. IsList(Without(q0, n0, k), n0 - 1, rest,
                 NextWithout(h.next, h.prev, s), PrevWithout(h.next, h.prev, s))
      BY <1>4, <1>5, TakenOut
    <3>2. Members(Without(q0, n0, k), n0 - 1) = Members(q0, n0) \ {s}
      BY <1>4, <1>5, TakenOut
    <3>3. Members(q0, n0) \ {s} = {r \in E \ {s} : BucketOf[id[r]] = b}
      BY <1>4, <2>1
    <3>4. IsList(Without(q0, n0, k), n0 - 1, m.first[b], m.next, m.prev)
      BY <1>2, <1>6, <2>1, <3>1
    <3>5. Members(Without(q0, n0, k), n0 - 1) = {r \in E \ {s} : BucketOf[id[r]] = b}
      BY <3>2, <3>3
    <3> QED BY <3>4, <3>5
  <2>2. CASE b # b0
    <3>1. PICK q, n : /\ IsList(q, n, h.first[b], h.next, h.prev)
                      /\ Members(q, n) = {r \in E : BucketOf[id[r]] = b}
      BY DEF HashOf
    <3>2. \A r \in Members(q0, n0) : BucketOf[id[r]] # b
      BY <1>4, <2>2
    <3>3. s \in Members(q0, n0)
      BY <1>5 DEF Members
    <3>4. /\ h.next[s] \in Members(q0, n0) \cup {NULL}
          /\ h.prev[s] \in Members(q0, n0) \cup {NULL}
      <4>1. /\ h.next[s] = IF k = n0 THEN NULL ELSE q0[k + 1]
            /\ h.prev[s] = IF k = 1 THEN NULL ELSE q0[k - 1]
            /\ n0 \in Nat
        BY <1>4, <1>5 DEF IsList
      <4>2. (k # n0 => k + 1 \in 1 .. n0) /\ (k # 1 => k - 1 \in 1 .. n0)
        BY <4>1
      <4> QED BY <4>1, <4>2 DEF Members
    <3>5. \A i \in 1 .. n : /\ q[i] \in Session /\ q[i] # NULL
                            /\ BucketOf[id[q[i]]] = b
      <4>1. \A i \in 1 .. n : q[i] \in Members(q, n)
        BY DEF Members
      <4>2. \A i \in 1 .. n : q[i] \in Session /\ q[i] # NULL
        BY <3>1, SessionAssumption DEF IsList
      <4> QED BY <3>1, <4>1, <4>2
    <3>6. \A i \in 1 .. n : q[i] # s /\ q[i] # h.next[s] /\ q[i] # h.prev[s]
      BY <3>2, <3>3, <3>4, <3>5
    <3>7. IsList(q, n, h.first[b], NextWithout(h.next, h.prev, s), PrevWithout(h.next, h.prev, s))
      BY <1>1, <1>3, <3>1, <3>6, ListsApart
    <3>8. m.first[b] = h.first[b]
      BY <1>2, <1>3, <2>2
    <3>9. Members(q, n) = {r \in E \ {s} : BucketOf[id[r]] = b}
      BY <3>1, <3>2, <3>3
    <3>10. IsList(q, n, m.first[b], m.next, m.prev)
      BY <1>2, <3>7, <3>8
    <3> QED BY <3>9, <3>10
  <2> QED BY <2>1, <2>2
<1>9. HashOf(m, id, E \ {s})
  BY <1>2, <1>6, <1>7, <1>8 DEF HashOf
<1> QED BY <1>9 DEF m

(* hash_insert puts it first in the chain of its bucket and leaves the     *)
(* others alone.                                                           *)
LEMMA HashInserted ==
    ASSUME NEW h, NEW id \in [Session -> Sid], NEW E, E \subseteq Session,
           HashOf(h, id, E), NEW s \in Session, s \notin E
    PROVE  HashOf(Service!HashInsert(h, id, s), id, E \cup {s})
<1> DEFINE b0 == BucketOf[id[s]]
           m == Service!HashInsert(h, id, s)
<1>1. b0 \in Bucket
  BY BucketAssumption
<1>2. /\ m = [first |-> m.first, next |-> m.next, prev |-> m.prev]
      /\ m.first = [h.first EXCEPT ![b0] = s]
      /\ m.next = NextWith(h.next, h.first[b0], s)
      /\ m.prev = PrevWith(h.prev, h.first[b0], s)
  BY DEF Service!HashInsert, NextWith, PrevWith
<1>3. /\ h.first \in [Bucket -> Pointer] /\ h.first[b0] \in Pointer
      /\ h.next \in [Session -> Pointer] /\ h.prev \in [Session -> Pointer]
      /\ s \in Pointer /\ NULL \in Pointer
  BY <1>1 DEF HashOf, Pointer
<1>4. PICK q0, n0 : /\ IsList(q0, n0, h.first[b0], h.next, h.prev)
                    /\ Members(q0, n0) = {r \in E : BucketOf[id[r]] = b0}
  BY <1>1 DEF HashOf
<1> HIDE DEF m, b0
<1>5. m.first \in [Bucket -> Pointer] /\ m.first[b0] = s
  BY <1>1, <1>2, <1>3
<1>6. m.next \in [Session -> Pointer] /\ m.prev \in [Session -> Pointer]
  BY <1>2, <1>3 DEF NextWith, PrevWith
<1>7. ASSUME NEW b \in Bucket
      PROVE  \E q, n : /\ IsList(q, n, m.first[b], m.next, m.prev)
                       /\ Members(q, n) = {r \in E \cup {s} : BucketOf[id[r]] = b}
  <2>1. CASE b = b0
    <3>1. \A i \in 1 .. n0 : q0[i] # s
      <4>1. \A i \in 1 .. n0 : q0[i] \in Members(q0, n0)
        BY DEF Members
      <4> QED BY <1>4, <4>1
    <3>2. IsList(With(q0, n0, s), n0 + 1, s,
                 NextWith(h.next, h.first[b0], s), PrevWith(h.prev, h.first[b0], s))
      BY <1>4, <3>1, PutInFront
    <3>3. Members(With(q0, n0, s), n0 + 1) = Members(q0, n0) \cup {s}
      BY <1>4, FrontMembers DEF IsList
    <3>4. Members(q0, n0) \cup {s} = {r \in E \cup {s} : BucketOf[id[r]] = b}
      BY <1>4, <2>1 DEF b0
    <3>5. IsList(With(q0, n0, s), n0 + 1, m.first[b], m.next, m.prev)
      BY <1>2, <1>5, <2>1, <3>2
    <3>6. Members(With(q0, n0, s), n0 + 1) = {r \in E \cup {s} : BucketOf[id[r]] = b}
      BY <3>3, <3>4
    <3> QED BY <3>5, <3>6
  <2>2. CASE b # b0
    <3>1. PICK q, n : /\ IsList(q, n, h.first[b], h.next, h.prev)
                      /\ Members(q, n) = {r \in E : BucketOf[id[r]] = b}
      BY DEF HashOf
    <3>2. \A i \in 1 .. n : /\ q[i] \in Session /\ q[i] # NULL /\ q[i] # s
                            /\ BucketOf[id[q[i]]] = b
      <4>1. \A i \in 1 .. n : q[i] \in Members(q, n)
        BY DEF Members
      <4>2. \A i \in 1 .. n : q[i] \in Session /\ q[i] # NULL
        BY <3>1, SessionAssumption DEF IsList
      <4> QED BY <3>1, <4>1, <4>2
    <3>3. \A i \in 1 .. n : q[i] # h.first[b0]
      <4>1. h.first[b0] = IF n0 = 0 THEN NULL ELSE q0[1]
        BY <1>4 DEF IsList
      <4>2. n0 # 0 => q0[1] \in Members(q0, n0)
        <5>1. n0 \in Nat
          BY <1>4 DEF IsList
        <5>2. n0 # 0 => 1 \in 1 .. n0
          BY <5>1
        <5> QED BY <5>2 DEF Members
      <4> QED BY <1>4, <2>2, <3>2, <4>1, <4>2
    <3>4. IsList(q, n, h.first[b], NextWith(h.next, h.first[b0], s), PrevWith(h.prev, h.first[b0], s))
      BY <1>3, <3>1, <3>2, <3>3, ListsApart
    <3>5. m.first[b] = h.first[b]
      BY <1>2, <1>3, <2>2
    <3>6. Members(q, n) = {r \in E \cup {s} : BucketOf[id[r]] = b}
      BY <2>2, <3>1 DEF b0
    <3>7. IsList(q, n, m.first[b], m.next, m.prev)
      BY <1>2, <3>4, <3>5
    <3> QED BY <3>6, <3>7
  <2> QED BY <2>1, <2>2
<1>8. HashOf(m, id, E \cup {s})
  BY <1>2, <1>5, <1>6, <1>7 DEF HashOf
<1> QED BY <1>8 DEF m

(* Only the ids of the sessions in the hash say where they are.            *)
LEMMA HashRenamed ==
    ASSUME NEW h, NEW id, NEW id1, NEW E, HashOf(h, id, E),
           \A s \in E : id1[s] = id[s]
    PROVE  HashOf(h, id1, E)
<1>1. \A b \in Bucket : {s \in E : BucketOf[id1[s]] = b} = {s \in E : BucketOf[id[s]] = b}
  OBVIOUS
<1> QED BY <1>1 DEF HashOf

(* service_find returns the session that has the id, or that none has it.  *)
LEMMA ServiceFound ==
    ASSUME sid \in [Session -> Sid], HashOf(hash, sid, Session), NEW x \in Sid
    PROVE  \/ /\ Service!ServiceFind(x) = NULL
              /\ \A s \in Session : sid[s] # x
           \/ /\ Service!ServiceFind(x) \in Session
              /\ sid[Service!ServiceFind(x)] = x
<1> DEFINE b == BucketOf[x]
<1>1. b \in Bucket
  BY BucketAssumption
<1>2. PICK q, n : /\ IsList(q, n, hash.first[b], hash.next, hash.prev)
                  /\ Members(q, n) = {s \in Session : BucketOf[sid[s]] = b}
  BY <1>1 DEF HashOf
<1>3. Service!Chain(b) = q
  BY <1>2, WalkIsList DEF Service!Chain
<1>4. q \in [1 .. n -> Session] /\ DOMAIN q = 1 .. n
  BY <1>2 DEF IsList
<1> DEFINE found == {i \in 1 .. n : sid[q[i]] = x}
           least == CHOOSE i \in found : \A j \in found : i <= j
<1>5. Service!ServiceFind(x) = IF found = {} THEN NULL ELSE q[least]
  <2>1. Service!ServiceFind(x) =
          LET found1 == {i \in DOMAIN q : sid[q[i]] = x}
          IN  IF found1 = {} THEN NULL
              ELSE q[CHOOSE i \in found1 : \A j \in found1 : i <= j]
    BY <1>3 DEF Service!ServiceFind
  <2> QED BY <1>4, <2>1
<1>6. CASE found = {}
  <2>1. ASSUME NEW s \in Session, sid[s] = x PROVE FALSE
    <3>1. s \in Members(q, n)
      BY <1>2, <2>1
    <3>2. PICK i \in 1 .. n : q[i] = s
      BY <3>1 DEF Members
    <3> QED BY <1>6, <2>1, <3>2
  <2> QED BY <1>5, <1>6, <2>1
<1>7. CASE found # {}
  <2>1. found \subseteq Nat
    OBVIOUS
  <2>2. \E i \in found : \A j \in found : i <= j
    <3> HIDE DEF found
    <3> QED BY <1>7, <2>1, LeastNumber
  <2>3. least \in found
    <3> HIDE DEF found
    <3> QED BY <2>2
  <2> HIDE DEF least
  <2> QED BY <1>4, <1>5, <1>7, <2>3
<1> QED BY <1>6, <1>7

-----------------------------------------------------------------------------
(* The first n sessions of order are entered.                              *)
EnteredUpTo(st, order, id, n) ==
    /\ HashOf(st.h, id, Members(order, n))
    /\ \E q : LruList(st.l, q, n) /\ Members(q, n) = Members(order, n)

(* One more session is entered.                                            *)
LEMMA EnteredNext ==
    ASSUME NEW N \in Nat, NEW order \in [1 .. N -> Session],
           \A i, j \in 1 .. N : order[i] = order[j] => i = j,
           NEW id \in [Session -> Sid], NEW st, NEW n \in Nat, n + 1 <= N,
           EnteredUpTo(st, order, id, n)
    PROVE  EnteredUpTo([h |-> Service!HashInsert(st.h, id, order[n + 1]),
                        l |-> Service!LruPushFront(st.l, order[n + 1])],
                       order, id, n + 1)
<1> DEFINE s == order[n + 1]
           h1 == Service!HashInsert(st.h, id, s)
           l1 == Service!LruPushFront(st.l, s)
<1>1. n + 1 \in 1 .. N /\ s \in Session
  OBVIOUS
<1>2. Members(order, n + 1) = Members(order, n) \cup {s}
  <2>1. ASSUME NEW i \in 1 .. n + 1 PROVE order[i] \in {order[j] : j \in 1 .. n} \cup {s}
    OBVIOUS
  <2>2. (\A j \in 1 .. n : j \in 1 .. n + 1) /\ n + 1 \in 1 .. n + 1
    OBVIOUS
  <2> QED BY <2>1, <2>2 DEF Members
<1>3. s \notin Members(order, n)
  <2>1. \A i \in 1 .. n : i \in 1 .. N /\ i # n + 1
    OBVIOUS
  <2> QED BY <1>1, <2>1 DEF Members
<1>4. Members(order, n) \subseteq Session
  <2>1. \A i \in 1 .. n : i \in 1 .. N
    OBVIOUS
  <2> QED BY <2>1 DEF Members
<1>5. PICK q : LruList(st.l, q, n) /\ Members(q, n) = Members(order, n)
  BY DEF EnteredUpTo
<1>6. \A i \in 1 .. n : q[i] # s
  <2>1. \A i \in 1 .. n : q[i] \in Members(q, n)
    BY DEF Members
  <2> QED BY <1>3, <1>5, <2>1
<1> HIDE DEF s
<1>7. LruList(l1, With(q, n, s), n + 1)
  BY <1>1, <1>5, <1>6, LruPushed
<1>8. Members(With(q, n, s), n + 1) = Members(order, n + 1)
  <2>1. Members(With(q, n, s), n + 1) = Members(q, n) \cup {s}
    BY FrontMembers
  <2> QED BY <1>2, <1>5, <2>1
<1>9. HashOf(h1, id, Members(order, n) \cup {s})
  <2>1. HashOf(st.h, id, Members(order, n))
    BY DEF EnteredUpTo
  <2> QED BY <1>1, <1>3, <1>4, <2>1, HashInserted
<1> HIDE DEF h1, l1
<1>10. EnteredUpTo([h |-> h1, l |-> l1], order, id, n + 1)
  <2>1. HashOf(h1, id, Members(order, n + 1))
    BY <1>2, <1>9
  <2> QED BY <1>7, <1>8, <2>1 DEF EnteredUpTo
<1> QED BY <1>10 DEF s, h1, l1

(* Nothing is entered.                                                     *)
NothingEntered ==
    [h |-> [first |-> [b \in Bucket |-> NULL],
            next |-> [s \in Session |-> NULL],
            prev |-> [s \in Session |-> NULL]],
     l |-> [head |-> NULL, tail |-> NULL,
            next |-> [s \in Session |-> NULL],
            prev |-> [s \in Session |-> NULL]]]

(* Before the first session is entered both structures are empty.          *)
LEMMA EnteredNothing ==
    ASSUME NEW order, NEW id
    PROVE  EnteredUpTo(NothingEntered, order, id, 0)
<1> DEFINE none == [i \in 1 .. 0 |-> NULL]
           nowhere == [s \in Session |-> NULL]
<1>1. nowhere \in [Session -> Pointer]
  BY DEF Pointer
<1>2. none \in [1 .. 0 -> Session] /\ \A i \in 1 .. 0 : FALSE
  OBVIOUS
<1>3. Members(order, 0) = {} /\ Members(none, 0) = {}
  BY <1>2 DEF Members
<1>4. IsList(none, 0, NULL, nowhere, nowhere)
  <2> HIDE DEF none, nowhere
  <2> QED BY <1>1, <1>2 DEF IsList
<1>5. /\ NothingEntered.h = [first |-> [b \in Bucket |-> NULL], next |-> nowhere, prev |-> nowhere]
      /\ NothingEntered.l = [head |-> NULL, tail |-> NULL, next |-> nowhere, prev |-> nowhere]
  BY DEF NothingEntered
<1>6. LruList(NothingEntered.l, none, 0)
  <2> HIDE DEF none, nowhere
  <2> QED BY <1>4, <1>5 DEF LruList, Last
<1>7. HashOf(NothingEntered.h, id, {})
  <2> HIDE DEF none, nowhere
  <2>1. [b \in Bucket |-> NULL] \in [Bucket -> Pointer]
    BY DEF Pointer
  <2>2. \A b \in Bucket : NothingEntered.h.first[b] = NULL
    BY <1>5
  <2> QED BY <1>1, <1>3, <1>4, <1>5, <2>1, <2>2 DEF HashOf
<1> QED BY <1>3, <1>6, <1>7 DEF EnteredUpTo

(* After the last one every session is in the chain of its bucket and in   *)
(* the LRU list.                                                           *)
LEMMA EnteredAll ==
    ASSUME NEW order \in Service!Order, NEW id \in [Session -> Sid]
    PROVE  EnteredUpTo(Service!Entered(order, id), order, id, Cardinality(Session))
           /\ Members(order, Cardinality(Session)) = Session
<1> DEFINE N == Cardinality(Session)
<1>1. N \in Nat /\ Service!Cardinality(Session) = N
  BY SessionAssumption, FS_CardinalityType DEF Service!Cardinality, Cardinality
<1> HIDE DEF N
<1>2. /\ order \in [1 .. N -> Session]
      /\ {order[i] : i \in 1 .. N} = Session
  BY <1>1 DEF Service!Order
<1>3. \A i, j \in 1 .. N : order[i] = order[j] => i = j
  <2>1. order \in Surjection(1 .. N, Session)
    BY <1>2 DEF Surjection
  <2>2. IsFiniteSet(1 .. N) /\ Cardinality(1 .. N) = Cardinality(Session)
    BY <1>1, FS_Interval DEF N
  <2>3. order \in Injection(1 .. N, Session)
    BY <2>1, <2>2, FS_SurjSameCardinalityImpliesInj
  <2> QED BY <2>3 DEF Injection, IsInjective
<1>4. Len(order) = N
  BY <1>1, <1>2
<1> DEFINE H == [first : [Bucket -> Pointer], next : [Session -> Pointer],
                 prev : [Session -> Pointer]]
           L == [head : Pointer, tail : Pointer, next : [Session -> Pointer],
                 prev : [Session -> Pointer]]
           X == [h : H, l : L]
           Grown(st, s) == [h |-> Service!HashInsert(st.h, id, s),
                            l |-> Service!LruPushFront(st.l, s)]
           Succ == [n \in 1 .. N |-> [st \in X |-> Grown(st, order[n])]]
           Recursive(g) ==
               g = [n \in 0 .. Len(order) |->
                       IF n = 0 THEN NothingEntered
                       ELSE [h |-> Service!HashInsert(g[n - 1].h, id, order[n]),
                             l |-> Service!LruPushFront(g[n - 1].l, order[n])]]
           after == CHOOSE g : Recursive(g)
<1>5. NULL \in Pointer /\ Session \subseteq Pointer
  BY DEF Pointer
<1>6. NothingEntered \in X
  BY <1>5 DEF NothingEntered
<1>7. ASSUME NEW st \in X, NEW s \in Session PROVE Grown(st, s) \in X
  <2> DEFINE b == BucketOf[id[s]]
  <2>1. b \in Bucket
    BY BucketAssumption
  <2>2. /\ st.h \in H /\ st.l \in L
        /\ st.h.first \in [Bucket -> Pointer]
        /\ st.h.next \in [Session -> Pointer] /\ st.h.prev \in [Session -> Pointer]
        /\ st.l.head \in Pointer /\ st.l.tail \in Pointer
        /\ st.l.next \in [Session -> Pointer] /\ st.l.prev \in [Session -> Pointer]
    OBVIOUS
  <2>3. st.h.first[b] \in Pointer
    BY <2>1, <2>2
  <2>4. Service!HashInsert(st.h, id, s) \in H
    BY <1>5, <2>2, <2>3 DEF Service!HashInsert
  <2>5. Service!LruPushFront(st.l, s) \in L
    BY <1>5, <2>2 DEF Service!LruPushFront
  <2> HIDE DEF H, L
  <2> QED BY <2>4, <2>5
<1>8. Succ \in [1 .. N -> [X -> X]]
  <2> HIDE DEF X, Grown
  <2>1. \A n \in 1 .. N : order[n] \in Session
    BY <1>2
  <2>2. \A n \in 1 .. N : [st \in X |-> Grown(st, order[n])] \in [X -> X]
    BY <1>7, <2>1
  <2> QED BY <2>2
<1>9. PICK f \in [0 .. N -> X] :
         f[0] = NothingEntered /\ \A n \in 1 .. N : f[n] = Succ[n][f[n - 1]]
  <2> HIDE DEF X, Succ
  <2> QED BY <1>1, <1>6, <1>8, RecursionOnInterval
<1>10. Recursive(f)
  <2> DEFINE g == [n \in 0 .. Len(order) |->
                      IF n = 0 THEN NothingEntered
                      ELSE [h |-> Service!HashInsert(f[n - 1].h, id, order[n]),
                            l |-> Service!LruPushFront(f[n - 1].l, order[n])]]
  <2>1. ASSUME NEW n \in 0 .. N PROVE f[n] = g[n]
    <3>1. CASE n = 0
      BY <1>4, <1>9, <3>1
    <3>2. CASE n # 0
      <4>1. n \in 1 .. N /\ n - 1 \in 0 .. N
        BY <1>1, <3>2
      <4>2. f[n - 1] \in X
        <5> HIDE DEF X
        <5> QED BY <1>9, <4>1
      <4>3. f[n] = Grown(f[n - 1], order[n])
        <5> HIDE DEF X, Grown
        <5> QED BY <1>9, <4>1, <4>2
      <4> HIDE DEF X
      <4> QED BY <1>4, <3>2, <4>3
    <3> QED BY <3>1, <3>2
  <2>2. f \in [0 .. N -> X] /\ DOMAIN f = 0 .. N
    <3> HIDE DEF X
    <3> QED BY <1>9
  <2>3. f = [n \in 0 .. N |-> f[n]]
    <3> HIDE DEF X
    <3> QED BY <2>2
  <2>4. f = g
    <3>1. g = [n \in 0 .. N |-> g[n]]
      BY <1>4
    <3> HIDE DEF g
    <3> QED BY <2>1, <2>3, <3>1
  <2> QED BY <2>4
<1>11. Recursive(after)
  <2> HIDE DEF Recursive
  <2> QED BY <1>10
<1>12. /\ after[0] = NothingEntered
       /\ \A n \in 1 .. N :
             after[n] = [h |-> Service!HashInsert(after[n - 1].h, id, order[n]),
                         l |-> Service!LruPushFront(after[n - 1].l, order[n])]
  <2> HIDE DEF after
  <2>1. \A n \in 1 .. N : n \in 0 .. N /\ n # 0
    BY <1>1
  <2>2. 0 \in 0 .. N
    BY <1>1
  <2> QED BY <1>4, <1>11, <2>1, <2>2
<1>13. Service!Entered(order, id) = after[N]
  BY <1>4 DEF Service!Entered, NothingEntered
<1> HIDE DEF after
<1> DEFINE S == {n \in Nat : n <= N => EnteredUpTo(after[n], order, id, n)}
<1>14. 0 \in S
  BY <1>12, EnteredNothing
<1>15. ASSUME NEW n \in Nat, n \in S PROVE n + 1 \in S
  <2> SUFFICES ASSUME n + 1 <= N PROVE EnteredUpTo(after[n + 1], order, id, n + 1)
    OBVIOUS
  <2>1. EnteredUpTo(after[n], order, id, n)
    BY <1>1, <1>15
  <2>2. EnteredUpTo([h |-> Service!HashInsert(after[n].h, id, order[n + 1]),
                     l |-> Service!LruPushFront(after[n].l, order[n + 1])],
                    order, id, n + 1)
    BY <1>1, <1>2, <1>3, <2>1, EnteredNext
  <2>3. n + 1 \in 1 .. N /\ (n + 1) - 1 = n
    BY <1>1
  <2>4. after[n + 1] = [h |-> Service!HashInsert(after[n].h, id, order[n + 1]),
                        l |-> Service!LruPushFront(after[n].l, order[n + 1])]
    BY <1>12, <2>3
  <2> QED BY <2>2, <2>4
<1>16. \A n \in Nat : n \in S
  <2> HIDE DEF S
  <2> QED BY <1>14, <1>15, EveryNumber
<1>17. EnteredUpTo(after[N], order, id, N)
  BY <1>1, <1>16
<1>18. Members(order, N) = Session
  BY <1>2 DEF Members
<1> QED BY <1>13, <1>17, <1>18 DEF N

-----------------------------------------------------------------------------
(* Both structures are whole, and hold every session.                      *)
ServiceOrder(q) ==
    /\ LruList(lru, q, Cardinality(Session))
    /\ Members(q, Cardinality(Session)) = Session
ServiceOK == /\ sid \in Service!Distinct
             /\ HashOf(hash, sid, Session)
             /\ \E q : ServiceOrder(q)

(* The ids of the sessions of a list, in its order.                        *)
IdsOf(id, q, n) == [i \in 1 .. n |-> id[q[i]]]

(* What the run reads off the pointers, of a list that is whole.           *)
LEMMA IdsRead ==
    ASSUME NEW l, NEW q, LruList(l, q, Cardinality(Session)), NEW id
    PROVE  LET order == Service!Walk(l.head, l.next) IN
           [i \in DOMAIN order |-> id[order[i]]] = IdsOf(id, q, Cardinality(Session))
<1> DEFINE N == Cardinality(Session)
<1>1. IsList(q, N, l.head, l.next, l.prev)
  BY DEF LruList
<1>2. Service!Walk(l.head, l.next) = q
  BY <1>1, WalkIsList
<1>3. DOMAIN q = 1 .. N
  BY <1>1 DEF IsList
<1> QED BY <1>2, <1>3 DEF IdsOf

(* The order that is read off the pointers is that of the list, and the    *)
(* list is valid.                                                          *)
LEMMA OrderRead ==
    ASSUME NEW q, ServiceOrder(q)
    PROVE  /\ Service!LruOrder = q
           /\ Service!CachedIds = IdsOf(sid, q, Cardinality(Session))
           /\ Service!ServiceIsValid
<1> DEFINE N == Cardinality(Session)
<1>1. /\ IsList(q, N, lru.head, lru.next, lru.prev)
      /\ lru.tail = Last(q, N)
  BY DEF ServiceOrder, LruList
<1>2. Service!LruOrder = q
  BY <1>1, WalkIsList DEF Service!LruOrder
<1>3. N \in Nat /\ N # 0 /\ Service!Cardinality(Session) = N
  BY SessionAssumption, FS_CardinalityType, FS_EmptySet
     DEF Service!Cardinality, Cardinality
<1> HIDE DEF N
<1>4. DOMAIN q = 1 .. N /\ Len(q) = N
  BY <1>1, <1>3 DEF IsList
<1>5. \A i \in 1 .. N : lru.prev[q[i]] = IF i = 1 THEN NULL ELSE q[i - 1]
  BY <1>1 DEF IsList
<1>6. Service!ServiceIsValid
  BY <1>1, <1>2, <1>3, <1>4, <1>5 DEF Service!ServiceIsValid, Last
<1>7. Service!CachedIds = IdsOf(sid, q, N)
  BY <1>2, <1>4 DEF Service!CachedIds, IdsOf
<1> QED BY <1>2, <1>6, <1>7 DEF N

(* The sessions are entered when the service is created.                   *)
LEMMA ServiceInit == Service!Init => ServiceOK
<1> SUFFICES ASSUME Service!Init PROVE ServiceOK
  OBVIOUS
<1>1. sid \in Service!Distinct /\ sid \in [Session -> Sid]
  BY DEF Service!Init, Service!Distinct
<1>2. PICK order \in Service!Order : /\ hash = Service!Entered(order, sid).h
                                     /\ lru = Service!Entered(order, sid).l
  BY DEF Service!Init
<1>3. /\ EnteredUpTo(Service!Entered(order, sid), order, sid, Cardinality(Session))
      /\ Members(order, Cardinality(Session)) = Session
  BY <1>1, EnteredAll
<1>4. HashOf(hash, sid, Session)
  BY <1>2, <1>3 DEF EnteredUpTo
<1>5. PICK q : LruList(lru, q, Cardinality(Session)) /\ Members(q, Cardinality(Session)) = Session
  BY <1>2, <1>3 DEF EnteredUpTo
<1> QED BY <1>1, <1>4, <1>5 DEF ServiceOK, ServiceOrder

(* A request that is served from the cache brings its session to the front.*)
LEMMA HitStep ==
    ASSUME ServiceOK, NEW q, ServiceOrder(q), NEW k \in 1 .. Cardinality(Session),
           Service!Hit(q[k], TRUE)
    PROVE  /\ ServiceOK' /\ sid' = sid
           /\ ServiceOrder(Fronted(q, Cardinality(Session), k))'
<1> DEFINE N == Cardinality(Session)
           r == Fronted(q, N, k)
<1>1. /\ lru' = Service!LruTouch(lru, q[k])
      /\ sid' = sid /\ hash' = hash
  BY DEF Service!Hit
<1>2. /\ LruList(lru, q, N) /\ Members(q, N) = Session
      /\ IsList(q, N, lru.head, lru.next, lru.prev)
  BY DEF ServiceOrder, LruList
<1>3. /\ N \in Nat /\ N # 0 /\ 1 \in 1 .. N
      /\ lru.head = q[1]
      /\ \A i, j \in 1 .. N : q[i] = q[j] => i = j
      /\ q = [i \in 1 .. N |-> q[i]]
  BY <1>2 DEF IsList
<1>4. LruList(lru', r, N) /\ Members(r, N) = Session
  <2>1. CASE lru.head = q[k]
    <3>1. k = 1
      BY <1>3, <2>1
    <3>2. r = q
      <4>1. \A i \in 1 .. N :
               q[i] = IF i = 1 THEN q[k] ELSE IF i <= k THEN q[i - 1] ELSE q[i]
        BY <1>3, <3>1
      <4> QED BY <1>3, <4>1 DEF Fronted
    <3>3. lru' = lru
      BY <1>1, <2>1 DEF Service!LruTouch
    <3> QED BY <1>2, <3>2, <3>3
  <2>2. CASE lru.head # q[k]
    <3>1. lru' = Service!LruPushFront(Service!LruRemove(lru, q[k]), q[k])
      BY <1>1, <2>2 DEF Service!LruTouch
    <3>2. LruList(Service!LruPushFront(Service!LruRemove(lru, q[k]), q[k]), r, N)
      BY <1>2, LruFronted
    <3>3. Members(r, N) = Session
      BY <1>2, LruFronted
    <3> QED BY <3>1, <3>2, <3>3
  <2> QED BY <2>1, <2>2
<1> HIDE DEF r
<1>5. ServiceOrder(r)'
  BY <1>4 DEF ServiceOrder
<1>6. ServiceOK'
  BY <1>1, <1>5 DEF ServiceOK
<1> QED BY <1>1, <1>5, <1>6 DEF r

(* A request for a session that is not there takes the last one and gives  *)
(* it the new id, in the chain of that id's bucket.                        *)
LEMMA MissStep ==
    ASSUME ServiceOK, NEW q, ServiceOrder(q), NEW x \in Sid,
           \A s \in Session : sid[s] # x, Service!Miss(x)
    PROVE  LET N == Cardinality(Session) IN
           /\ N \in Nat /\ N # 0 /\ q[N] \in Session
           /\ ServiceOK' /\ sid' = [sid EXCEPT ![q[N]] = x]
           /\ ServiceOrder(Fronted(q, N, N))'
<1> DEFINE N == Cardinality(Session)
           v == q[N]
           id == [sid EXCEPT ![v] = x]
           r == Fronted(q, N, N)
<1>1. /\ LruList(lru, q, N) /\ Members(q, N) = Session
      /\ lru.tail = Last(q, N)
  BY DEF ServiceOrder, LruList
<1>2. N \in Nat /\ N # 0
  BY SessionAssumption, FS_CardinalityType, FS_EmptySet
<1> HIDE DEF N
<1>3. N \in 1 .. N /\ v \in Session /\ lru.tail = v
  <2>1. N \in 1 .. N
    BY <1>2
  <2> QED BY <1>1, <1>2, <2>1 DEF LruList, IsList, Last
<1>4. /\ lru' = Service!LruPushFront(Service!LruRemove(lru, v), v)
      /\ hash' = Service!HashInsert(Service!HashRemove(hash, sid, v), id, v)
      /\ sid' = id
  BY <1>3 DEF Service!Miss, Service!Rehashed
<1>5. sid \in [Session -> Sid] /\ id \in [Session -> Sid]
  BY DEF ServiceOK, Service!Distinct
<1>6. id \in Service!Distinct
  <2> SUFFICES ASSUME NEW s \in Session, NEW t \in Session, id[s] = id[t] PROVE s = t
    BY <1>5 DEF Service!Distinct
  <2>1. sid[s] = sid[t] => s = t
    BY DEF ServiceOK, Service!Distinct
  <2>2. sid[s] # x /\ sid[t] # x
    OBVIOUS
  <2>3. id[s] = (IF s = v THEN x ELSE sid[s]) /\ id[t] = (IF t = v THEN x ELSE sid[t])
    BY <1>5
  <2> QED BY <2>1, <2>2, <2>3
<1>7. HashOf(hash', id, Session)
  <2> DEFINE h1 == Service!HashRemove(hash, sid, v)
             E == Session \ {v}
  <2>1. HashOf(h1, sid, E)
    BY <1>3, <1>5, HashRemoved DEF ServiceOK
  <2>2. \A s \in E : id[s] = sid[s]
    BY <1>5
  <2> HIDE DEF h1, id
  <2>3. HashOf(h1, id, E)
    BY <2>1, <2>2, HashRenamed
  <2>4. HashOf(Service!HashInsert(h1, id, v), id, E \cup {v})
    BY <1>3, <1>5, <2>3, HashInserted
  <2>5. E \cup {v} = Session
    BY <1>3
  <2> QED BY <1>4, <2>4, <2>5 DEF h1
<1>8. LruList(lru', r, N) /\ Members(r, N) = Session
  <2>1. LruList(Service!LruPushFront(Service!LruRemove(lru, v), v), r, N)
    BY <1>1, <1>3, LruFronted
  <2>2. Members(r, N) = Session
    BY <1>1, <1>3, LruFronted
  <2> QED BY <1>4, <2>1, <2>2
<1> HIDE DEF r, id
<1>9. ServiceOrder(r)'
  BY <1>8 DEF ServiceOrder, N
<1>10. ServiceOK'
  BY <1>4, <1>6, <1>7, <1>9 DEF ServiceOK
<1> QED BY <1>2, <1>3, <1>4, <1>9, <1>10 DEF N, r, id

(* What either does to the ids in the order of the list: Requested of      *)
(* LruCache.                                                               *)
AfterRequest(ids, x) ==
    [i \in DOMAIN ids |->
        IF i = 1 THEN x
        ELSE IF \E j \in 1 .. i - 1 : ids[j] = x THEN ids[i] ELSE ids[i - 1]]

(* The session at place k comes to the front with the id x: its own, or,   *)
(* of the last session, one that no other has.                             *)
Named(N, k, q, id, id1, x) ==
    /\ N \in Nat /\ N # 0 /\ k \in 1 .. N
    /\ \A i, j \in 1 .. N : id[q[i]] = id[q[j]] => i = j
    /\ \A i \in 1 .. N : i # k => id1[q[i]] = id[q[i]]
    /\ id1[q[k]] = x
    /\ id[q[k]] = x \/ (k = N /\ \A i \in 1 .. N : id[q[i]] # x)

(* Read as ids, what that does to the list is AfterRequest.                *)
LEMMA RequestedIds ==
    ASSUME NEW N, NEW k, NEW q, NEW id, NEW id1, NEW x, Named(N, k, q, id, id1, x)
    PROVE  IdsOf(id1, Fronted(q, N, k), N) = AfterRequest(IdsOf(id, q, N), x)
<1> USE DEF Named
<1> DEFINE ids == [i \in 1 .. N |-> id[q[i]]]
           met(i) == \E j \in 1 .. i - 1 : ids[j] = x
<1>1. ASSUME NEW i \in 1 .. N
      PROVE  id1[Fronted(q, N, k)[i]]
                = IF i = 1 THEN x ELSE IF met(i) THEN ids[i] ELSE ids[i - 1]
  <2>1. Fronted(q, N, k)[i] = IF i = 1 THEN q[k] ELSE IF i <= k THEN q[i - 1] ELSE q[i]
    BY DEF Fronted
  <2>2. CASE i = 1
    BY <2>1, <2>2
  <2>3. CASE i # 1 /\ i <= k
    <3>1. i - 1 \in 1 .. N /\ i - 1 # k
      BY <2>3
    <3>2. ~ met(i)
      <4> SUFFICES ASSUME NEW j \in 1 .. i - 1, ids[j] = x PROVE FALSE
        OBVIOUS
      <4>1. j \in 1 .. N /\ j # k /\ ids[j] = id[q[j]]
        BY <2>3
      <4> QED BY <4>1
    <3> QED BY <2>1, <2>3, <3>1, <3>2
  <2>4. CASE i # 1 /\ ~(i <= k)
    <3>1. k \in 1 .. i - 1 /\ k # N /\ i # k
      BY <2>4
    <3>2. met(i)
      BY <3>1
    <3> QED BY <2>1, <2>4, <3>1, <3>2
  <2> QED BY <2>2, <2>3, <2>4
<1>2. AfterRequest(ids, x) =
         [i \in 1 .. N |-> IF i = 1 THEN x ELSE IF met(i) THEN ids[i] ELSE ids[i - 1]]
  BY DEF AfterRequest
<1> HIDE DEF met, ids
<1>3. [i \in 1 .. N |-> id1[Fronted(q, N, k)[i]]] = AfterRequest(ids, x)
  BY <1>1, <1>2
<1> QED BY <1>3 DEF ids, IdsOf

(* Every request leaves both whole, and does to the ids what the LRU cache *)
(* does, or, when its exchange fails, nothing.                             *)
LEMMA ServiceStepOK ==
    ASSUME ServiceOK, NEW x \in Sid, NEW completed \in BOOLEAN,
           Service!ServiceRequest(x, completed)
    PROVE  /\ ServiceOK'
           /\ \/ Service!CachedIds' = AfterRequest(Service!CachedIds, x)
              \/ Service!CachedIds' = Service!CachedIds
<1> DEFINE N == Cardinality(Session)
           s == Service!ServiceFind(x)
<1>1. PICK q : ServiceOrder(q)
  BY DEF ServiceOK
<1>2. /\ N \in Nat /\ N # 0
      /\ q \in [1 .. N -> Session] /\ Members(q, N) = Session
      /\ \A i, j \in 1 .. N : q[i] = q[j] => i = j
  BY <1>1, SessionAssumption, FS_EmptySet DEF ServiceOrder, LruList, IsList
<1>3. sid \in [Session -> Sid] /\ \A r, t \in Session : sid[r] = sid[t] => r = t
  BY DEF ServiceOK, Service!Distinct
<1> HIDE DEF N
<1>4. \A i, j \in 1 .. N : sid[q[i]] = sid[q[j]] => i = j
  BY <1>2, <1>3
<1>5. Service!CachedIds = IdsOf(sid, q, N)
  BY <1>1, OrderRead DEF N
<1>6. CASE s # NULL /\ Service!Hit(s, completed)
  <2>1. s \in Session /\ sid[s] = x
    BY <1>3, <1>6, ServiceFound DEF ServiceOK
  <2>2. PICK k \in 1 .. N : q[k] = s
    BY <1>2, <2>1 DEF Members
  <2>3. CASE completed
    <3>1. /\ ServiceOK' /\ sid' = sid
          /\ ServiceOrder(Fronted(q, N, k))'
      <4>1. Service!Hit(q[k], TRUE)
        BY <1>6, <2>2, <2>3
      <4> QED BY <1>1, <2>2, <4>1, HitStep DEF N
    <3>2. Service!CachedIds' = IdsOf(sid', Fronted(q, N, k), N)
      <4>1. LruList(lru', Fronted(q, N, k), N)
        BY <3>1 DEF ServiceOrder, N
      <4> QED BY <4>1, IdsRead DEF N, Service!CachedIds, Service!LruOrder
    <3>3. sid[q[k]] = x
      BY <2>1, <2>2
    <3>4. IdsOf(sid', Fronted(q, N, k), N) = AfterRequest(IdsOf(sid, q, N), x)
      <4>1. sid[q[k]] = x \/ (k = N /\ \A i \in 1 .. N : sid[q[i]] # x)
        BY <3>3
      <4>2. \A i \in 1 .. N : i # k => sid'[q[i]] = sid[q[i]]
        BY <3>1
      <4>3. sid'[q[k]] = x
        BY <3>1, <3>3
      <4>4. N \in Nat /\ N # 0 /\ k \in 1 .. N
        BY <1>2, <2>2
      <4>5. Named(N, k, q, sid, sid', x)
        BY <1>4, <4>1, <4>2, <4>3, <4>4 DEF Named
      <4> QED BY <4>5, RequestedIds
    <3> QED BY <1>5, <3>1, <3>2, <3>4
  <2>4. CASE ~completed
    <3>1. lru' = lru /\ sid' = sid /\ hash' = hash
      BY <1>6, <2>4 DEF Service!Hit
    <3>2. ServiceOK'
      BY <3>1 DEF ServiceOK, ServiceOrder
    <3>3. Service!CachedIds' = Service!CachedIds
      BY <3>1 DEF Service!CachedIds, Service!LruOrder
    <3> QED BY <3>2, <3>3
  <2> QED BY <2>3, <2>4
<1>7. CASE s = NULL /\ Service!Miss(x)
  <2>1. \A r \in Session : sid[r] # x
    BY <1>3, <1>7, SessionAssumption, ServiceFound DEF ServiceOK
  <2>2. /\ q[N] \in Session
        /\ ServiceOK' /\ sid' = [sid EXCEPT ![q[N]] = x]
        /\ ServiceOrder(Fronted(q, N, N))'
    BY <1>1, <1>7, <2>1, MissStep DEF N
  <2>3. Service!CachedIds' = IdsOf(sid', Fronted(q, N, N), N)
    <3>1. LruList(lru', Fronted(q, N, N), N)
      BY <2>2 DEF ServiceOrder, N
    <3> QED BY <3>1, IdsRead DEF N, Service!CachedIds, Service!LruOrder
  <2>4. N \in 1 .. N
    BY <1>2
  <2>5. sid'[q[N]] = x /\ \A i \in 1 .. N : i # N => sid'[q[i]] = sid[q[i]]
    BY <1>2, <1>3, <2>2, <2>4
  <2>6. \A i \in 1 .. N : sid[q[i]] # x
    BY <1>2, <2>1
  <2>7. IdsOf(sid', Fronted(q, N, N), N) = AfterRequest(IdsOf(sid, q, N), x)
    <3>1. sid[q[N]] = x \/ (N = N /\ \A i \in 1 .. N : sid[q[i]] # x)
      BY <2>6
    <3>2. N \in Nat /\ N # 0
      BY <1>2
    <3>3. Named(N, N, q, sid, sid', x)
      BY <1>4, <2>4, <2>5, <3>1, <3>2 DEF Named
    <3> QED BY <3>3, RequestedIds
  <2> QED BY <1>5, <2>2, <2>3, <2>7
<1> QED BY <1>6, <1>7 DEF Service!ServiceRequest

(* A run of the composition is a run of the session cache.                 *)
LEMMA ServicePart == Software => Service!Spec
<1>1. SoftwareInit => Service!Init
  BY DEF SoftwareInit
<1>2. [SoftwareNext]_all => [Service!Next]_(Service!vars)
  BY DEF SoftwareNext, ContractStep, ServiceStep, ParentStep, ChildStep,
         Misfortune, ImportStep, all, programs, service, Service!vars
<1> QED BY <1>1, <1>2, PTL DEF Software, Service!Spec

(* ServiceOK holds after every request.                                    *)
LEMMA ServiceInvariant == Service!Spec => []ServiceOK
<1>1. ServiceOK /\ [Service!Next]_(Service!vars) => ServiceOK'
  <2>1. CASE Service!Next
    BY <2>1, ServiceStepOK DEF Service!Next
  <2>2. CASE UNCHANGED Service!vars
    BY <2>2 DEF Service!vars, ServiceOK, ServiceOrder
  <2> QED BY <2>1, <2>2
<1> QED BY <1>1, ServiceInit, PTL DEF Service!Spec

(* Whatever is requested and whichever exchange fails, the LRU list is     *)
(* that of all sessions, read either way, for every number of sessions and *)
(* every hash of the ids: lru_touch and the reuse of a session.            *)
THEOREM ServiceStaysValid == Software => []ServiceIsValid
<1>1. ServiceOK => ServiceIsValid
  BY OrderRead DEF ServiceOK, ServiceIsValid
<1> QED BY <1>1, ServicePart, ServiceInvariant, PTL

(* Hash and list together are an LRU cache of ids: a request is served     *)
(* from the cache exactly when one of its ids is asked for, and what it    *)
(* gives up is the least recent.                                           *)
THEOREM ServiceImplementsCache == Software => ImplementsCache
<1>1. SoftwareInit => Cached!Init
  <2> SUFFICES ASSUME SoftwareInit PROVE Cached!Init
    OBVIOUS
  <2>1. ServiceOK
    BY ServiceInit DEF SoftwareInit
  <2>2. PICK q : ServiceOrder(q)
    BY <2>1 DEF ServiceOK
  <2> DEFINE N == Cardinality(Session)
  <2>3. Service!CachedIds = [i \in 1 .. N |-> sid[q[i]]]
    BY <2>2, OrderRead DEF IdsOf
  <2>4. \A i, j \in 1 .. N : sid[q[i]] = sid[q[j]] => i = j
    BY <2>1, <2>2 DEF ServiceOK, ServiceOrder, LruList, IsList, Service!Distinct
  <2> HIDE DEF N
  <2>5. CASE part = "service"
    BY <2>3, <2>4, <2>5 DEF Cached!Init, CachedIds
  <2>6. CASE part # "service"
    BY <2>6 DEF Cached!Init, CachedIds
  <2> QED BY <2>5, <2>6
<1>2. ServiceOK /\ [SoftwareNext]_all => [Cached!Next]_CachedIds
  <2> SUFFICES ASSUME ServiceOK, [SoftwareNext]_all PROVE [Cached!Next]_CachedIds
    OBVIOUS
  <2>1. CASE ServiceStep
    <3>1. PICK x \in Sid, completed \in BOOLEAN : Service!ServiceRequest(x, completed)
      BY <2>1 DEF ServiceStep, Service!Next
    <3>2. \/ Service!CachedIds' = AfterRequest(Service!CachedIds, x)
          \/ Service!CachedIds' = Service!CachedIds
      BY <3>1, ServiceStepOK
    <3>3. CachedIds = Service!CachedIds /\ CachedIds' = Service!CachedIds'
      BY <2>1 DEF ServiceStep, CachedIds
    <3> QED BY <3>2, <3>3 DEF Cached!Next, Cached!Request, Cached!Requested, AfterRequest
  <2>2. CASE ~ServiceStep
    <3>1. part' = part /\ sid' = sid /\ lru' = lru
      BY <2>2 DEF SoftwareNext, ContractStep, ParentStep, ChildStep,
                  Misfortune, ImportStep, all, programs, service
    <3>2. Service!CachedIds' = Service!CachedIds
      BY <3>1 DEF Service!CachedIds, Service!LruOrder
    <3> QED BY <3>1, <3>2 DEF CachedIds
  <2> QED BY <2>1, <2>2
<1> QED BY <1>1, <1>2, ServicePart, ServiceInvariant, PTL
        DEF Software, ImplementsCache, Cached!Spec
=============================================================================
