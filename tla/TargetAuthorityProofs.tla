------------------------ MODULE TargetAuthorityProofs -----------------------
(***************************************************************************)
(* Proofs for TargetAuthority, part top of MCTargets, for any set of lines,*)
(* tokens and entries: a witness the prefetcher may use is the current     *)
(* translation.  The inductive invariant is StaleIsInSlice: an out-of-date *)
(* witness is out of date by a change that the slice holds, so the clear of*)
(* the coming edge removes it, unless a record of that cycle, which is     *)
(* current, replaces it.                                                   *)
(***************************************************************************)
EXTENDS MCTargets, TLAPS

(* A run of the composition is a run of the top.                           *)
LEMMA TopPart == Targets => Top!Spec
<1>1. TargetsInit => Top!Init
  BY DEF TargetsInit
<1>2. [TargetsNext]_<<part, vars, top>> => [Top!Next]_(Top!vars)
  BY DEF TargetsNext, top, Top!vars
<1> QED BY <1>1, <1>2, PTL DEF Targets, Top!Spec

(* What one entry of the directory can become: nothing, the record of this *)
(* cycle, or what it was, and that only if no clear hit it.                *)
LEMMA WitnessCases ==
    ASSUME NEW i \in WIndex, NEW record, NEW remaps, NEW tokens, NEW all \in BOOLEAN,
           Top!Ctlw!Edge(record, remaps, tokens, all)
    PROVE  \/ witness'[i] = NoWitness
           \/ /\ record # NoWitness /\ WitIdx[record.vline] = i
              /\ witness'[i] = record
           \/ /\ ~all /\ ~Top!Ctlw!RemapHits(i, remaps) /\ ~Top!Ctlw!TlbiHits(i, tokens)
              /\ witness'[i] = witness[i]
<1>1. witness'[i] = Top!Ctlw!NextWitness(i, record, remaps, tokens, all)
  BY DEF Top!Ctlw!Edge
<1>2. CASE all
  BY <1>1, <1>2 DEF Top!Ctlw!NextWitness
<1>3. CASE ~all /\ record # NoWitness /\ WitIdx[record.vline] = i
  BY <1>1, <1>3 DEF Top!Ctlw!NextWitness
<1>4. CASE /\ ~all /\ (record = NoWitness \/ WitIdx[record.vline] # i)
           /\ (Top!Ctlw!RemapHits(i, remaps) \/ Top!Ctlw!TlbiHits(i, tokens))
  BY <1>1, <1>4 DEF Top!Ctlw!NextWitness
<1>5. CASE /\ ~all /\ (record = NoWitness \/ WitIdx[record.vline] # i)
           /\ ~(Top!Ctlw!RemapHits(i, remaps) \/ Top!Ctlw!TlbiHits(i, tokens))
  BY <1>1, <1>5 DEF Top!Ctlw!NextWitness
<1> QED BY <1>2, <1>3, <1>4, <1>5

(* What a demand access records is a witness, of the translation of now.   *)
LEMMA RecordedType ==
    ASSUME Top!TypeOK, NEW record \in Top!Recorded, record # NoWitness
    PROVE  /\ record \in Top!Ctlw!Witness
           /\ record.pline = translation[<<record.vline, record.token>>]
<1>1. PICK p \in VLine \X Token :
         record = [vline |-> p[1], token |-> p[2], pline |-> translation[p]]
  BY DEF Top!Recorded
<1>2. p = <<p[1], p[2]>> /\ p[1] \in VLine /\ p[2] \in Token
  OBVIOUS
<1>3. translation[p] \in PLine
  BY DEF Top!TypeOK
<1> QED BY <1>1, <1>2, <1>3 DEF Top!Ctlw!Witness

(* The wires, the slice, the directory and the page table are well typed.  *)
THEOREM TypeCorrect == Targets => []Top!TypeOK
<1>1. Top!Init => Top!TypeOK
  <2> SUFFICES ASSUME Top!Init PROVE Top!TypeOK
    OBVIOUS
  <2>1. Top!Quiet \in Top!Possible
    <3>1. Top!Quiet \in Top!Target
      BY DEF Top!Quiet, Top!Target
    <3> QED BY <3>1 DEF Top!Quiet, Top!Possible
  <2> QED BY <2>1 DEF Top!Init, Top!TypeOK, Top!Ctlw!Init
<1>2. Top!TypeOK /\ [Top!Next]_(Top!vars) => Top!TypeOK'
  <2> SUFFICES ASSUME Top!TypeOK, [Top!Next]_(Top!vars) PROVE Top!TypeOK'
    OBVIOUS
  <2>1. CASE UNCHANGED Top!vars
    BY <2>1 DEF Top!TypeOK, Top!vars
  <2>2. CASE Top!Next
    <3>1. PICK record \in Top!Recorded : Top!Edge(record)
      BY <2>2 DEF Top!Next
    <3>2. wires' \in Top!Possible /\ target_q' \in Top!Possible
          /\ translation' \in [VLine \X Token -> PLine]
      BY <3>1 DEF Top!Edge, Top!SliceEdge, Top!TypeOK
    <3>3. target_q.all \in BOOLEAN
      BY DEF Top!TypeOK, Top!Possible, Top!Target
    <3>4. ASSUME NEW i \in WIndex
          PROVE  witness'[i] \in Top!Ctlw!Witness \cup {NoWitness}
      <4>1. witness[i] \in Top!Ctlw!Witness \cup {NoWitness}
        BY DEF Top!TypeOK
      <4>2. \/ witness'[i] \in {NoWitness, witness[i]}
            \/ record # NoWitness /\ witness'[i] = record
        BY <3>1, <3>3, WitnessCases DEF Top!Edge
      <4> QED BY <4>1, <4>2, <3>1, RecordedType
    <3>5. witness' = [i \in WIndex |-> witness'[i]]
      BY <3>1 DEF Top!Edge, Top!Ctlw!Edge
    <3>6. witness' \in [WIndex -> Top!Ctlw!Witness \cup {NoWitness}]
      BY <3>4, <3>5
    <3> QED BY <3>2, <3>6 DEF Top!TypeOK
  <2> QED BY <2>1, <2>2
<1> QED BY <1>1, <1>2, TopPart, PTL DEF Top!Spec

(* An out-of-date witness is one the slice is about to clear.              *)
THEOREM StaleInSlice == Targets => []StaleIsInSlice
<1>1. Top!Init => Top!StaleIsInSlice
  BY DEF Top!Init, Top!Ctlw!Init, Top!StaleIsInSlice
<1>2. Top!TypeOK /\ Top!StaleIsInSlice /\ [Top!Next]_(Top!vars) => Top!StaleIsInSlice'
  <2> SUFFICES ASSUME Top!TypeOK, Top!StaleIsInSlice, [Top!Next]_(Top!vars) PROVE Top!StaleIsInSlice'
    OBVIOUS
  <2>1. CASE UNCHANGED Top!vars
    BY <2>1 DEF Top!StaleIsInSlice, Top!vars, Top!Announced
  <2>2. CASE Top!Next
    <3>1. PICK record \in Top!Recorded : Top!Edge(record)
      BY <2>2 DEF Top!Next
    <3> SUFFICES ASSUME NEW i \in WIndex, witness'[i] # NoWitness
                 PROVE  LET p == <<witness'[i].vline, witness'[i].token>>
                        IN  /\ WitIdx[witness'[i].vline] = i
                            /\ \/ witness'[i].pline = translation'[p]
                               \/ p \in Top!Announced(target_q')
      BY DEF Top!StaleIsInSlice, Top!Announced
    <3> DEFINE p == <<witness'[i].vline, witness'[i].token>>
    <3>2. target_q' = wires
      BY <3>1 DEF Top!Edge, Top!SliceEdge
    <3>3. \A q \in VLine \X Token :
             q \notin Top!Announced(wires) => translation'[q] = translation[q]
      BY <3>1 DEF Top!Edge
    <3>4. target_q.all \in BOOLEAN
      BY DEF Top!TypeOK, Top!Possible, Top!Target
    <3>5. CASE /\ record # NoWitness /\ WitIdx[record.vline] = i
               /\ witness'[i] = record
      <4>1. record \in Top!Ctlw!Witness
            /\ record.pline = translation[<<record.vline, record.token>>]
        BY <3>1, <3>5, RecordedType
      <4>2. <<record.vline, record.token>> \in VLine \X Token
        BY <4>1 DEF Top!Ctlw!Witness
      <4> QED BY <3>2, <3>3, <3>5, <4>1, <4>2
    <3>6. CASE /\ ~target_q.all /\ ~Top!Ctlw!RemapHits(i, target_q.remaps)
               /\ ~Top!Ctlw!TlbiHits(i, target_q.tokens)
               /\ witness'[i] = witness[i]
      <4>1. witness[i] \in Top!Ctlw!Witness
        BY <3>6 DEF Top!TypeOK
      <4>2. p \in VLine \X Token
        BY <3>6, <4>1 DEF Top!Ctlw!Witness
      <4>3. WitIdx[witness[i].vline] = i
            /\ (witness[i].pline = translation[p] \/ p \in Top!Announced(target_q))
        BY <3>6 DEF Top!StaleIsInSlice
      <4>4. p \notin Top!Announced(target_q)
        <5>1. witness[i].token \notin target_q.tokens
          BY <3>6 DEF Top!Ctlw!TlbiHits
        <5>2. [vline |-> witness[i].vline, token |-> witness[i].token]
                 \notin target_q.remaps
          BY <3>6, <4>3 DEF Top!Ctlw!RemapHits
        <5> QED BY <3>6, <5>1, <5>2 DEF Top!Announced
      <4> QED BY <3>2, <3>3, <3>6, <4>2, <4>3, <4>4
    <3> QED BY <3>1, <3>4, <3>5, <3>6, WitnessCases DEF Top!Edge
  <2> QED BY <2>1, <2>2
<1>3. Top!StaleIsInSlice => StaleIsInSlice
  BY DEF StaleIsInSlice
<1> QED BY <1>1, <1>2, <1>3, TypeCorrect, TopPart, PTL DEF Top!Spec

(* A witness that the prefetcher may use is the current translation.       *)
THEOREM WitnessSound == Targets => []WitnessIsCurrent
<1>1. Top!TypeOK /\ StaleIsInSlice => WitnessIsCurrent
  <2> SUFFICES ASSUME Top!TypeOK, StaleIsInSlice, ~Top!Hold,
                      NEW v \in VLine, NEW t \in Token, Top!Ctlw!WitnessValid(v, t)
               PROVE  Top!Ctlw!WitnessPline(v) = translation[<<v, t>>]
    BY DEF WitnessIsCurrent, Top!WitnessIsCurrent
  <2>1. WitIdx[v] \in WIndex
    BY WitIdxAssumption
  <2>2. <<v, t>> \notin Top!Announced(target_q)
    BY DEF Top!Hold, Top!Pending, Top!Quiet, Top!Announced
  <2> QED BY <2>1, <2>2 DEF StaleIsInSlice, Top!StaleIsInSlice, Top!Ctlw!WitnessValid, Top!Ctlw!WitnessPline
<1> QED BY <1>1, TypeCorrect, StaleInSlice, PTL
=============================================================================
