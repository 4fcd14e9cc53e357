------------------------------ MODULE MCTargets -----------------------------
(***************************************************************************)
(* The two ways in which target events reach the prefetcher, as two systems*)
(* in one run: part, chosen in the initial state, says which of them takes *)
(* steps; the other stays in one of its initial states.                    *)
(*   filter   TlbFilter, with events that arrive one at a time             *)
(*   top      TargetAuthority, the target half of the full top             *)
(***************************************************************************)
EXTENDS TlbFilter, TLC

CONSTANTS VLine, PLine,                \* of the target authority, with Token
          WIndex, WitIdx, NoWitness

ASSUME WitIdxAssumption == WitIdx \in [VLine -> WIndex]

VARIABLES part, wires, target_q, witness, translation

Top == INSTANCE TargetAuthority WITH target <- wires

ASSUME NoWitnessAssumption == NoWitness \notin Top!Ctlw!Witness

(* For TLC: both lines share an entry; names do not matter.                *)
OneEntry == [v \in VLine |-> CHOOSE i \in WIndex : TRUE]
Symmetry == Permutations(SrcLine) \cup Permutations(TgtLine)
                \cup Permutations(VLine) \cup Permutations(PLine)
                \cup Permutations(Token)

top == <<wires, target_q, witness, translation>>

(* The page table of an idle top maps everything to one line.              *)
TargetsInit ==
    /\ part \in {"filter", "top"}
    /\ Init /\ Top!Init
    /\ part # "top" =>
         /\ wires = Top!Quiet
         /\ \A p, q \in VLine \X Token : translation[p] = translation[q]

TargetsNext ==
    \/ part = "filter" /\ SeparateNext /\ UNCHANGED <<part, top>>
    \/ part = "top" /\ Top!Next /\ UNCHANGED <<part, vars>>

Targets == TargetsInit /\ [][TargetsNext]_<<part, vars, top>>

-----------------------------------------------------------------------------
(* An out-of-date witness is out of date by a change that the slice holds. *)
StaleIsInSlice == Top!StaleIsInSlice

(* A witness that the prefetcher may use is the current translation.       *)
WitnessIsCurrent == Top!WitnessIsCurrent
=============================================================================
