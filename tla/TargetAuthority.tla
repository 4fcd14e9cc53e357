-------------------------- MODULE TargetAuthority ---------------------------
(***************************************************************************)
(* The target half of src/research/copper_full_lsq_amba_authority_top.sv:  *)
(* remaps and TLBIs pass the front door and SARI in the cycle in which     *)
(* they arrive, wait one cycle in the revocation slice, and then clear     *)
(* CTLW.  Demand accesses record witnesses meanwhile.                      *)
(*                                                                         *)
(* translation is the page table as demand accesses see it; it changes at  *)
(* the edge at which the system announces the change.  The target events   *)
(* of the current cycle are wires.                                         *)
(***************************************************************************)
CONSTANTS
    VLine, PLine, Token,
    WIndex, WitIdx, NoWitness

VARIABLES
    target,        \* the target events of this cycle
    target_q,      \* ctlw_remap_q, ctlw_tlbi_token_q, ctlw_tlbi_all_q
    witness,       \* the directory
    translation    \* the current translation of <<vline, token>>

vars == <<target, target_q, witness, translation>>

Ctlw == INSTANCE CtlwDir

-----------------------------------------------------------------------------
Place == [vline : VLine, token : Token]

(* At most one remap and one DVM message a cycle; dvm_kind says whether it *)
(* invalidates a token or everything.                                      *)
Target ==
    [remaps : {{}} \cup {{r} : r \in Place},
     tokens : {{}} \cup {{t} : t \in Token},
     all    : BOOLEAN]
Possible == {e \in Target : e.all => e.tokens = {}}

Quiet == [remaps |-> {}, tokens |-> {}, all |-> FALSE]

(* decoded_target_event; also revocation_slice_pending, of the slice.      *)
Pending(e) == e # Quiet

(* Mutant: the hold ends before the clear has landed.                      *)
HoldWithoutSlice == Pending(target)

(* dmp_frontdoor_hold or sari_dmp_revocation_hold, for target events.      *)
Hold == Pending(target) \/ Pending(target_q)

(* The translations that the system announces to be changing.              *)
Announced(e) ==
    {p \in VLine \X Token :
        \/ [vline |-> p[1], token |-> p[2]] \in e.remaps
        \/ p[2] \in e.tokens
        \/ e.all}

Init ==
    /\ target \in Possible
    /\ target_q = Quiet
    /\ Ctlw!Init
    /\ translation \in [VLine \X Token -> PLine]

SliceEdge == target_q' = target

(* A demand access records the translation it has used in this cycle.      *)
Recorded ==
    {NoWitness} \cup
    {[vline |-> p[1], token |-> p[2], pline |-> translation[p]] : p \in VLine \X Token}

Edge(record) ==
    /\ SliceEdge
    /\ Ctlw!Edge(record, target_q.remaps, target_q.tokens, target_q.all)
    /\ translation' \in
          {t \in [VLine \X Token -> PLine] :
             \A p \in VLine \X Token : p \notin Announced(target) => t[p] = translation[p]}
    /\ target' \in Possible

Next == \E record \in Recorded : Edge(record)

Spec == Init /\ [][Next]_vars

-----------------------------------------------------------------------------
(* Types of the wires, the slice, the directory and the page table.        *)
TypeOK ==
    /\ target \in Possible
    /\ target_q \in Possible
    /\ witness \in [WIndex -> Ctlw!Witness \cup {NoWitness}]
    /\ translation \in [VLine \X Token -> PLine]

(* A witness that the prefetcher may use, because nothing holds it, is the *)
(* current translation.  Records race the delayed clears: one of the cycle *)
(* of the announcement is old and has to be caught by the clear a cycle    *)
(* later, one of that later cycle is new and wins over the clear.          *)
WitnessIsCurrent ==
    ~Hold => \A v \in VLine, t \in Token :
        Ctlw!WitnessValid(v, t) => Ctlw!WitnessPline(v) = translation[<<v, t>>]

(* Why that holds: a witness that is out of date is one whose change sits  *)
(* in the slice, to be cleared at the coming edge.                         *)
StaleIsInSlice ==
    \A i \in WIndex : witness[i] # NoWitness =>
        LET p == <<witness[i].vline, witness[i].token>>
        IN  /\ WitIdx[witness[i].vline] = i
            /\ witness[i].pline = translation[p] \/ p \in Announced(target_q)
=============================================================================
