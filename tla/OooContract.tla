---------------------------- MODULE OooContract -----------------------------
(***************************************************************************)
(* The out-of-order LSQ contract of COPPER,                                *)
(* src/research/copper_ooo_lsq_proof_contract.py: one source load that     *)
(* captures a tag, one dependent memory operation that uses the loaded     *)
(* word as an address, and all that may happen to either before the        *)
(* dependent operation retires and makes a proof of the word.              *)
(***************************************************************************)
EXTENDS Naturals

VARIABLES
    src_executed, src_retired, dep_executed, dep_retired,
    tag,                        \* live, stale, epoch and value captured
    current_epoch, current_value,
    flushed_since_capture, target_ok, perm_ok, proof_created,
    revoked                     \* history: the source was revoked since

vars == <<src_executed, src_retired, dep_executed, dep_retired, tag,
          current_epoch, current_value, flushed_since_capture,
          target_ok, perm_ok, proof_created, revoked>>
source == <<src_executed, src_retired>>
memory == <<current_epoch, current_value>>
faults == <<target_ok, perm_ok>>

Bit == {0, 1}

AllowsProof == /\ ~proof_created
               /\ tag.live /\ ~tag.stale
               /\ src_retired
               /\ ~flushed_since_capture
               /\ tag.epoch = current_epoch /\ tag.value = current_value
               /\ target_ok /\ perm_ok

Init == /\ src_executed = FALSE /\ src_retired = FALSE
        /\ dep_executed = FALSE /\ dep_retired = FALSE
        /\ tag = [live |-> FALSE, stale |-> FALSE, epoch |-> 0, value |-> 0]
        /\ current_epoch = 0 /\ current_value = 0
        /\ flushed_since_capture = FALSE
        /\ target_ok = TRUE /\ perm_ok = TRUE
        /\ proof_created = FALSE
        /\ revoked = FALSE

ExecuteSourceLoad ==
    /\ ~src_executed
    /\ src_executed' = TRUE
    /\ tag' = [live |-> TRUE, stale |-> FALSE,
               epoch |-> current_epoch, value |-> current_value]
    /\ flushed_since_capture' = FALSE
    /\ revoked' = FALSE
    /\ UNCHANGED <<src_retired, dep_executed, dep_retired, memory, faults,
                   proof_created>>

RetireSourceLoad ==
    /\ src_executed /\ ~src_retired
    /\ src_retired' = TRUE
    /\ UNCHANGED <<src_executed, dep_executed, dep_retired, tag, memory,
                   flushed_since_capture, faults, proof_created, revoked>>

ExecuteDependent ==
    /\ tag.live /\ ~dep_executed
    /\ dep_executed' = TRUE
    /\ UNCHANGED <<source, dep_retired, tag, memory, flushed_since_capture,
                   faults, proof_created, revoked>>

RetireDependent ==
    /\ dep_executed /\ ~dep_retired
    /\ dep_retired' = TRUE
    /\ proof_created' = (proof_created \/ AllowsProof)
    /\ UNCHANGED <<source, dep_executed, tag, memory, flushed_since_capture,
                   faults, revoked>>

BackendFlush ==
    /\ tag.live
    /\ tag' = [tag EXCEPT !.live = FALSE, !.stale = TRUE]
    /\ dep_executed' = FALSE
    /\ flushed_since_capture' = TRUE
    /\ UNCHANGED <<source, dep_retired, memory, faults, proof_created,
                   revoked>>

Changed == /\ current_epoch' = 1 - current_epoch
           /\ current_value' = 1 - current_value

(* Mutant: only the comparison of epoch and value stands against a write.  *)
SourceRevokeUnmarked ==
    /\ tag.live
    /\ Changed
    /\ revoked' = TRUE
    /\ UNCHANGED <<source, dep_executed, dep_retired, tag,
                   flushed_since_capture, faults, proof_created>>

SourceRevoke ==
    /\ tag.live
    /\ Changed
    /\ tag' = [tag EXCEPT !.stale = TRUE]
    /\ revoked' = TRUE
    /\ UNCHANGED <<source, dep_executed, dep_retired,
                   flushed_since_capture, faults, proof_created>>

SilentChange ==
    /\ tag.live
    /\ Changed
    /\ UNCHANGED <<source, dep_executed, dep_retired, tag,
                   flushed_since_capture, faults, proof_created, revoked>>

TargetFault ==
    /\ \/ target_ok /\ target_ok' = FALSE /\ UNCHANGED perm_ok
       \/ perm_ok /\ perm_ok' = FALSE /\ UNCHANGED target_ok
    /\ UNCHANGED <<source, dep_executed, dep_retired, tag, memory,
                   flushed_since_capture, proof_created, revoked>>

Next == \/ ExecuteSourceLoad \/ RetireSourceLoad
        \/ ExecuteDependent \/ RetireDependent
        \/ BackendFlush \/ SourceRevoke \/ SilentChange \/ TargetFault

Spec == Init /\ [][Next]_vars

-----------------------------------------------------------------------------
(* Types.                                                                  *)
TypeOK ==
    /\ {src_executed, src_retired, dep_executed, dep_retired,
        flushed_since_capture, target_ok, perm_ok, proof_created, revoked}
           \subseteq BOOLEAN
    /\ tag \in [live : BOOLEAN, stale : BOOLEAN, epoch : Bit, value : Bit]
    /\ current_epoch \in Bit /\ current_value \in Bit

(* A proof is made when both loads have retired, whatever the order of     *)
(* execution, and of a word that nothing has touched since its capture:    *)
(* neither a revocation, even if epoch and value have come round to what   *)
(* they were, nor a flush, nor a change that is visible at retirement.     *)
ProofIsUntouched ==
    [][~proof_created /\ proof_created'
          => /\ src_retired /\ dep_retired'
             /\ ~revoked /\ ~flushed_since_capture
             /\ tag.live
             /\ tag.epoch = current_epoch /\ tag.value = current_value
             /\ target_ok /\ perm_ok]_vars
=============================================================================
