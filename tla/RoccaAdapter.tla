---------------------------- MODULE RoccaAdapter ----------------------------
(***************************************************************************)
(* ROCCA, the combinational adapter in front of the directory              *)
(* (src/research/copper_rocca_clpd_commit_adapter.sv): the retire guard's  *)
(* proof becomes a directory commit unless one of its conditions fails or  *)
(* its source line is cleared in the same cycle.                           *)
(***************************************************************************)
CONSTANT NoCommit

(* Mutant: only the global clear is compared with the proof.               *)
GlobalClearHit(proof, globalClear, cleared) == globalClear

(* write_hit, fill_hit, invalidate_hit and the global clear.               *)
SameCycleClearHit(proof, globalClear, cleared) ==
    globalClear \/ proof.line \in cleared

MayCommit(proof, sourceClean, epochMatch, faultPermOk) ==
    proof # NoCommit /\ sourceClean /\ epochMatch /\ faultPermOk

ClpdCommit(proof, sourceClean, epochMatch, faultPermOk, globalClear, cleared) ==
    IF /\ MayCommit(proof, sourceClean, epochMatch, faultPermOk)
       /\ ~SameCycleClearHit(proof, globalClear, cleared)
    THEN proof
    ELSE NoCommit
=============================================================================
