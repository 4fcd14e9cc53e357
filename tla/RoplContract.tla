---------------------------- MODULE RoplContract ----------------------------
(***************************************************************************)
(* ROPL, Retirement-Only Provenance Latching,                              *)
(* src/research/copper_ooo_replay_exception_alias_contract.py: a source    *)
(* tag carries the generations of replay, squash and alias in which it was *)
(* captured, one bit each, and a dependent operation that retires makes a  *)
(* proof if all of them are still the same.                                *)
(***************************************************************************)
EXTENDS Naturals

VARIABLES
    src, dep,                 \* executed, retired, exception
    tag,                      \* live, and the generations captured
    generation,               \* current generations of the core
    order_violation, target_ok, perm_ok, proof_created,
    happened                  \* history: events of each kind since capture

vars == <<src, dep, tag, generation, order_violation, target_ok, perm_ok,
          proof_created, happened>>

Kind == {"replay", "squash", "alias"}
Bit == {0, 1}
Load == [executed : BOOLEAN, retired : BOOLEAN, exception : BOOLEAN]

(* Events are told apart up to two: none, one, more.                       *)
MaxHappened == 2

(* Mutant: the replay generation is not compared.                          *)
CurrentButReplay ==
    \A k \in {"squash", "alias"} : tag.captured[k] = generation[k]

Current == \A k \in Kind : tag.captured[k] = generation[k]

AllowsProof ==
    /\ ~proof_created
    /\ tag.live /\ src.retired
    /\ ~src.exception /\ ~dep.exception
    /\ Current
    /\ ~order_violation /\ target_ok /\ perm_ok

-----------------------------------------------------------------------------
Idle == [executed |-> FALSE, retired |-> FALSE, exception |-> FALSE]

Init == /\ src = Idle /\ dep = Idle
        /\ tag = [live |-> FALSE, captured |-> [k \in Kind |-> 0]]
        /\ generation = [k \in Kind |-> 0]
        /\ order_violation = FALSE
        /\ target_ok = TRUE /\ perm_ok = TRUE
        /\ proof_created = FALSE
        /\ happened = [k \in Kind |-> 0]

ExecuteSource ==
    /\ ~src.executed
    /\ src' = [src EXCEPT !.executed = TRUE]
    /\ tag' = [live |-> TRUE, captured |-> generation]
    /\ happened' = [k \in Kind |-> 0]
    /\ UNCHANGED <<dep, generation, order_violation, target_ok, perm_ok,
                   proof_created>>

(* The source retires, or it raises an exception and never does.           *)
FinishSource ==
    /\ src.executed /\ ~src.retired /\ ~src.exception
    /\ \/ src' = [src EXCEPT !.retired = TRUE]
       \/ src' = [src EXCEPT !.exception = TRUE]
    /\ UNCHANGED <<dep, tag, generation, order_violation, target_ok, perm_ok,
                   proof_created, happened>>

ExecuteDependent ==
    /\ tag.live /\ ~dep.executed
    /\ dep' = [dep EXCEPT !.executed = TRUE]
    /\ UNCHANGED <<src, tag, generation, order_violation, target_ok, perm_ok,
                   proof_created, happened>>

DepPending == dep.executed /\ ~dep.retired

RetireDependent ==
    /\ DepPending
    /\ dep' = [dep EXCEPT !.retired = TRUE]
    /\ proof_created' = (proof_created \/ AllowsProof)
    /\ UNCHANGED <<src, tag, generation, order_violation, target_ok, perm_ok,
                   happened>>

DependentException ==
    /\ DepPending /\ ~dep.exception
    /\ dep' = [dep EXCEPT !.exception = TRUE]
    /\ UNCHANGED <<src, tag, generation, order_violation, target_ok, perm_ok,
                   proof_created, happened>>

Advance(k) ==
    /\ generation' = [generation EXCEPT ![k] = 1 - @]
    /\ happened' = [happened EXCEPT ![k] = IF @ < MaxHappened THEN @ + 1
                                           ELSE @]

DependentReplay ==
    /\ DepPending
    /\ dep' = [dep EXCEPT !.executed = FALSE]
    /\ Advance("replay")
    /\ UNCHANGED <<src, tag, order_violation, target_ok, perm_ok,
                   proof_created>>

SquashOrAlias ==
    /\ tag.live
    /\ \E k \in {"squash", "alias"} : Advance(k)
    /\ UNCHANGED <<src, dep, tag, order_violation, target_ok, perm_ok,
                   proof_created>>

MemoryOrderViolation ==
    /\ DepPending
    /\ order_violation' = TRUE
    /\ UNCHANGED <<src, dep, tag, generation, target_ok, perm_ok,
                   proof_created, happened>>

TargetFault ==
    /\ \/ target_ok /\ target_ok' = FALSE /\ UNCHANGED perm_ok
       \/ perm_ok /\ perm_ok' = FALSE /\ UNCHANGED target_ok
    /\ UNCHANGED <<src, dep, tag, generation, order_violation, proof_created,
                   happened>>

Next == \/ ExecuteSource \/ FinishSource
        \/ ExecuteDependent \/ RetireDependent \/ DependentException
        \/ DependentReplay \/ SquashOrAlias
        \/ MemoryOrderViolation \/ TargetFault

Spec == Init /\ [][Next]_vars

-----------------------------------------------------------------------------
(* Types.                                                                  *)
TypeOK ==
    /\ src \in Load /\ dep \in Load
    /\ tag \in [live : BOOLEAN, captured : [Kind -> Bit]]
    /\ generation \in [Kind -> Bit]
    /\ {order_violation, target_ok, perm_ok, proof_created} \subseteq BOOLEAN
    /\ happened \in [Kind -> 0 .. MaxHappened]

(* One replay, squash or alias kill between capture and retirement always  *)
(* keeps a proof from being made, whatever else happens, and so does an    *)
(* exception of either load.                                               *)
OneIsCaught ==
    [][~proof_created /\ proof_created' =>
         /\ \A k \in Kind : happened[k] # 1
         /\ src.retired /\ ~src.exception
         /\ dep'.retired /\ ~dep'.exception]_vars
=============================================================================
