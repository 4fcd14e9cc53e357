------------------------- MODULE AuthorityContract --------------------------
(***************************************************************************)
(* The authority model of src/research/copper_authority_state_space.py:    *)
(* one source word with value and epoch of a bit each, the tag of a        *)
(* backend operation in flight, the proof it leaves (CEPF, PASB), one      *)
(* target with its exact line witness (CTLW), and prefetches whose fills   *)
(* are terminal when they were reached through a witness.                  *)
(***************************************************************************)
EXTENDS Naturals

CONSTANT Token,          \* two address spaces
         FirstToken

VARIABLES
    src,                 \* clean, value, epoch
    current_token,
    proof,               \* valid, value, epoch, token, sound
    inflight,            \* valid, value, epoch, token
    target,              \* same_page, candidate
    witness,             \* valid, target, token
    terminal_source,
    since_capture,       \* history: updates since the tag was captured
    since_proof,         \* history: updates since the proof was made
    chased,              \* history: a witness-derived fill is the source
    remapped             \* history: translations changed since the witness

vars == <<src, current_token, proof, inflight, target, witness,
          terminal_source, since_capture, since_proof, chased, remapped>>
history == <<since_capture, since_proof, chased, remapped>>

Bit == {0, 1}

(* Updates are told apart up to two: none, one, more.                      *)
MaxUpdates == 2
OneMore(n) == IF n < MaxUpdates THEN n + 1 ELSE n

SourceExact == proof.value = src.value /\ proof.epoch = src.epoch

WitnessExact == /\ witness.valid
                /\ witness.target = target.candidate
                /\ witness.token = current_token

(* Mutant: fills reached through a witness are chased like any other.      *)
CanIssueChasing == /\ src.clean /\ proof.valid /\ SourceExact
                   /\ proof.token = current_token
                   /\ target.same_page \/ WitnessExact

CanIssue == /\ src.clean /\ proof.valid /\ SourceExact
            /\ proof.token = current_token
            /\ ~terminal_source
            /\ target.same_page \/ WitnessExact

(* Mutant: the tag's value and epoch are not compared.                     *)
CepfMatchOfToken == src.clean /\ inflight.token = current_token

CepfMatch == /\ src.clean
             /\ inflight.value = src.value /\ inflight.epoch = src.epoch
             /\ inflight.token = current_token

-----------------------------------------------------------------------------
Init == /\ src = [clean |-> FALSE, value |-> 0, epoch |-> 0]
        /\ current_token = FirstToken
        /\ proof = [valid |-> FALSE, value |-> 0, epoch |-> 0,
                    token |-> FirstToken, sound |-> FALSE]
        /\ inflight = [valid |-> FALSE, value |-> 0, epoch |-> 0,
                       token |-> FirstToken]
        /\ target = [same_page |-> TRUE, candidate |-> 0]
        /\ witness = [valid |-> FALSE, target |-> 0, token |-> FirstToken]
        /\ terminal_source = FALSE
        /\ since_capture = 0 /\ since_proof = 0
        /\ chased = FALSE /\ remapped = FALSE

DemandLoad ==
    /\ src' = [src EXCEPT !.clean = TRUE]
    /\ terminal_source' = FALSE /\ chased' = FALSE
    /\ UNCHANGED <<current_token, proof, inflight, target, witness,
                   since_capture, since_proof, remapped>>

CaptureTag ==
    /\ inflight' = [valid |-> src.clean, value |-> src.value,
                    epoch |-> src.epoch, token |-> current_token]
    /\ since_capture' = 0
    /\ UNCHANGED <<src, current_token, proof, target, witness,
                   terminal_source, since_proof, chased, remapped>>

CommitPointerUse ==
    /\ inflight.valid /\ CepfMatch
    /\ proof' = [valid |-> TRUE, value |-> src.value, epoch |-> src.epoch,
                 token |-> current_token, sound |-> CepfMatch]
    /\ inflight' = [inflight EXCEPT !.valid = FALSE]
    /\ since_proof' = 0
    /\ UNCHANGED <<src, current_token, target, witness, terminal_source,
                   since_capture, chased, remapped>>

Squash ==
    /\ inflight.valid
    /\ inflight' = [inflight EXCEPT !.valid = FALSE]
    /\ UNCHANGED <<src, current_token, proof, target, witness,
                   terminal_source, history>>

ProofAfterUpdate == [proof EXCEPT !.valid = FALSE, !.sound = FALSE]

(* A store or fill, or an update by coherence or DMA.                      *)
SourceUpdate ==
    /\ src' = [clean |-> FALSE, value |-> 1 - src.value,
               epoch |-> 1 - src.epoch]
    /\ proof' = ProofAfterUpdate
    /\ terminal_source' = FALSE /\ chased' = FALSE
    /\ since_capture' = OneMore(since_capture)
    /\ since_proof' = OneMore(since_proof)
    /\ UNCHANGED <<current_token, inflight, target, witness, remapped>>

WitnessAfterRemap == [witness EXCEPT !.valid = FALSE]

ContextSwitch ==
    /\ \E k \in Token \ {current_token} : current_token' = k
    /\ witness' = WitnessAfterRemap
    /\ remapped' = TRUE
    /\ UNCHANGED <<src, proof, inflight, target, terminal_source,
                   since_capture, since_proof, chased>>

TargetMoves ==
    /\ \/ \E b \in BOOLEAN : target' = [target EXCEPT !.same_page = b]
       \/ target' = [target EXCEPT !.candidate = 1 - @]
    /\ UNCHANGED <<src, current_token, proof, inflight, witness,
                   terminal_source, history>>

RecordWitness ==
    /\ witness' = [valid |-> TRUE, target |-> target.candidate,
                   token |-> current_token]
    /\ remapped' = FALSE
    /\ UNCHANGED <<src, current_token, proof, inflight, target,
                   terminal_source, since_capture, since_proof, chased>>

Remap ==
    /\ target' = [target EXCEPT !.candidate = 1 - @]
    /\ witness' = WitnessAfterRemap
    /\ remapped' = TRUE
    /\ UNCHANGED <<src, current_token, proof, inflight, terminal_source,
                   since_capture, since_proof, chased>>

EvictWitness ==
    /\ witness' = [witness EXCEPT !.valid = FALSE]
    /\ UNCHANGED <<src, current_token, proof, inflight, target,
                   terminal_source, history>>

IssuePrefetch ==
    /\ CanIssue
    /\ terminal_source' = (~target.same_page /\ witness.valid)
    /\ chased' = (chased \/ ~target.same_page)
    /\ UNCHANGED <<src, current_token, proof, inflight, target, witness,
                   since_capture, since_proof, remapped>>

Next == \/ DemandLoad \/ CaptureTag \/ CommitPointerUse \/ Squash
        \/ SourceUpdate \/ ContextSwitch \/ TargetMoves
        \/ RecordWitness \/ Remap \/ EvictWitness \/ IssuePrefetch

Spec == Init /\ [][Next]_vars

-----------------------------------------------------------------------------
(* Types.                                                                  *)
TypeOK ==
    /\ src \in [clean : BOOLEAN, value : Bit, epoch : Bit]
    /\ current_token \in Token
    /\ proof \in [valid : BOOLEAN, value : Bit, epoch : Bit, token : Token,
                  sound : BOOLEAN]
    /\ inflight \in [valid : BOOLEAN, value : Bit, epoch : Bit, token : Token]
    /\ target \in [same_page : BOOLEAN, candidate : Bit]
    /\ witness \in [valid : BOOLEAN, target : Bit, token : Token]
    /\ {terminal_source, chased, remapped} \subseteq BOOLEAN
    /\ {since_capture, since_proof} \subseteq 0 .. MaxUpdates

(* A prefetch is issued only with a proof made since the last update of    *)
(* its word, even when the bits of value and epoch have come round, from a *)
(* fill that was not itself reached through a witness, and across pages    *)
(* only by a witness that no change of translation has outdated.           *)
IssueIsSound ==
    CanIssue => /\ since_proof = 0 /\ proof.sound
                /\ ~chased
                /\ ~target.same_page => ~remapped

(* One update between the capture of a tag and its commit always keeps the *)
(* commit from making a proof.                                             *)
OneUpdateIsCaught ==
    [][~proof.valid /\ proof'.valid => since_capture # 1]_vars
=============================================================================
