----------------------------- MODULE LsqTracker -----------------------------
(***************************************************************************)
(* The backend side of a proof: the LSQ source-tag tracker of              *)
(* src/research/copper_lsq_source_tag_tracker.sv and the commit-epoch      *)
(* bridge (CEPF) behind it, copper_commit_epoch_proof_bridge.sv.  A load   *)
(* that may feed an address captures where its value came from; a memory   *)
(* instruction that retires with that tag proves the source word, unless   *)
(* the word changed in between.                                            *)
(*                                                                         *)
(* A retiring instruction that is squashed, faults, lacks translation or   *)
(* permission, or is no memory instruction proves nothing in either block: *)
(* here it is no retirement at all.  A tag that is not valid is NoTag.     *)
(***************************************************************************)
CONSTANTS
    Line, Word, Token, Epoch, Value,
    TagId,      \* the entries of the tracker
    NoTag       \* tag_valid is low; also: nothing captured, cleared, retired

VARIABLE tag

-----------------------------------------------------------------------------
(* What a capture brings, and what the tracker keeps.                      *)
Source == [line : Line, word : Word, token : Token, epoch : Epoch, value : Value]

Tag == [src : Source, stale : BOOLEAN]

(* The word was written, or its line filled or invalidated, in this cycle. *)
Destroys(src, writes, changed) ==
    <<src.line, src.word>> \in writes \/ src.line \in changed

(* proof_valid of the tracker, for the tag of a clean retirement and the   *)
(* epoch and value its source word has now.                                *)
ProofValid(id, flush, writes, changed, epoch, value) ==
    /\ id # NoTag /\ tag[id] # NoTag
    /\ ~tag[id].stale
    /\ ~flush
    /\ ~Destroys(tag[id].src, writes, changed)
    /\ tag[id].src.epoch = epoch
    /\ tag[id].src.value = value

(* epoch_ok of the bridge.                                                 *)
EpochOk(src, epoch) == src.epoch = epoch

-----------------------------------------------------------------------------
Init == tag = [id \in TagId |-> NoTag]

(* In the order of the assignments: a clear wins over a capture, a capture *)
(* over the events of its own cycle, and those over what the tag held.     *)
NextTag(id, flush, capture, cleared, writes, changed) ==
    CASE id = cleared -> NoTag
      [] id # cleared /\ id = capture.id -> [src |-> capture.src, stale |-> FALSE]
      [] id \notin {cleared, capture.id} /\ (flush \/ tag[id] = NoTag) -> NoTag
      [] OTHER -> [tag[id] EXCEPT
                     !.stale = @ \/ Destroys(tag[id].src, writes, changed)]

Edge(flush, capture, cleared, writes, changed) ==
    tag' = [id \in TagId |-> NextTag(id, flush, capture, cleared, writes, changed)]
=============================================================================
