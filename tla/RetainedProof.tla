--------------------------- MODULE RetainedProof ----------------------------
(***************************************************************************)
(* The retained source proof: the ROCCA adapter in front of the CLPD       *)
(* directory, as src/research/copper_rocca_clpd_commit_adapter_top.sv      *)
(* wires them, with the core and the coherence fabric that drive the two.  *)
(*                                                                         *)
(* The fabric gives a line a new epoch whenever it writes, fills or        *)
(* invalidates it; epochs are few and come round again.  proven is the     *)
(* ground truth, a history variable: the words used as addresses by        *)
(* retired instructions since their line last changed.                     *)
(***************************************************************************)
EXTENDS Naturals, FiniteSets

CONSTANTS
    Line, Word, Token, Index, DirIdx, NoEntry, NoCommit,
    EPOCHS      \* 2^EPOCH_W

ASSUME EpochsAssumption == EPOCHS \in Nat \ {0}

VARIABLES
    entry,        \* the directory
    line_epoch,   \* the current epoch of every line
    proven        \* history: <<line, word, token>>

vars == <<entry, line_epoch, proven>>

Epoch == 0 .. EPOCHS - 1

Clpd == INSTANCE ClpdGate
Rocca == INSTANCE RoccaAdapter

ASSUME DirIdxAssumption == DirIdx \in [Line -> Index]
ASSUME NoEntryAssumption == NoEntry \notin Clpd!Entry
ASSUME NoCommitAssumption == NoCommit \notin Clpd!Fact

-----------------------------------------------------------------------------
(* At most one line is written, one filled and one invalidated at an edge. *)
ClearSet == {cleared \in SUBSET Line : Cardinality(cleared) <= 3}

Init ==
    /\ Clpd!Init
    /\ line_epoch = [l \in Line |-> 0]
    /\ proven = {}

FabricEdge(cleared) ==
    line_epoch' = [l \in Line |-> IF l \in cleared
                                  THEN (line_epoch[l] + 1) % EPOCHS
                                  ELSE line_epoch[l]]

(* Truth: a change of a line ends every proof about it, one retiring in    *)
(* the same cycle included.                                                *)
Learn(new, cleared) ==
    proven' = {p \in proven \cup new : p[1] \notin cleared}

Triple(f) == <<f.line, f.word, f.token>>

(* An edge at which the retire guard presents a proof.  The guard's source *)
(* tag may be of an older epoch, its line no longer clean, its translation *)
(* or permission gone.                                                     *)
Retire(proof, sourceClean, faultPermOk, globalClear, cleared) ==
    LET epochMatch == proof.epoch = line_epoch[proof.line]
    IN  /\ Clpd!Edge(Rocca!ClpdCommit(proof, sourceClean, epochMatch,
                                      faultPermOk, globalClear, cleared),
                     cleared)
        /\ Learn(IF /\ Rocca!MayCommit(proof, sourceClean, epochMatch, faultPermOk)
                    /\ ~globalClear
                 THEN {Triple(proof)} ELSE {},
                 cleared)
        /\ FabricEdge(cleared)

(* An edge at which no proof retires.                                      *)
Change(cleared) ==
    /\ Clpd!Edge(NoCommit, cleared)
    /\ Learn({}, cleared)
    /\ FabricEdge(cleared)

Next ==
    \E cleared \in ClearSet :
        \/ Change(cleared)
        \/ \E proof \in Clpd!Fact, sourceClean, faultPermOk, globalClear \in BOOLEAN :
              Retire(proof, sourceClean, faultPermOk, globalClear, cleared)

Spec == Init /\ [][Next]_vars

(* The directory without the adapter, as in src/research/                  *)
(* copper_amba_sari_authority_bridge_top.sv: retired proofs are written    *)
(* straight into it.                                                       *)
BareRetire(proof, cleared) ==
    /\ proof.epoch = line_epoch[proof.line]
    /\ Clpd!Edge(proof, cleared)
    /\ Learn({Triple(proof)}, cleared)
    /\ FabricEdge(cleared)

BareNext ==
    \E cleared \in ClearSet :
        \/ Change(cleared)
        \/ \E proof \in Clpd!Fact : BareRetire(proof, cleared)

BareSpec == Init /\ [][BareNext]_vars

-----------------------------------------------------------------------------
(* Types of the directory, the epochs and the truth.                       *)
TypeOK ==
    /\ entry \in [Index -> Clpd!Entry \cup {NoEntry}]
    /\ line_epoch \in [Line -> Epoch]
    /\ proven \subseteq Line \X Word \X Token

(* Why the directory can be believed: a valid entry is in the place its    *)
(* line maps to, has the line's current epoch, and every bit of its mask   *)
(* was proven.                                                             *)
DirectoryIsTrue ==
    \A i \in Index : entry[i] # NoEntry =>
        /\ DirIdx[entry[i].tag] = i
        /\ entry[i].epoch = line_epoch[entry[i].tag]
        /\ \A w \in entry[i].mask :
              <<entry[i].tag, w, entry[i].token>> \in proven

(* What the directory authorizes is true: the word was used as an address  *)
(* by a retired instruction, under this token, since its line last         *)
(* changed, and the seed names the current epoch of the line.  Clears and  *)
(* commits of one cycle, epochs that come round and lines that share an    *)
(* entry are where a dead proof could come back to life.                   *)
AuthorityIsProven ==
    \A f \in Clpd!Fact, t \in Token :
        Clpd!SourceAuthorized(f, t) =>
            f.epoch = line_epoch[f.line] /\ Triple(f) \in proven

(* "Any source-line write/fill/invalidate clears the retained line proof." *)
ChangeClearsProof ==
    [][\A l \in Line : line_epoch'[l] # line_epoch[l] => ~Clpd!SourceLineHit(l)']_vars

(* A proof that has just been learned is retained, whatever shared its     *)
(* entry before.                                                           *)
LearnedIsRetained ==
    [][\A f \in Clpd!Fact :
         Triple(f) \in proven' \ proven /\ f.epoch = line_epoch'[f.line] =>
             Clpd!SourceAuthorized(f, f.token)']_vars
=============================================================================
