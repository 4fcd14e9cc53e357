------------------------------- MODULE MCGates ------------------------------
(***************************************************************************)
(* EpochBoundary with two domains, four epochs and tokens of two bits, and *)
(* the provenance gates that stand alone, as five systems in one run: part,*)
(* chosen in the initial state, says which of them takes steps; the others *)
(* stay in one of their initial states.                                    *)
(*   boundary   EpochBoundary                                              *)
(*   sram       ClpdSram, two lines of one entry and one of another        *)
(*   line       LineGate, two lines of two words, two domains              *)
(*   stream     StreamTable, more streams and words than entries           *)
(*   unit       PrefetchUnit                                               *)
(***************************************************************************)
EXTENDS EpochBoundary

CONSTANTS
    None,                                    \* idle ports, invalid entries
    SramLine, SramWord, SramToken, SramEpoch,
    TOTAL_ENTRIES, SramIdx,                  \* of ClpdSram
    GateLine, Word, Tenant, ResetTenant,     \* of the line gate, its domains
    StreamId, StreamLine,
    STREAM_ENTRIES, DIRTY_ENTRIES, TRAIN_THRESHOLD,
    Pair, ENTRIES, QUEUE_DEPTH               \* of the prefetch unit

ASSUME SramAssumption == /\ TOTAL_ENTRIES \in Nat
                         /\ SramIdx \in [SramLine -> 0 .. TOTAL_ENTRIES - 1]
ASSUME TenantAssumption == IsFiniteSet(Tenant)
ASSUME QueueAssumption == QUEUE_DEPTH \in Nat

(* For TLC: the lines are 0, 1, ..., and the low bits are the index.       *)
LowBits == [l \in SramLine |-> l % TOTAL_ENTRIES]

VARIABLES
    part,
    entry_mem, init_addr, upd, response, directory,
    proof_bits, line_domain, proven, owners,
    stream_tab, dirty_cam, dirty_overflow, written,
    table, insert_ptr, queue_count, queued

Sram == INSTANCE ClpdSram
    WITH Line <- SramLine, Word <- SramWord, Token <- SramToken,
         Epoch <- SramEpoch, DirIdx <- SramIdx,
         NoEntry <- None, NoUpdate <- None, NoQuery <- None
LineP == INSTANCE LineGate
    WITH Line <- GateLine, Domain <- Tenant, ResetDomain <- ResetTenant
Streams == INSTANCE StreamTable
    WITH Stream <- StreamId, Line <- StreamLine, Domain <- Tenant
Unit == INSTANCE PrefetchUnit

ASSUME NoneAssumption ==
    /\ None \notin Sram!Entry \cup Sram!Update \cup Sram!Fact
    /\ None \notin [update : Sram!Update, entry : Sram!Entry \cup {None}]
    /\ None \notin LineP!Commit \cup LineP!WordOf \cup GateLine
    /\ None \notin Streams!Commit \cup Streams!Source

sram == <<entry_mem, init_addr, upd, response, directory>>
line == <<proof_bits, line_domain, proven, owners>>
stream == <<stream_tab, dirty_cam, dirty_overflow, written>>
unit == <<table, insert_ptr, queue_count, queued>>

(* The memory of an idle ClpdSram is empty.                                *)
GatesInit ==
    /\ part \in {"boundary", "sram", "line", "stream", "unit"}
    /\ Init /\ Sram!Init /\ LineP!Init /\ Streams!Init /\ Unit!Init
    /\ part # "sram" => entry_mem = directory

GatesNext ==
    \/ part = "boundary" /\ Next /\ UNCHANGED <<part, sram, line, stream, unit>>
    \/ part = "sram" /\ Sram!Next /\ UNCHANGED <<part, vars, line, stream, unit>>
    \/ part = "line" /\ LineP!Next /\ UNCHANGED <<part, vars, sram, stream, unit>>
    \/ part = "stream" /\ Streams!Next /\ UNCHANGED <<part, vars, sram, line, unit>>
    \/ part = "unit" /\ Unit!Next /\ UNCHANGED <<part, vars, sram, line, stream>>

Gates == GatesInit /\ [][GatesNext]_<<part, vars, sram, line, stream, unit>>

-----------------------------------------------------------------------------
(* An answer of the SRAM directory is that of a directory in which every   *)
(* accepted update is written at once.                                     *)
AnswerIsExact == Sram!AnswerIsExact

(* A line used by one domain answers exactly what was committed and not    *)
(* written since.                                                          *)
OneOwnerIsExact == LineP!OneOwnerIsExact

(* A word written since its last commit seeds no stream.                   *)
WrittenIsDirty == Streams!WrittenIsDirty

(* The count of queued prefetches never falls below the queue.             *)
CountCovers == Unit!CountCovers

(* The header of the line gate: an allowed word has a proof in the domain  *)
(* that asks.                                                              *)
AllowIsProven == LineP!AllowIsProven
=============================================================================
