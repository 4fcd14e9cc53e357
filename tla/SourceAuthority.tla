-------------------------- MODULE SourceAuthority ---------------------------
(***************************************************************************)
(* The source half of src/research/copper_full_lsq_amba_authority_top.sv:  *)
(* the tracker and its bridge, the revocation queue behind the front door, *)
(* the one-cycle revocation slice, and the CLPD directory, with the core   *)
(* and the coherence fabric around them.                                   *)
(*                                                                         *)
(* The queue is the abstract one, SariShift, which RevocationPath shows    *)
(* the ring behind its front door to implement.  A bus write takes effect  *)
(* when the front door accepts it.  The core makes one change to memory at *)
(* a time.  proven is the ground truth: the words used as addresses by     *)
(* retired instructions and unchanged since.                               *)
(***************************************************************************)
EXTENDS Naturals, Sequences

CONSTANTS
    Line, Word, Token, Value,
    EPOCHS,                     \* 2^EPOCH_W
    PointerWord,                \* the words that loads take addresses from
    TagId, NoTag,               \* the tracker
    DEPTH, NoLine,              \* the queue
    Index, DirIdx, NoEntry, NoCommit     \* the directory

ASSUME EpochsAssumption == EPOCHS \in Nat \ {0}
ASSUME PointerWordAssumption == PointerWord \subseteq Word
ASSUME DepthAssumption == DEPTH \in Nat
ASSUME NoLineAssumption == NoLine \notin Line
ASSUME DirIdxAssumption == DirIdx \in [Line -> Index]

VARIABLES
    tag,                            \* the tracker
    queue, overflow_sticky, owed,   \* the queue
    clear_q,                        \* source_clear_valid_q and its line
    entry,                          \* the directory
    line_epoch, value,              \* memory: lines and their pointer words
    proven                          \* history: <<line, word, token>>

vars == <<tag, queue, overflow_sticky, owed, clear_q, entry,
          line_epoch, value, proven>>

Epoch == 0 .. EPOCHS - 1

Lsq == INSTANCE LsqTracker
Sari == INSTANCE SariShift WITH SourceLine <- Line
Clpd == INSTANCE ClpdGate

ASSUME NoTagAssumption == NoTag \notin TagId /\ NoTag \notin Lsq!Tag
ASSUME NoEntryAssumption == NoEntry \notin Clpd!Entry

-----------------------------------------------------------------------------
(* What the core can do to memory at an edge.                              *)
CoreIdle == [kind |-> "idle"]
CoreChange ==
    [kind : {"write"}, line : Line, word : Word]
    \cup [kind : {"fill", "invalidate"}, line : Line]

Writes(core) == IF core.kind = "write" THEN {<<core.line, core.word>>} ELSE {}
Changed(core, kind) == IF core.kind = kind THEN {core.line} ELSE {}

(* The invalidate port of tracker and directory: a clear in the slice      *)
(* displaces the invalidate of the core.                                   *)
InvalidatePort(core) ==
    IF clear_q # NoLine THEN {clear_q} ELSE Changed(core, "invalidate")

(* Mutant: the hold does not know of the slice.                            *)
HoldWithoutSlice == Sari!RevocationHold

(* sari_dmp_revocation_hold in a cycle without new events.                 *)
Hold == Sari!RevocationHold \/ clear_q # NoLine

(* bridge_proof_valid and the commit it makes at the directory.            *)
Commit(id, flush, core) ==
    LET src == tag[id].src
    IN  IF /\ id # NoTag
           /\ Lsq!ProofValid(id, flush, Writes(core),
                             Changed(core, "fill") \cup InvalidatePort(core),
                             line_epoch[src.line], value[<<src.line, src.word>>])
           /\ Lsq!EpochOk(src, line_epoch[src.line])
        THEN [line |-> src.line, word |-> src.word, token |-> src.token,
              epoch |-> line_epoch[src.line]]
        ELSE NoCommit

-----------------------------------------------------------------------------
Init ==
    /\ Lsq!Init
    /\ Sari!Init
    /\ clear_q = NoLine
    /\ Clpd!Init
    /\ line_epoch = [l \in Line |-> 0]
    /\ value \in [Line \X PointerWord -> Value]
    /\ proven = {}

(* What a load can capture in this cycle.                                  *)
NoCapture == [id |-> NoTag]
Load == [id : TagId, line : Line, word : PointerWord, token : Token]
Captured(load) ==
    [id |-> load.id,
     src |-> [line |-> load.line, word |-> load.word, token |-> load.token,
              epoch |-> line_epoch[load.line],
              value |-> value[<<load.line, load.word>>]]]
Capture == {Captured(load) : load \in Load}

(* What the front door can accept, from DMA and I/O writing different      *)
(* lines: nothing while the queue is not ready.                            *)
Burst ==
    {<<NoLine, NoLine>>}
    \cup IF Sari!SourceEventsReady
         THEN {burst \in Line \X (Line \cup {NoLine}) : burst[1] # burst[2]}
         ELSE {}

(* The blocks of the top level at one edge.                                *)
TopEdge(flush, capture, cleared, retiring, core, dma, io) ==
    /\ Lsq!Edge(flush, capture, cleared, Writes(core),
                Changed(core, "fill") \cup InvalidatePort(core))
    /\ Sari!Edge(dma, NoLine, io)
    /\ clear_q' = Sari!ClearLine
    /\ Clpd!Edge(Commit(retiring, flush, core),
                 Changed(core, "write") \cup Changed(core, "fill")
                     \cup InvalidatePort(core))

NextEpoch(epoch) == (epoch + 1) % EPOCHS

(* Truth: an instruction that retires outside a flush proves the word its  *)
(* address came from, if the word still holds that address.                *)
Learned(retiring, flush) ==
    {<<tag[id].src.line, tag[id].src.word, tag[id].src.token>> :
        id \in {id \in {retiring} \ {NoTag} :
                  /\ ~flush
                  /\ tag[id].src.value = value[<<tag[id].src.line, tag[id].src.word>>]}}

(* Memory and truth.  A change by the core begins a new epoch of its line; *)
(* for a write from the bus the core may or may not do so.                 *)
MemoryEdge(retiring, flush, core, dma, io) ==
    LET bus == {dma, io} \ {NoLine}
        coreLine == IF core = CoreIdle THEN {} ELSE {core.line}
        destroyed(l, w) ==
            \/ l \in bus
            \/ l \in coreLine /\ (core.kind = "write" => core.word = w)
    IN  /\ line_epoch' \in
              {[l \in Line |-> IF l \in bumped \cup coreLine
                              THEN NextEpoch(line_epoch[l])
                              ELSE line_epoch[l]] : bumped \in {{}, bus}}
        /\ value' \in
              {[lw \in Line \X PointerWord |-> IF destroyed(lw[1], lw[2])
                                              THEN new
                                              ELSE value[lw]] : new \in Value}
        /\ proven' = {p \in proven \cup Learned(retiring, flush) : ~destroyed(p[1], p[2])}

Edge(core) ==
    \E flush \in BOOLEAN, capture \in Capture \cup {NoCapture},
       cleared \in TagId \cup {NoTag},
       retiring \in {id \in TagId : tag[id] # NoTag} \cup {NoTag},
       burst \in Burst :
        /\ TopEdge(flush, capture, cleared, retiring, core, burst[1], burst[2])
        /\ MemoryEdge(retiring, flush, core, burst[1], burst[2])

Next == \E core \in CoreChange \cup {CoreIdle} : Edge(core)

Spec == Init /\ [][Next]_vars

(* A core that keeps its invalidates away from the cycles in which the     *)
(* slice delivers a clear, although no wire tells it to.                   *)
CourteousNext ==
    \E core \in CoreChange \cup {CoreIdle} :
        /\ core.kind = "invalidate" => clear_q = NoLine
        /\ Edge(core)

CourteousSpec == Init /\ [][CourteousNext]_vars

-----------------------------------------------------------------------------
(* Types of the blocks, of memory and of the truth.                        *)
TypeOK ==
    /\ tag \in [TagId -> Lsq!Tag \cup {NoTag}]
    /\ Sari!TypeOK
    /\ clear_q \in Line \cup {NoLine}
    /\ entry \in [Index -> Clpd!Entry \cup {NoEntry}]
    /\ line_epoch \in [Line -> Epoch]
    /\ value \in [Line \X PointerWord -> Value]
    /\ proven \subseteq Line \X Word \X Token

(* The clear of the line is queued or in the slice.                        *)
InQueue(q, l) == \E i \in 1 .. Len(q) : q[i] = l
Pending(l) == l = clear_q \/ InQueue(queue, l)

(* Why IssueIsProven holds: the queue never overflows, and an entry that   *)
(* vouches for a word that is not proven has its clear on the way.         *)
UnprovenIsPending ==
    /\ ~overflow_sticky
    /\ \A i \in Index : entry[i] # NoEntry =>
          /\ DirIdx[entry[i].tag] = i
          /\ \/ Pending(entry[i].tag)
             \/ \A w \in entry[i].mask :
                   <<entry[i].tag, w, entry[i].token>> \in proven

(* While the prefetcher is not held, a word that the directory authorizes  *)
(* was used as an address by a retired instruction and has not changed     *)
(* since.  Instructions retire with tags captured before a change that is  *)
(* still in the queue or the slice, captures and commits meet changes in   *)
(* one cycle, lines share an entry, epochs come round and words regain old *)
(* values: the tracker, the queue, the slice and the directory must each   *)
(* do their part, and the hold must last until the clear has landed.       *)
IssueIsProven ==
    ~Hold => \A l \in Line, w \in Word, t \in Token :
        Clpd!SourceAuthorized([line |-> l, word |-> w, token |-> t,
                               epoch |-> line_epoch[l]], t)
            => <<l, w, t>> \in proven

(* "on line fill/invalidation for L: proof_bits[L][*] = 0": when the core  *)
(* changes a line, which here begins its new epoch while no bus write of   *)
(* the line is on its way, the directory has no proof of it afterwards.    *)
CoreChangeClearsProof ==
    [][\A l \in Line :
         line_epoch'[l] # line_epoch[l] /\ l \notin owed' \cup {clear_q'}
             => ~Clpd!SourceLineHit(l)']_vars
=============================================================================
