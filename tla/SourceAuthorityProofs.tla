----------------------- MODULE SourceAuthorityProofs ------------------------
(***************************************************************************)
(* Proofs about SourceAuthority: tracker, revocation queue, slice and      *)
(* directory of the full top, with a core that keeps its invalidates away  *)
(* from the clears of the slice, for every number of lines, words, tokens, *)
(* values, tags and entries, every width of epochs and every depth.        *)
(***************************************************************************)
EXTENDS SourceAuthority, SequenceTheorems, TLAPS

USE EpochsAssumption, PointerWordAssumption, DepthAssumption, NoLineAssumption,
    DirIdxAssumption, NoTagAssumption, NoEntryAssumption

(* What every edge does: what the front door accepts fits into the queue,  *)
(* and the core keeps its invalidates away from the clears of the slice.   *)
IsEdge(flush, capture, cleared, retiring, core, dma, io) ==
    /\ flush \in BOOLEAN
    /\ capture \in Capture \cup {NoCapture}
    /\ cleared \in TagId \cup {NoTag}
    /\ retiring \in {id \in TagId : tag[id] # NoTag} \cup {NoTag}
    /\ core \in CoreChange \cup {CoreIdle}
    /\ core.kind = "invalidate" => clear_q = NoLine
    /\ dma \in Line \cup {NoLine} /\ io \in Line \cup {NoLine}
    /\ dma # NoLine \/ io # NoLine => Sari!SourceEventsReady
    /\ TopEdge(flush, capture, cleared, retiring, core, dma, io)
    /\ MemoryEdge(retiring, flush, core, dma, io)

(* Every step of the composition is a clock edge of all its parts, for     *)
(* some inputs: what the lemmas below are about.                           *)
LEMMA NextIsEdge ==
    ASSUME CourteousNext
    PROVE  \E flush, capture, cleared, retiring, core, dma, io :
              IsEdge(flush, capture, cleared, retiring, core, dma, io)
<1>1. PICK core \in CoreChange \cup {CoreIdle} :
         (core.kind = "invalidate" => clear_q = NoLine) /\ Edge(core)
  BY DEF CourteousNext
<1>2. PICK flush \in BOOLEAN, capture \in Capture \cup {NoCapture},
           cleared \in TagId \cup {NoTag},
           retiring \in {id \in TagId : tag[id] # NoTag} \cup {NoTag},
           burst \in Burst :
         /\ TopEdge(flush, capture, cleared, retiring, core, burst[1], burst[2])
         /\ MemoryEdge(retiring, flush, core, burst[1], burst[2])
  BY <1>1 DEF Edge
<1>3. /\ burst[1] \in Line \cup {NoLine} /\ burst[2] \in Line \cup {NoLine}
      /\ burst[1] # NoLine \/ burst[2] # NoLine => Sari!SourceEventsReady
  BY DEF Burst
<1>4. IsEdge(flush, capture, cleared, retiring, core, burst[1], burst[2])
  BY <1>1, <1>2, <1>3 DEF IsEdge
<1> QED  BY <1>4

-----------------------------------------------------------------------------
(* The queue.                                                              *)
LEMMA EnqueueKeeps ==
    ASSUME NEW q \in Seq(Line), NEW line \in Line \cup {NoLine}, Len(q) < DEPTH
    PROVE  /\ Sari!Enqueue(q, line) \in Seq(Line)
           /\ Len(Sari!Enqueue(q, line)) <= Len(q) + 1
           /\ \A l \in Line : InQueue(q, l) => InQueue(Sari!Enqueue(q, line), l)
           /\ line # NoLine => InQueue(Sari!Enqueue(q, line), line)
<1>1. CASE line = NoLine
  <2>1. Sari!Enqueue(q, line) = q
    BY <1>1 DEF Sari!Enqueue
  <2> QED  BY <1>1, <2>1
<1>2. CASE line \in Line
  <2>1. Sari!Enqueue(q, line) = Append(q, line)
    BY <1>2 DEF Sari!Enqueue
  <2>2. /\ Append(q, line) \in Seq(Line)
        /\ Len(Append(q, line)) = Len(q) + 1
        /\ \A i \in 1 .. Len(q) : Append(q, line)[i] = q[i]
        /\ Append(q, line)[Len(q) + 1] = line
    BY <1>2, AppendProperties
  <2>3. Len(q) \in Nat
    OBVIOUS
  <2>4. \A l \in Line : InQueue(q, l) => InQueue(Append(q, line), l)
    BY <2>2, <2>3 DEF InQueue
  <2>5. InQueue(Append(q, line), line)
    BY <2>2, <2>3 DEF InQueue
  <2> QED  BY <2>1, <2>2, <2>3, <2>4, <2>5
<1> QED  BY <1>1, <1>2

(* The shift takes the clear out and keeps the rest.                       *)
LEMMA ShiftKeeps ==
    ASSUME queue \in Seq(Line)
    PROVE  /\ Sari!Shifted \in Seq(Line)
           /\ Len(Sari!Shifted) <= Len(queue)
           /\ queue # << >> => Len(Sari!Shifted) = Len(queue) - 1
           /\ Sari!ClearLine \in Line \cup {NoLine}
           /\ \A l \in Line : InQueue(queue, l) =>
                  l = Sari!ClearLine \/ InQueue(Sari!Shifted, l)
<1>1. CASE queue = << >>
  <2>1. Sari!Shifted = queue /\ Sari!ClearLine = NoLine
    BY <1>1 DEF Sari!Shifted, Sari!ClearLine
  <2>2. Len(queue) = 0
    BY <1>1
  <2> QED  BY <1>1, <2>1, <2>2 DEF InQueue
<1>2. CASE queue # << >>
  <2>1. Sari!Shifted = Tail(queue) /\ Sari!ClearLine = Head(queue)
    BY <1>2 DEF Sari!Shifted, Sari!ClearLine
  <2>2. /\ Head(queue) \in Line
        /\ Tail(queue) \in Seq(Line)
        /\ Len(Tail(queue)) = Len(queue) - 1
        /\ \A i \in 1 .. Len(Tail(queue)) : Tail(queue)[i] = queue[i + 1]
    BY <1>2, HeadTailProperties
  <2>3. Len(queue) \in Nat /\ Head(queue) = queue[1]
    OBVIOUS
  <2>4. ASSUME NEW l \in Line, InQueue(queue, l), l # Head(queue)
        PROVE  InQueue(Tail(queue), l)
    <3>1. PICK i \in 1 .. Len(queue) : queue[i] = l
      BY <2>4 DEF InQueue
    <3>2. i # 1
      BY <2>3, <2>4, <3>1
    <3>3. i - 1 \in 1 .. Len(Tail(queue)) /\ Tail(queue)[i - 1] = queue[i]
      BY <2>2, <2>3, <3>2
    <3> QED  BY <3>1, <3>3 DEF InQueue
  <2> QED  BY <2>1, <2>2, <2>3, <2>4
<1> QED  BY <1>1, <1>2

(* The clear of the line is pending after the edge.                        *)
NextPending(l) == l = clear_q' \/ InQueue(queue', l)

(* An edge loses nothing: the queue has room for what the front door lets  *)
(* through, and every pending line but the one cleared stays pending.      *)
LEMMA QueueStep ==
    ASSUME TypeOK, ~overflow_sticky,
           NEW dma \in Line \cup {NoLine}, NEW io \in Line \cup {NoLine},
           dma # NoLine \/ io # NoLine => Sari!SourceEventsReady,
           Sari!Edge(dma, NoLine, io), clear_q' = Sari!ClearLine
    PROVE  /\ queue' \in Seq(Line) /\ Len(queue') <= DEPTH
           /\ overflow_sticky' = FALSE
           /\ clear_q' \in Line \cup {NoLine}
           /\ \A l \in Line : Pending(l) /\ l # clear_q => NextPending(l)
           /\ \A l \in {dma, io} \ {NoLine} : NextPending(l)
<1> DEFINE q1 == Sari!Enqueue(Sari!Shifted, dma)
           q2 == Sari!Enqueue(q1, NoLine)
           q3 == Sari!Enqueue(q2, io)
<1>1. /\ queue \in Seq(Line) /\ Len(queue) <= DEPTH /\ Len(queue) \in Nat
  BY DEF TypeOK, Sari!TypeOK
<1>2. q2 = q1
  BY DEF Sari!Enqueue
<1>3. queue' = q3
  BY DEF Sari!Edge
<1>4. overflow_sticky' = (\/ Sari!Lost(Sari!Shifted, dma)
                          \/ Sari!Lost(q1, NoLine) \/ Sari!Lost(q2, io))
  BY DEF Sari!Edge
<1>5. /\ Sari!Shifted \in Seq(Line) /\ Len(Sari!Shifted) \in Nat
      /\ Len(Sari!Shifted) <= DEPTH
      /\ Sari!ClearLine \in Line \cup {NoLine}
      /\ \A l \in Line : InQueue(queue, l) =>
             l = Sari!ClearLine \/ InQueue(Sari!Shifted, l)
  BY <1>1, ShiftKeeps
<1>6. CASE dma = NoLine /\ io = NoLine
  <2>1. q1 = Sari!Shifted /\ q3 = Sari!Shifted
    BY <1>2, <1>6 DEF Sari!Enqueue
  <2>2. overflow_sticky' = FALSE
    BY <1>4, <1>6 DEF Sari!Lost
  <2> QED  BY <1>3, <1>5, <1>6, <2>1, <2>2 DEF Pending, NextPending
<1>7. CASE dma # NoLine \/ io # NoLine
  <2>1. Len(Sari!Shifted) + 3 <= DEPTH
    BY <1>1, <1>5, <1>7, ShiftKeeps DEF Sari!SourceEventsReady,
       Sari!SpaceAfterDequeue, Sari!Shifted
  <2>2. /\ q1 \in Seq(Line) /\ Len(q1) \in Nat /\ Len(q1) <= Len(Sari!Shifted) + 1
        /\ \A l \in Line : InQueue(Sari!Shifted, l) => InQueue(q1, l)
        /\ dma # NoLine => InQueue(q1, dma)
    BY <1>5, <2>1, EnqueueKeeps
  <2>3. /\ q3 \in Seq(Line) /\ Len(q3) <= Len(q1) + 1
        /\ \A l \in Line : InQueue(q1, l) => InQueue(q3, l)
        /\ io # NoLine => InQueue(q3, io)
    BY <1>2, <1>5, <2>1, <2>2, EnqueueKeeps
  <2>4. overflow_sticky' = FALSE
    BY <1>2, <1>4, <1>5, <2>1, <2>2 DEF Sari!Lost
  <2>5. Len(q3) <= DEPTH
    BY <1>5, <2>1, <2>2, <2>3
  <2>6. ASSUME NEW l \in {dma, io} \ {NoLine}
        PROVE  InQueue(q3, l)
    BY <2>2, <2>3
  <2> HIDE DEF q1, q2, q3
  <2> QED  BY <1>3, <1>5, <2>2, <2>3, <2>4, <2>5, <2>6 DEF Pending, NextPending
<1> QED  BY <1>6, <1>7

-----------------------------------------------------------------------------
(* The directory.                                                          *)
Revoked(core) ==
    Changed(core, "write") \cup Changed(core, "fill") \cup InvalidatePort(core)

(* What memory and truth do with what retires: the line of every change by *)
(* the core and of the clear in the slice is revoked, and what is not      *)
(* changed stays proven.                                                   *)
LEMMA TruthStep ==
    ASSUME TypeOK, NEW flush, NEW capture, NEW cleared, NEW retiring, NEW core,
           NEW dma, NEW io,
           IsEdge(flush, capture, cleared, retiring, core, dma, io)
    PROVE  /\ clear_q # NoLine => clear_q \in Revoked(core)
           /\ \A p \in proven : p[1] \notin Revoked(core) \cup {dma, io}
                                   => p \in proven'
<1>1. /\ core \in CoreChange \cup {CoreIdle}
      /\ core.kind = "invalidate" => clear_q = NoLine
      /\ MemoryEdge(retiring, flush, core, dma, io)
  BY DEF IsEdge
<1>2. clear_q # NoLine => clear_q \in Revoked(core)
  BY DEF Revoked, InvalidatePort
<1>3. core # CoreIdle => core.line \in Revoked(core)
  BY <1>1 DEF CoreChange, CoreIdle, Revoked, InvalidatePort, Changed
<1>4. ASSUME NEW p \in proven, p[1] \notin Revoked(core) \cup {dma, io}
      PROVE  p \in proven'
  <2>1. p[1] \notin {dma, io} \ {NoLine}
    BY <1>4
  <2>2. p[1] \notin IF core = CoreIdle THEN {} ELSE {core.line}
    BY <1>3, <1>4
  <2> QED  BY <1>1, <2>1, <2>2 DEF MemoryEdge
<1> QED  BY <1>2, <1>4

(* A commit is of a word that is proven by the instruction that retires,   *)
(* and its line is neither filled nor the one in the slice.                *)
LEMMA CommitIsLearned ==
    ASSUME TypeOK, NEW flush, NEW capture, NEW cleared, NEW retiring, NEW core,
           NEW dma, NEW io,
           IsEdge(flush, capture, cleared, retiring, core, dma, io),
           NEW c, c = Commit(retiring, flush, core), c # NoCommit
    PROVE  /\ c \in Clpd!Fact
           /\ c.line \notin {dma, io} =>
                 <<c.line, c.word, c.token>> \in proven'
<1> DEFINE src == tag[retiring].src
<1>1. /\ retiring \in TagId /\ tag[retiring] # NoTag
      /\ Lsq!ProofValid(retiring, flush, Writes(core),
                        Changed(core, "fill") \cup InvalidatePort(core),
                        line_epoch[src.line], value[<<src.line, src.word>>])
      /\ c = [line |-> src.line, word |-> src.word, token |-> src.token,
              epoch |-> line_epoch[src.line]]
  BY DEF Commit, IsEdge, Lsq!ProofValid
<1>2. tag[retiring] \in Lsq!Tag
  BY <1>1 DEF TypeOK
<1>3. src.line \in Line /\ src.word \in Word /\ src.token \in Token
  BY <1>2 DEF Lsq!Tag, Lsq!Source
<1>4. line_epoch[src.line] \in Epoch
  BY <1>3 DEF TypeOK
<1>5. c \in Clpd!Fact
  BY <1>1, <1>3, <1>4 DEF Clpd!Fact
<1>6. <<src.line, src.word, src.token>> \in Learned(retiring, flush)
  BY <1>1 DEF Learned, Lsq!ProofValid
<1>7. ~Lsq!Destroys(src, Writes(core), Changed(core, "fill") \cup InvalidatePort(core))
  BY <1>1 DEF Lsq!ProofValid
<1>8. /\ core \in CoreChange \cup {CoreIdle}
      /\ core.kind = "invalidate" => clear_q = NoLine
      /\ MemoryEdge(retiring, flush, core, dma, io)
  BY DEF IsEdge
<1>9. core # CoreIdle /\ core.line = src.line =>
         core.kind = "write" /\ core.word # src.word
  BY <1>7, <1>8 DEF Lsq!Destroys, Writes, Changed, InvalidatePort, CoreChange, CoreIdle
<1>10. ASSUME c.line \notin {dma, io}
       PROVE  <<src.line, src.word, src.token>> \in proven'
  <2>1. src.line \notin {dma, io} \ {NoLine}
    BY <1>1, <1>10
  <2> QED  BY <1>6, <1>8, <1>9, <2>1 DEF MemoryEdge
<1> QED  BY <1>1, <1>5, <1>10

(* The four things an edge can do to an entry.                             *)
LEMMA EntryCases ==
    ASSUME NEW i \in Index, NEW commit, NEW cleared, Clpd!Edge(commit, cleared),
           entry \in [Index -> Clpd!Entry \cup {NoEntry}]
    PROVE  \/ entry'[i] = NoEntry
           \/ /\ commit # NoCommit
              /\ DirIdx[commit.line] = i
              /\ entry'[i] = Clpd!Replacement(commit)
           \/ /\ commit # NoCommit
              /\ Clpd!Merges(i, commit)
              /\ ~Clpd!ClearHits(i, cleared)
              /\ entry'[i] = [entry[i] EXCEPT !.mask = @ \cup {commit.word}]
           \/ /\ ~Clpd!ClearHits(i, cleared)
              /\ entry'[i] = entry[i]
<1>1. entry'[i] = Clpd!NextEntry(i, commit, cleared)
  BY DEF Clpd!Edge
<1> QED  BY <1>1 DEF Clpd!NextEntry

(* An edge leaves every entry proven or its clear pending.                 *)
LEMMA DirectoryStep ==
    ASSUME TypeOK, UnprovenIsPending, NEW flush, NEW capture, NEW cleared,
           NEW retiring, NEW core, NEW dma, NEW io,
           IsEdge(flush, capture, cleared, retiring, core, dma, io)
    PROVE  UnprovenIsPending'
<1> DEFINE commit == Commit(retiring, flush, core)
<1>1. /\ dma \in Line \cup {NoLine} /\ io \in Line \cup {NoLine}
      /\ dma # NoLine \/ io # NoLine => Sari!SourceEventsReady
      /\ Sari!Edge(dma, NoLine, io) /\ clear_q' = Sari!ClearLine
      /\ Clpd!Edge(commit, Revoked(core))
  BY DEF IsEdge, TopEdge, Revoked
<1>2. /\ overflow_sticky' = FALSE
      /\ \A l \in Line : Pending(l) /\ l # clear_q => NextPending(l)
      /\ \A l \in {dma, io} \ {NoLine} : NextPending(l)
  BY <1>1, QueueStep DEF UnprovenIsPending
<1>3. /\ clear_q # NoLine => clear_q \in Revoked(core)
      /\ \A p \in proven : p[1] \notin Revoked(core) \cup {dma, io}
                              => p \in proven'
  BY TruthStep
<1>4. commit # NoCommit =>
         /\ commit \in Clpd!Fact
         /\ commit.line \notin {dma, io} =>
               <<commit.line, commit.word, commit.token>> \in proven'
  BY CommitIsLearned
<1> HIDE DEF commit
<1> SUFFICES ASSUME NEW i \in Index, entry'[i] # NoEntry
             PROVE  /\ DirIdx[entry'[i].tag] = i
                    /\ \/ NextPending(entry'[i].tag)
                       \/ \A w \in entry'[i].mask :
                             <<entry'[i].tag, w, entry'[i].token>> \in proven'
  BY <1>2 DEF UnprovenIsPending, Pending, NextPending, InQueue
<1>5. CASE /\ commit # NoCommit
           /\ DirIdx[commit.line] = i
           /\ entry'[i] = Clpd!Replacement(commit)
  <2>1. commit.line \in Line
    BY <1>4, <1>5 DEF Clpd!Fact
  <2>2. /\ entry'[i].tag = commit.line
        /\ entry'[i].token = commit.token
        /\ entry'[i].mask = {commit.word}
    BY <1>5 DEF Clpd!Replacement
  <2>3. CASE commit.line \in {dma, io}
    <3>1. NextPending(commit.line)
      BY <1>2, <2>1, <2>3
    <3> QED  BY <1>5, <2>2, <3>1
  <2>4. CASE commit.line \notin {dma, io}
    BY <1>4, <1>5, <2>2, <2>4
  <2> QED  BY <2>3, <2>4
<1>6. ASSUME entry[i] # NoEntry, ~Clpd!ClearHits(i, Revoked(core))
      PROVE  /\ entry[i] \in Clpd!Entry /\ entry[i].tag \in Line
             /\ DirIdx[entry[i].tag] = i
             /\ \/ NextPending(entry[i].tag)
                \/ /\ entry[i].tag \notin {dma, io}
                   /\ \A w \in entry[i].mask :
                         <<entry[i].tag, w, entry[i].token>> \in proven'
  <2>1. entry[i] \in Clpd!Entry
    BY <1>6 DEF TypeOK
  <2>2. entry[i].tag \in Line
    BY <2>1 DEF Clpd!Entry
  <2>3. DirIdx[entry[i].tag] = i
    BY <1>6 DEF UnprovenIsPending
  <2>4. entry[i].tag \notin Revoked(core)
    BY <1>6, <2>3 DEF Clpd!ClearHits
  <2>5. entry[i].tag # clear_q
    BY <1>3, <2>2, <2>4
  <2>6. CASE Pending(entry[i].tag) \/ entry[i].tag \in {dma, io}
    BY <1>2, <2>1, <2>2, <2>3, <2>5, <2>6
  <2>7. CASE ~Pending(entry[i].tag) /\ entry[i].tag \notin {dma, io}
    <3>1. \A w \in entry[i].mask : <<entry[i].tag, w, entry[i].token>> \in proven
      BY <1>6, <2>7 DEF UnprovenIsPending
    <3>2. \A w \in entry[i].mask : <<entry[i].tag, w, entry[i].token>> \in proven'
      BY <1>3, <2>4, <2>7, <3>1
    <3> QED  BY <2>1, <2>2, <2>3, <2>7, <3>2
  <2> QED  BY <2>6, <2>7
<1>7. CASE /\ commit # NoCommit
           /\ Clpd!Merges(i, commit)
           /\ ~Clpd!ClearHits(i, Revoked(core))
           /\ entry'[i] = [entry[i] EXCEPT !.mask = @ \cup {commit.word}]
  <2>1. /\ entry[i] # NoEntry
        /\ entry[i].tag = commit.line
        /\ entry[i].token = commit.token
    BY <1>7 DEF Clpd!Merges
  <2>2. /\ entry'[i].tag = entry[i].tag
        /\ entry'[i].token = entry[i].token
        /\ entry'[i].mask = entry[i].mask \cup {commit.word}
    BY <1>6, <1>7, <2>1 DEF Clpd!Entry
  <2>3. CASE NextPending(entry[i].tag)
    BY <1>6, <1>7, <2>1, <2>2, <2>3
  <2>4. CASE ~NextPending(entry[i].tag)
    BY <1>4, <1>6, <1>7, <2>1, <2>2, <2>4
  <2> QED  BY <2>3, <2>4
<1>8. CASE ~Clpd!ClearHits(i, Revoked(core)) /\ entry'[i] = entry[i]
  BY <1>6, <1>8
<1> QED  BY <1>1, <1>5, <1>7, <1>8, EntryCases DEF TypeOK

-----------------------------------------------------------------------------
(* What a retirement proves has the type of a proof.                       *)
LEMMA LearnedType ==
    ASSUME TypeOK, NEW retiring \in TagId \cup {NoTag}, NEW flush \in BOOLEAN,
           retiring # NoTag => tag[retiring] # NoTag
    PROVE  Learned(retiring, flush) \subseteq Line \X Word \X Token
<1> SUFFICES ASSUME retiring # NoTag
             PROVE  <<tag[retiring].src.line, tag[retiring].src.word,
                      tag[retiring].src.token>> \in Line \X Word \X Token
  BY DEF Learned
<1>1. tag[retiring] \in Lsq!Tag
  BY DEF TypeOK
<1> QED  BY <1>1 DEF Lsq!Tag, Lsq!Source

(* The tracker keeps types: a load captures what is in memory.             *)
LEMMA TagStep ==
    ASSUME TypeOK, NEW flush \in BOOLEAN, NEW capture \in Capture \cup {NoCapture}, NEW cleared,
           NEW writes, NEW changed,
           Lsq!Edge(flush, capture, cleared, writes, changed)
    PROVE  tag' \in [TagId -> Lsq!Tag \cup {NoTag}]
<1>1. tag' = [id \in TagId |->
                Lsq!NextTag(id, flush, capture, cleared, writes, changed)]
  BY DEF Lsq!Edge
<1> SUFFICES ASSUME NEW id \in TagId
             PROVE  Lsq!NextTag(id, flush, capture, cleared, writes, changed)
                       \in Lsq!Tag \cup {NoTag}
  BY <1>1
<1>2. CASE id # cleared /\ id = capture.id
  <2>1. capture \in Capture
    BY <1>2 DEF NoCapture
  <2>2. PICK load \in Load : capture = Captured(load)
    BY <2>1 DEF Capture
  <2>3. /\ load.line \in Line /\ load.word \in Word /\ load.token \in Token
        /\ <<load.line, load.word>> \in Line \X PointerWord
    BY PointerWordAssumption DEF Load
  <2>4. capture.src \in Lsq!Source
    <3>1. /\ line_epoch[load.line] \in Epoch
          /\ value[<<load.line, load.word>>] \in Value
      BY <2>3 DEF TypeOK
    <3>2. capture.src = [line |-> load.line, word |-> load.word,
                         token |-> load.token,
                         epoch |-> line_epoch[load.line],
                         value |-> value[<<load.line, load.word>>]]
      BY <2>2 DEF Captured
    <3> QED  BY <2>3, <3>1, <3>2 DEF Lsq!Source
  <2>5. [src |-> capture.src, stale |-> FALSE] \in Lsq!Tag
    BY <2>4 DEF Lsq!Tag
  <2> QED  BY <1>2, <2>5 DEF Lsq!NextTag
<1>3. CASE id # cleared /\ id # capture.id /\ ~flush /\ tag[id] # NoTag
  <2> DEFINE stale == tag[id].stale \/ Lsq!Destroys(tag[id].src, writes, changed)
  <2>1. tag[id] \in Lsq!Tag
    BY <1>3 DEF TypeOK
  <2>2. stale \in BOOLEAN
    BY DEF Lsq!Destroys
  <2>3. [tag[id] EXCEPT !.stale = stale] \in Lsq!Tag
    <3> HIDE DEF stale
    <3> QED  BY <2>1, <2>2 DEF Lsq!Tag
  <2>4. Lsq!NextTag(id, flush, capture, cleared, writes, changed)
           = [tag[id] EXCEPT !.stale = stale]
    BY <1>3 DEF Lsq!NextTag
  <2> QED  BY <2>3, <2>4
<1>4. CASE id = cleared \/ (id # cleared /\ id # capture.id /\ (flush \/ tag[id] = NoTag))
  BY <1>4 DEF Lsq!NextTag
<1> QED  BY <1>2, <1>3, <1>4

(* The types hold in every reachable state, and the queue never overflows: *)
(* the front door lets through only what it has room for.                  *)
THEOREM TypeCorrect == CourteousSpec => [](TypeOK /\ ~overflow_sticky)
<1>1. Init => TypeOK /\ ~overflow_sticky
  <2> SUFFICES ASSUME Init PROVE TypeOK /\ ~overflow_sticky
    OBVIOUS
  <2>1. Sari!TypeOK /\ ~overflow_sticky
    <3>1. << >> \in Seq(Line) /\ Len(<< >>) = 0
      OBVIOUS
    <3>2. queue = << >> /\ overflow_sticky = FALSE /\ owed = {}
      BY DEF Init, Sari!Init
    <3>3. queue \in Seq(Line) /\ Len(queue) <= DEPTH
      BY <3>1, <3>2
    <3> QED  BY <3>2, <3>3 DEF Sari!TypeOK
  <2>2. entry \in [Index -> Clpd!Entry \cup {NoEntry}]
    BY DEF Init, Clpd!Init
  <2>3. tag \in [TagId -> Lsq!Tag \cup {NoTag}]
    BY DEF Init, Lsq!Init
  <2>4. line_epoch \in [Line -> Epoch] /\ value \in [Line \X PointerWord -> Value]
    BY DEF Init, Epoch
  <2> QED  BY <2>1, <2>2, <2>3, <2>4 DEF Init, TypeOK
<1>2. TypeOK /\ ~overflow_sticky /\ [CourteousNext]_vars
         => TypeOK' /\ ~overflow_sticky'
  <2> SUFFICES ASSUME TypeOK, ~overflow_sticky, [CourteousNext]_vars
               PROVE  TypeOK' /\ ~overflow_sticky'
    OBVIOUS
  <2>1. CASE CourteousNext
    <3>1. PICK flush, capture, cleared, retiring, core, dma, io :
             IsEdge(flush, capture, cleared, retiring, core, dma, io)
      BY <2>1, NextIsEdge
    <3> DEFINE commit == Commit(retiring, flush, core)
    <3>2. /\ queue' \in Seq(Line) /\ Len(queue') <= DEPTH
          /\ overflow_sticky' = FALSE /\ clear_q' \in Line \cup {NoLine}
      BY <3>1, QueueStep DEF IsEdge, TopEdge
    <3>3. owed' \subseteq Line
      BY <3>1 DEF IsEdge, TopEdge, Sari!Edge, TypeOK, Sari!TypeOK
    <3>4. tag' \in [TagId -> Lsq!Tag \cup {NoTag}]
      BY <3>1, TagStep DEF IsEdge, TopEdge
    <3>5. ASSUME NEW i \in Index
          PROVE  entry'[i] \in Clpd!Entry \cup {NoEntry}
      <4>1. commit # NoCommit => commit \in Clpd!Fact
        BY <3>1, CommitIsLearned
      <4>2. Clpd!Edge(commit, Revoked(core))
        BY <3>1 DEF IsEdge, TopEdge, Revoked
      <4> HIDE DEF commit
      <4>3. commit # NoCommit => Clpd!Replacement(commit) \in Clpd!Entry
        BY <4>1 DEF Clpd!Fact, Clpd!Entry, Clpd!Replacement
      <4>4. ASSUME commit # NoCommit, Clpd!Merges(i, commit)
            PROVE  [entry[i] EXCEPT !.mask = @ \cup {commit.word}] \in Clpd!Entry
        <5>1. entry[i] \in Clpd!Entry
          BY <4>4 DEF Clpd!Merges, TypeOK
        <5>2. commit.word \in Word
          BY <4>1, <4>4 DEF Clpd!Fact
        <5> QED  BY <5>1, <5>2 DEF Clpd!Entry
      <4> QED  BY <4>2, <4>3, <4>4, EntryCases DEF TypeOK
    <3>6. entry' \in [Index -> Clpd!Entry \cup {NoEntry}]
      <4>1. entry' = [i \in Index |-> Clpd!NextEntry(i, commit, Revoked(core))]
        BY <3>1 DEF IsEdge, TopEdge, Clpd!Edge, Revoked
      <4> HIDE DEF commit
      <4> QED  BY <3>5, <4>1
    <3>7. line_epoch' \in [Line -> Epoch] /\ value' \in [Line \X PointerWord -> Value]
      <4>1. \A e \in Epoch : NextEpoch(e) \in Epoch
        BY DEF Epoch, NextEpoch
      <4>2. line_epoch' \in [Line -> Epoch]
        BY <3>1, <4>1 DEF IsEdge, MemoryEdge, TypeOK
      <4>3. value' \in [Line \X PointerWord -> Value]
        BY <3>1 DEF IsEdge, MemoryEdge, TypeOK
      <4> QED  BY <4>2, <4>3
    <3>8. proven' \subseteq Line \X Word \X Token
      <4>1. Learned(retiring, flush) \subseteq Line \X Word \X Token
        BY <3>1, LearnedType DEF IsEdge
      <4>2. proven' \subseteq proven \cup Learned(retiring, flush)
        BY <3>1 DEF IsEdge, MemoryEdge
      <4> QED  BY <4>1, <4>2 DEF TypeOK
    <3> QED  BY <3>2, <3>3, <3>4, <3>6, <3>7, <3>8 DEF TypeOK, Sari!TypeOK
  <2>2. CASE UNCHANGED vars
    BY <2>2 DEF vars, TypeOK, Sari!TypeOK
  <2> QED  BY <2>1, <2>2
<1> QED  BY <1>1, <1>2, PTL DEF CourteousSpec

(* Every entry is proven or has its clear on the way.                      *)
THEOREM UnprovenPending == CourteousSpec => []UnprovenIsPending
<1>1. Init => UnprovenIsPending
  BY DEF Init, Sari!Init, Clpd!Init, UnprovenIsPending
<1>2. TypeOK /\ UnprovenIsPending /\ [CourteousNext]_vars => UnprovenIsPending'
  <2> SUFFICES ASSUME TypeOK, UnprovenIsPending, [CourteousNext]_vars
               PROVE  UnprovenIsPending'
    OBVIOUS
  <2>1. CASE CourteousNext
    BY <2>1, NextIsEdge, DirectoryStep
  <2>2. CASE UNCHANGED vars
    BY <2>2 DEF vars, UnprovenIsPending, Pending, InQueue
  <2> QED  BY <2>1, <2>2
<1> QED  BY <1>1, <1>2, TypeCorrect, PTL DEF CourteousSpec

(* An unheld prefetch uses only proven words: without hold no clear is     *)
(* pending, so that every entry is proven.                                 *)
THEOREM IssueSound == CourteousSpec => []IssueIsProven
<1>1. TypeOK /\ UnprovenIsPending => IssueIsProven
  <2> SUFFICES ASSUME TypeOK, UnprovenIsPending, ~Hold,
                      NEW l \in Line, NEW w \in Word, NEW t \in Token,
                      Clpd!SourceAuthorized([line |-> l, word |-> w, token |-> t,
                                             epoch |-> line_epoch[l]], t)
               PROVE  <<l, w, t>> \in proven
    BY DEF IssueIsProven
  <2>1. queue = << >> /\ clear_q = NoLine
    BY DEF Hold, Sari!RevocationHold
  <2>2. ~Pending(l)
    BY <2>1 DEF Pending, InQueue
  <2>3. DirIdx[l] \in Index
    OBVIOUS
  <2> QED  BY <2>2, <2>3 DEF UnprovenIsPending, Clpd!SourceAuthorized,
                             Clpd!SourceWordProven, Clpd!SourceLineHit
<1> QED  BY <1>1, TypeCorrect, UnprovenPending, PTL

=============================================================================
