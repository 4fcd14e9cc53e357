----------------------------- MODULE GatesProofs ----------------------------
(***************************************************************************)
(* What the gates of MCGates promise: EpochBoundary first, for all widths, *)
(* numbers of epochs and capacities of the directory, then the gates that  *)
(* stand alone, for all sizes.  Their inductive invariants are SramOK,     *)
(* LineOK, StreamOK and CountCovers with its types; a run of the           *)
(* composition is a run of each (the ...Part lemmas).                      *)
(***************************************************************************)
EXTENDS MCGates, FiniteSetTheorems, TLAPS

(* Mixing gives tokens, and keeps the domains apart: where two domains     *)
(* differ, so do the tokens of one base and epoch.                         *)
LEMMA MixType ==
    ASSUME NEW base \in Token, NEW epoch, NEW d \in Domain
    PROVE  MixToken(base, epoch, d) \in Token
  BY DEF MixToken, Token, Xor

(* Two domains never get the same context token of one base and epoch:     *)
(* mix_context_token rotates by the domain, and a bit in which two domains *)
(* differ stays in another place.                                          *)
LEMMA MixSeparatesDomains ==
    ASSUME NEW base \in Token, NEW epoch, NEW d \in Domain, NEW e \in Domain, d # e
    PROVE  MixToken(base, epoch, d) # MixToken(base, epoch, e)
<1>1. PICK i \in 0 .. DOMAIN_W - 1 : d[i] # e[i]
  <2> SUFFICES ASSUME \A i \in 0 .. DOMAIN_W - 1 : d[i] = e[i]
               PROVE  FALSE
    OBVIOUS
  <2>1. /\ d = [i \in 0 .. DOMAIN_W - 1 |-> d[i]]
        /\ e = [i \in 0 .. DOMAIN_W - 1 |-> e[i]]
    BY DEF Domain
  <2>2. [i \in 0 .. DOMAIN_W - 1 |-> d[i]] = [i \in 0 .. DOMAIN_W - 1 |-> e[i]]
    OBVIOUS
  <2> QED
    BY <2>1, <2>2
<1>2. i \in 0 .. TOKEN_W - 1
  BY WidthsAssumption
<1>3. i % DOMAIN_W = i
  BY WidthsAssumption, <1>1
<1> DEFINE salt == Xor(EpochBit(epoch, i % EPOCH_W),
                       EpochBit(epoch, (i + DOMAIN_W) % EPOCH_W))
<1>4. /\ MixToken(base, epoch, d)[i] = Xor(Xor(base[i], d[i]), salt)
      /\ MixToken(base, epoch, e)[i] = Xor(Xor(base[i], e[i]), salt)
  BY <1>2, <1>3 DEF MixToken
<1>5. d[i] \in BOOLEAN /\ e[i] \in BOOLEAN /\ base[i] \in BOOLEAN /\ salt \in BOOLEAN
  BY <1>2 DEF Domain, Token, Xor
<1> HIDE DEF salt
<1>6. Xor(Xor(base[i], d[i]), salt) # Xor(Xor(base[i], e[i]), salt)
  BY <1>1, <1>5 DEF Xor
<1> QED
  BY <1>4, <1>6

-----------------------------------------------------------------------------
(* The inductive invariant: stored tokens are the mixes they were          *)
(* committed with; a proof that is not old has the epoch of its domain,    *)
(* and an old one an earlier epoch, unless the domain is blocked.          *)
ProofIsTrue(s) ==
    /\ s.token = MixToken(s.base, s.epoch, s.domain)
    /\ ~s.old => s.epoch = domain_epoch[s.domain]
    /\ s.old => s.epoch < domain_epoch[s.domain] \/ wrap_pending[s.domain]
    /\ s.epoch <= domain_epoch[s.domain]

DirectoryIsTrue == \A s \in stored : ProofIsTrue(s)

(* Registers stay in their types.                                          *)
LEMMA RegisterTypes ==
    ASSUME TypeOK, NEW boundary \in Domain \cup {NoDomain},
           NEW clear \in Domain \cup {NoDomain}, BoundaryEdge(boundary, clear)
    PROVE  /\ domain_epoch' \in [Domain -> Epoch]
           /\ wrap_pending' \in [Domain -> BOOLEAN]
           /\ wrap_flush_required' \in BOOLEAN
<1>1. \A d \in Domain : NextEpoch(d, boundary, clear) \in Epoch
  BY EpochsAssumption, SMT DEF NextEpoch, WouldWrap, Epoch, TypeOK
<1>2. \A d \in Domain : NextPending(d, boundary, clear) \in BOOLEAN
  BY DEF NextPending
<1> QED
  BY <1>1, <1>2 DEF BoundaryEdge

(* A proof that is committed is true when it is.                           *)
LEMMA NewIsTrue ==
    ASSUME TypeOK, NEW new \in New, NEW s \in new
    PROVE  s \in Proof /\ ProofIsTrue(s) /\ ~wrap_pending[s.domain]
<1>1. PICK d \in Domain, base \in Token : ~wrap_pending[d] /\ s = Committed(d, base)
  BY DEF New
<1>2. domain_epoch[d] \in Epoch
  BY DEF TypeOK
<1>3. MixToken(base, domain_epoch[d], d) \in Token
  BY MixType
<1>4. s \in Proof
  BY <1>1, <1>2, <1>3 DEF Committed, Proof
<1>5. domain_epoch[d] <= domain_epoch[d]
  BY <1>2, EpochsAssumption DEF Epoch
<1> QED
  BY <1>1, <1>4, <1>5 DEF Committed, ProofIsTrue

(* What an edge does to one proof that stays in the directory.             *)
LEMMA AgedIsTrue ==
    ASSUME TypeOK, NEW boundary \in Domain \cup {NoDomain},
           NEW clear \in Domain \cup {NoDomain}, BoundaryEdge(boundary, clear),
           NEW s \in Proof, ProofIsTrue(s), s.domain # clear
    PROVE  Aged(s, boundary) \in Proof /\ ProofIsTrue(Aged(s, boundary))'
<1> DEFINE d == s.domain
           a == Aged(s, boundary)
<1>1. /\ a \in Proof
      /\ a.domain = d /\ a.base = s.base /\ a.epoch = s.epoch /\ a.token = s.token
      /\ a.old = (s.old \/ d = boundary)
  BY DEF Aged, Proof
<1>2. /\ d \in Domain /\ s.epoch \in Epoch /\ s.old \in BOOLEAN
      /\ domain_epoch[d] \in Epoch /\ wrap_pending[d] \in BOOLEAN
  BY DEF Proof, TypeOK
<1>3. /\ domain_epoch'[d] = NextEpoch(d, boundary, clear)
      /\ wrap_pending'[d] = NextPending(d, boundary, clear)
  BY <1>2 DEF BoundaryEdge
<1>4. CASE d = boundary /\ ~wrap_pending[d] /\ ~WouldWrap(d)
  <2>1. domain_epoch'[d] = domain_epoch[d] + 1
    BY <1>3, <1>4 DEF NextEpoch
  <2>2. s.epoch < domain_epoch'[d] /\ s.epoch <= domain_epoch'[d]
    BY <1>2, <2>1, EpochsAssumption DEF ProofIsTrue, Epoch
  <2> QED
    BY <1>1, <1>4, <2>2 DEF ProofIsTrue
<1>5. CASE d # boundary \/ wrap_pending[d] \/ WouldWrap(d)
  <2>1. domain_epoch'[d] = domain_epoch[d]
    BY <1>3, <1>5 DEF NextEpoch
  <2>2. wrap_pending[d] => wrap_pending'[d]
    BY <1>3 DEF NextPending
  <2>3. d = boundary => wrap_pending'[d]
    BY <1>3, <1>5 DEF NextPending
  <2> QED
    BY <1>1, <2>1, <2>2, <2>3 DEF ProofIsTrue
<1> QED
  BY <1>1, <1>4, <1>5

(* Every edge keeps types and truth of the directory.                      *)
LEMMA DirectoryStep ==
    ASSUME TypeOK, DirectoryIsTrue, [Next]_vars
    PROVE  TypeOK' /\ DirectoryIsTrue'
<1>1. CASE UNCHANGED vars
  BY <1>1 DEF vars, TypeOK, DirectoryIsTrue, ProofIsTrue
<1>2. CASE Next
  <2>1. PICK boundary \in Domain \cup {NoDomain}, purge \in Domain \cup {NoDomain},
             clear \in Purged \cup {NoDomain}, new \in New :
             Edge(boundary, clear, new, purge)
    BY <1>2 DEF Next
  <2>2. clear \in Domain \cup {NoDomain} /\ BoundaryEdge(boundary, clear)
    BY <2>1 DEF Purged, Edge
  <2>3. ASSUME NEW s \in stored \cup new
        PROVE  s \in Proof /\ ProofIsTrue(s) /\ s.domain # clear
    <3>1. CASE s \in stored
      <4>1. s.domain # clear
        <5>1. s.domain \in Domain
          BY <3>1 DEF TypeOK, Proof
        <5> QED
          BY <2>1, <3>1, <5>1, NoDomainAssumption DEF Purged
      <4> QED
        BY <3>1, <4>1 DEF TypeOK, DirectoryIsTrue
    <3>2. CASE s \in new
      <4>1. s \in Proof /\ ProofIsTrue(s) /\ ~wrap_pending[s.domain]
        BY <3>2, NewIsTrue
      <4>2. s.domain \in Domain
        BY <4>1 DEF Proof
      <4> QED
        BY <2>1, <4>1, <4>2, NoDomainAssumption DEF Purged
    <3> QED
      BY <2>3, <3>1, <3>2
  <2>4. \A s \in stored \cup new :
           Aged(s, boundary) \in Proof /\ ProofIsTrue(Aged(s, boundary))'
    BY <2>2, <2>3, AgedIsTrue
  <2>5. \A a \in stored' : \E s \in stored \cup new : a = Aged(s, boundary)
    BY <2>1 DEF Edge, DirectoryEdge
  <2>6. stored' \subseteq Proof
    BY <2>4, <2>5
  <2>7. DirectoryIsTrue'
    BY <2>4, <2>5 DEF DirectoryIsTrue
  <2>8. boundary_domain' \in Domain \cup {NoDomain}
    BY <2>1 DEF Edge
  <2> QED
    BY <2>2, <2>6, <2>7, <2>8, RegisterTypes DEF TypeOK
<1> QED
  BY <1>1, <1>2

(* After reset the directory is empty, so all it says is true.             *)
LEMMA InitTrue == Init => TypeOK /\ DirectoryIsTrue
<1> SUFFICES ASSUME Init PROVE TypeOK /\ DirectoryIsTrue
  OBVIOUS
<1>1. 0 \in Epoch
  BY EpochsAssumption DEF Epoch
<1>2. domain_epoch \in [Domain -> Epoch]
  BY <1>1 DEF Init
<1>3. wrap_pending \in [Domain -> BOOLEAN]
  BY DEF Init
<1>4. stored = {} /\ wrap_flush_required \in BOOLEAN
  BY DEF Init
<1>5. boundary_domain \in Domain \cup {NoDomain}
  BY DEF Init
<1>6. TypeOK
  BY <1>2, <1>3, <1>4, <1>5 DEF TypeOK
<1> QED
  BY <1>4, <1>6 DEF DirectoryIsTrue

(* Types of registers and directory.                                       *)
THEOREM TypeCorrect == Spec => []TypeOK
<1>1. (TypeOK /\ DirectoryIsTrue) /\ [Next]_vars => (TypeOK /\ DirectoryIsTrue)'
  BY DirectoryStep
<1> QED
  BY <1>1, InitTrue, PTL DEF Spec

(* A boundary contains every proof of its domain, however often epochs run *)
(* out and are given out anew.                                             *)
THEOREM ContainmentSound == Spec => []BoundaryContains
<1>1. (TypeOK /\ DirectoryIsTrue) /\ [Next]_vars => (TypeOK /\ DirectoryIsTrue)'
  BY DirectoryStep
<1>2. TypeOK /\ DirectoryIsTrue => BoundaryContains
  <2> SUFFICES ASSUME TypeOK, DirectoryIsTrue, NEW s \in stored, NEW base \in Token,
                      s.old, ProofCurrent(s, s.domain, base)
               PROVE  FALSE
    BY DEF BoundaryContains
  <2>1. s.domain \in Domain /\ s.epoch \in Epoch /\ domain_epoch[s.domain] \in Epoch
    BY DEF TypeOK, Proof
  <2>2. s.epoch < domain_epoch[s.domain]
    BY DEF DirectoryIsTrue, ProofIsTrue, ProofCurrent
  <2>3. s.epoch = domain_epoch[s.domain]
    BY DEF ProofCurrent
  <2> QED
    BY <2>1, <2>2, <2>3, EpochsAssumption DEF Epoch
<1> QED
  BY <1>1, <1>2, InitTrue, PTL DEF Spec

(* A boundary takes no other domain's proofs.                              *)
THEOREM FreshSound == Spec => []FreshIsCurrent
<1>1. (TypeOK /\ DirectoryIsTrue) /\ [Next]_vars => (TypeOK /\ DirectoryIsTrue)'
  BY DirectoryStep
<1>2. TypeOK /\ DirectoryIsTrue => FreshIsCurrent
  BY DEF DirectoryIsTrue, ProofIsTrue, FreshIsCurrent, ProofCurrent
<1> QED
  BY <1>1, <1>2, InitTrue, PTL DEF Spec

(* No domain finds the proof of another one current.                       *)
THEOREM IsolationSound == Spec => []DomainsAreApart
<1>1. (TypeOK /\ DirectoryIsTrue) /\ [Next]_vars => (TypeOK /\ DirectoryIsTrue)'
  BY DirectoryStep
<1>2. TypeOK /\ DirectoryIsTrue => DomainsAreApart
  <2> SUFFICES ASSUME TypeOK, DirectoryIsTrue, NEW s \in stored, NEW d \in Domain,
                      d # s.domain, ProofCurrent(s, d, s.base)
               PROVE  FALSE
    BY DEF DomainsAreApart
  <2>1. s.domain \in Domain /\ s.base \in Token
    BY DEF TypeOK, Proof
  <2>2. MixToken(s.base, s.epoch, s.domain) = MixToken(s.base, s.epoch, d)
    BY DEF DirectoryIsTrue, ProofIsTrue, ProofCurrent
  <2> QED
    BY <2>1, <2>2, MixSeparatesDomains
<1> QED
  BY <1>1, <1>2, InitTrue, PTL DEF Spec

-----------------------------------------------------------------------------
(* Every run of the composition is a run of the SRAM directory,            *)
LEMMA SramPart == Gates => Sram!Spec
<1>1. GatesInit => Sram!Init
  BY DEF GatesInit
<1>2. [GatesNext]_<<part, vars, sram, line, stream, unit>>
        => [Sram!Next]_(Sram!vars)
  BY DEF GatesNext, sram, Sram!vars
<1> QED BY <1>1, <1>2, PTL DEF Gates, Sram!Spec

(* ... of the line gate,                                                   *)
LEMMA LinePart == Gates => LineP!Spec
<1>1. GatesInit => LineP!Init
  BY DEF GatesInit
<1>2. [GatesNext]_<<part, vars, sram, line, stream, unit>>
        => [LineP!Next]_(LineP!vars)
  BY DEF GatesNext, line, LineP!vars
<1> QED BY <1>1, <1>2, PTL DEF Gates, LineP!Spec

(* ... of the stream table,                                                *)
LEMMA StreamPart == Gates => Streams!Spec
<1>1. GatesInit => Streams!Init
  BY DEF GatesInit
<1>2. [GatesNext]_<<part, vars, sram, line, stream, unit>>
        => [Streams!Next]_(Streams!vars)
  BY DEF GatesNext, stream, Streams!vars
<1> QED BY <1>1, <1>2, PTL DEF Gates, Streams!Spec

(* ... and of the prefetch unit.                                           *)
LEMMA UnitPart == Gates => Unit!Spec
<1>1. GatesInit => Unit!Init
  BY DEF GatesInit
<1>2. [GatesNext]_<<part, vars, sram, line, stream, unit>>
        => [Unit!Next]_(Unit!vars)
  BY DEF GatesNext, unit, Unit!vars
<1> QED BY <1>1, <1>2, PTL DEF Gates, Unit!Spec

-----------------------------------------------------------------------------
(* The SRAM directory.  While the entries are cleared one by one nothing   *)
(* is in flight; afterwards the memory is the directory that writes at     *)
(* once, but for the one entry whose update is being written.              *)
SramEntry == Sram!Entry \cup {None}

SramTyped ==
    /\ entry_mem \in [Sram!Index -> SramEntry]
    /\ directory \in [Sram!Index -> SramEntry]
    /\ init_addr \in 0 .. TOTAL_ENTRIES
    /\ upd # None => upd.update \in Sram!Update /\ upd.entry \in SramEntry
    /\ response # None => response.seed \in Sram!Fact

Sweeping ==
    init_addr # TOTAL_ENTRIES =>
        /\ upd = None /\ response = None
        /\ \A i \in Sram!Index : directory[i] = None
        /\ \A i \in Sram!Index : i < init_addr => entry_mem[i] = None

InFlight(i) == upd # None /\ i = Sram!Idx(upd.update.fact)

WrittenThrough ==
    init_addr = TOTAL_ENTRIES =>
        \A i \in Sram!Index :
            /\ ~InFlight(i) => directory[i] = entry_mem[i]
            /\ InFlight(i) => /\ upd.entry = entry_mem[i]
                              /\ directory[i] = Sram!Written(entry_mem[i], upd.update)

ReadIsCurrent ==
    response # None /\ ~response.hazard =>
        response.entry = directory[Sram!Idx(response.seed)]

SramOK == SramTyped /\ Sweeping /\ WrittenThrough /\ ReadIsCurrent

(* Every fact has its place, and what an update writes is an entry.        *)
LEMMA SramFacts ==
    /\ \A f \in Sram!Fact : Sram!Idx(f) \in Sram!Index
    /\ \A e \in SramEntry, u \in Sram!Update : Sram!Written(e, u) \in SramEntry
<1>1. ASSUME NEW f \in Sram!Fact PROVE Sram!Idx(f) \in Sram!Index
  BY SramAssumption DEF Sram!Fact, Sram!Idx, Sram!Index
<1>2. ASSUME NEW e \in SramEntry, NEW u \in Sram!Update
      PROVE  Sram!Written(e, u) \in SramEntry
  <2>1. u.fact \in Sram!Fact /\ u.op \in {"commit", "purge"}
    BY DEF Sram!Update
  <2>2. CASE u.op = "purge"
    BY <2>2 DEF Sram!Written, SramEntry
  <2>3. CASE u.op = "commit" /\ ~Sram!Merges(e, u.fact)
    <3>1. Sram!Written(e, u) = [tag |-> u.fact.line, token |-> u.fact.token,
                                epoch |-> u.fact.epoch, mask |-> {u.fact.word}]
      BY <2>3 DEF Sram!Written
    <3>2. [tag |-> u.fact.line, token |-> u.fact.token,
           epoch |-> u.fact.epoch, mask |-> {u.fact.word}] \in Sram!Entry
      BY <2>1 DEF Sram!Fact, Sram!Entry
    <3> QED BY <3>1, <3>2 DEF SramEntry
  <2>4. CASE u.op = "commit" /\ Sram!Merges(e, u.fact)
    <3>1. Sram!Written(e, u) = [e EXCEPT !.mask = @ \cup {u.fact.word}]
      BY <2>4 DEF Sram!Written
    <3>2. e \in Sram!Entry
      BY <2>4 DEF Sram!Merges, SramEntry
    <3>3. e.mask \cup {u.fact.word} \in SUBSET SramWord
      BY <2>1, <3>2 DEF Sram!Fact, Sram!Entry
    <3>4. [e EXCEPT !.mask = @ \cup {u.fact.word}] \in Sram!Entry
      BY <3>2, <3>3 DEF Sram!Entry
    <3> QED BY <3>1, <3>4 DEF SramEntry
  <2> QED BY <2>1, <2>2, <2>3, <2>4
<1> QED BY <1>1, <1>2

(* After reset the sweep of the array has not begun.                       *)
LEMMA SramInit == Sram!Init => SramOK
<1> SUFFICES ASSUME Sram!Init PROVE SramOK
  OBVIOUS
<1> USE SramAssumption DEF Sram!Init
<1>1. SramTyped
  BY DEF SramTyped, SramEntry
<1>2. Sweeping
  BY DEF Sweeping, Sram!Index
<1>3. WrittenThrough
  BY DEF WrittenThrough, Sram!Index
<1>4. ReadIsCurrent
  BY DEF ReadIsCurrent
<1> QED BY <1>1, <1>2, <1>3, <1>4 DEF SramOK

(* One entry of the sweep.                                                 *)
LEMMA ClearOneStep == SramOK /\ Sram!ClearOne => SramOK'
<1> SUFFICES ASSUME SramOK, Sram!ClearOne PROVE SramOK'
  OBVIOUS
<1>1. /\ init_addr \in 0 .. TOTAL_ENTRIES - 1
      /\ init_addr' = init_addr + 1
      /\ entry_mem' = [entry_mem EXCEPT ![init_addr] = None]
      /\ upd = None /\ response = None
      /\ UNCHANGED <<upd, response, directory>>
  BY SramAssumption DEF Sram!ClearOne, Sram!InitDone, SramOK, SramTyped, Sweeping
<1>2. SramTyped'
  BY <1>1, SramAssumption DEF SramOK, SramTyped, SramEntry, Sram!Index
<1>3. \A i \in Sram!Index : /\ directory'[i] = None
                            /\ i < init_addr' => entry_mem'[i] = None
  BY <1>1, SramAssumption DEF SramOK, SramTyped, Sweeping, Sram!Index
<1>4. Sweeping'
  BY <1>1, <1>3 DEF Sweeping
<1>5. WrittenThrough'
  BY <1>1, <1>3 DEF WrittenThrough, InFlight, Sram!Index
<1> QED BY <1>1, <1>2, <1>4, <1>5 DEF SramOK, ReadIsCurrent

(* The update in flight is written.                                        *)
LEMMA WriteUpdateStep ==
    ASSUME SramOK, Sram!InitDone, Sram!WriteUpdate, UNCHANGED init_addr
    PROVE  /\ entry_mem' \in [Sram!Index -> SramEntry]
           /\ upd' = None /\ directory' = directory
           /\ WrittenThrough'
<1> DEFINE x == Sram!Idx(upd.update.fact)
<1>1. /\ upd # None /\ upd' = None /\ directory' = directory
      /\ entry_mem' = [entry_mem EXCEPT ![x] = Sram!Written(upd.entry, upd.update)]
  BY DEF Sram!WriteUpdate
<1>2. upd.update \in Sram!Update /\ upd.entry \in SramEntry
  BY <1>1 DEF SramOK, SramTyped
<1>3. x \in Sram!Index /\ Sram!Written(upd.entry, upd.update) \in SramEntry
  BY <1>2, SramFacts DEF Sram!Update
<1>4. upd.entry = entry_mem[x] /\ directory[x] = Sram!Written(upd.entry, upd.update)
  BY <1>1, <1>3 DEF SramOK, WrittenThrough, InFlight, Sram!InitDone
<1>5. ASSUME NEW i \in Sram!Index PROVE directory'[i] = entry_mem'[i]
  <2>1. CASE i = x
    BY <1>1, <1>3, <1>4, <2>1 DEF SramOK, SramTyped
  <2>2. CASE i # x
    <3>1. directory[i] = entry_mem[i]
      BY <2>2 DEF SramOK, WrittenThrough, InFlight, Sram!InitDone
    <3> QED BY <1>1, <2>2, <3>1 DEF SramOK, SramTyped
  <2> QED BY <2>1, <2>2
<1>6. WrittenThrough'
  BY <1>1, <1>5 DEF WrittenThrough, InFlight
<1>7. entry_mem' \in [Sram!Index -> SramEntry]
  BY <1>1, <1>3 DEF SramOK, SramTyped
<1> QED BY <1>1, <1>6, <1>7

(* An update is accepted and its entry read.                               *)
LEMMA AcceptUpdateStep ==
    ASSUME SramOK, Sram!InitDone, NEW u \in Sram!Update, Sram!AcceptUpdate(u),
           UNCHANGED init_addr
    PROVE  /\ directory' \in [Sram!Index -> SramEntry]
           /\ upd'.update \in Sram!Update /\ upd'.entry \in SramEntry
           /\ \A i \in Sram!Index :
                  i # Sram!Idx(u.fact) => directory'[i] = directory[i]
           /\ WrittenThrough'
<1> DEFINE x == Sram!Idx(u.fact)
<1>1. /\ upd = None /\ entry_mem' = entry_mem
      /\ upd' = [update |-> u, entry |-> entry_mem[x]]
      /\ directory' = [directory EXCEPT ![x] = Sram!Written(@, u)]
  BY DEF Sram!AcceptUpdate, Sram!UpdateReady
<1>2. x \in Sram!Index
  BY SramFacts DEF Sram!Update
<1>3. entry_mem[x] \in SramEntry /\ directory[x] \in SramEntry
  BY <1>2 DEF SramOK, SramTyped
<1>4. Sram!Written(directory[x], u) \in SramEntry
  BY <1>3, SramFacts
<1>5. /\ directory' \in [Sram!Index -> SramEntry]
      /\ upd'.update \in Sram!Update /\ upd'.entry \in SramEntry
      /\ \A i \in Sram!Index : i # x => directory'[i] = directory[i]
      /\ directory'[x] = Sram!Written(directory[x], u)
  BY <1>1, <1>2, <1>3, <1>4 DEF SramOK, SramTyped
<1>6. \A i \in Sram!Index : directory[i] = entry_mem[i]
  BY <1>1 DEF SramOK, WrittenThrough, InFlight, Sram!InitDone
<1>7. upd'.update = u /\ upd'.entry = entry_mem[x]
  BY <1>1
<1>8. ASSUME NEW i \in Sram!Index
      PROVE  /\ i # x => directory'[i] = entry_mem'[i]
             /\ i = x => /\ upd'.entry = entry_mem'[i]
                         /\ directory'[i] = Sram!Written(entry_mem'[i], upd'.update)
  BY <1>1, <1>5, <1>6, <1>7
<1>9. WrittenThrough'
  <2>1. \A i \in Sram!Index : InFlight(i)' => i = x
    BY <1>7 DEF InFlight
  <2>2. upd' # None
    <3>1. upd' \in [update : Sram!Update, entry : Sram!Entry \cup {None}]
      BY <1>1, <1>3 DEF SramEntry
    <3> QED BY <3>1, NoneAssumption
  <2>3. \A i \in Sram!Index : i = x => InFlight(i)'
    BY <1>7, <2>2 DEF InFlight
  <2> QED BY <1>8, <2>1, <2>3 DEF WrittenThrough
<1> QED BY <1>5, <1>9

(* One clock edge after the sweep.                                         *)
LEMMA SramEdgeStep ==
    ASSUME SramOK, NEW seed \in Sram!Fact \cup {None},
           NEW u \in Sram!Update \cup {None}, Sram!Edge(seed, u)
    PROVE  SramOK'
<1>1. /\ init_addr = TOTAL_ENTRIES /\ init_addr' = TOTAL_ENTRIES
      /\ response' = Sram!NextResponse(seed, u)
      /\ UNCHANGED init_addr /\ Sram!InitDone
  BY DEF Sram!Edge, Sram!InitDone
<1>2. /\ entry_mem' \in [Sram!Index -> SramEntry]
      /\ directory' \in [Sram!Index -> SramEntry]
      /\ upd' # None => upd'.update \in Sram!Update /\ upd'.entry \in SramEntry
      /\ WrittenThrough'
      /\ \A i \in Sram!Index :
             ~(u # None /\ upd = None /\ i = Sram!Idx(u.fact))
                 => directory'[i] = directory[i]
  <2>1. CASE Sram!WriteUpdate
    BY <1>1, <2>1, WriteUpdateStep DEF SramOK, SramTyped
  <2>2. CASE Sram!AcceptUpdate(u)
    <3>1. u \in Sram!Update /\ upd = None /\ entry_mem' = entry_mem
      BY <2>2 DEF Sram!AcceptUpdate, Sram!UpdateReady
    <3>2. /\ directory' \in [Sram!Index -> SramEntry]
          /\ upd'.update \in Sram!Update /\ upd'.entry \in SramEntry
          /\ \A i \in Sram!Index :
                 i # Sram!Idx(u.fact) => directory'[i] = directory[i]
          /\ WrittenThrough'
      BY <1>1, <2>2, <3>1, AcceptUpdateStep
    <3>3. u # None
      BY <2>2 DEF Sram!AcceptUpdate
    <3>4. entry_mem' \in [Sram!Index -> SramEntry]
      BY <3>1 DEF SramOK, SramTyped
    <3> QED BY <3>1, <3>2, <3>3, <3>4
  <2>3. CASE UNCHANGED <<entry_mem, upd, directory>>
    BY <1>1, <2>3 DEF SramOK, SramTyped, WrittenThrough, InFlight
  <2> QED BY <2>1, <2>2, <2>3 DEF Sram!Edge
<1>3. response' # None => response'.seed \in Sram!Fact
  BY <1>1 DEF Sram!NextResponse
<1>4. SramTyped'
  BY <1>1, <1>2, <1>3 DEF SramOK, SramTyped
<1>5. Sweeping'
  BY <1>1 DEF Sweeping
<1>6. ReadIsCurrent'
  <2> SUFFICES ASSUME response' # None, ~response'.hazard
               PROVE  response'.entry = directory'[Sram!Idx(response'.seed)]
    BY DEF ReadIsCurrent
  <2> DEFINE i == Sram!Idx(seed)
  <2>1. /\ seed \in Sram!Fact
        /\ response'.seed = seed /\ response'.entry = entry_mem[i]
        /\ ~Sram!Hazard(seed, u)
    BY <1>1 DEF Sram!NextResponse
  <2>2. i \in Sram!Index
    BY <2>1, SramFacts
  <2>3. ~InFlight(i)
    BY <2>1 DEF Sram!Hazard, InFlight
  <2>4. ~(u # None /\ upd = None /\ i = Sram!Idx(u.fact))
    BY <2>1 DEF Sram!Hazard, Sram!UpdateReady
  <2>5. directory[i] = entry_mem[i]
    BY <1>1, <2>2, <2>3 DEF SramOK, WrittenThrough
  <2> QED BY <1>2, <2>1, <2>2, <2>4, <2>5
<1> QED BY <1>2, <1>4, <1>5, <1>6 DEF SramOK

(* A reset in whatever state starts the sweep anew: what the array holds   *)
(* is unread until the sweep is over.                                      *)
LEMMA SramResetStep == SramOK /\ Sram!Reset => SramOK'
<1> SUFFICES ASSUME SramOK, Sram!Reset PROVE SramOK'
  OBVIOUS
<1> USE SramAssumption DEF Sram!Reset
<1>1. SramTyped'
  BY DEF SramOK, SramTyped, SramEntry
<1>2. Sweeping'
  BY DEF Sweeping, Sram!Index
<1>3. WrittenThrough'
  BY DEF WrittenThrough, Sram!Index
<1>4. ReadIsCurrent'
  BY DEF ReadIsCurrent
<1> QED BY <1>1, <1>2, <1>3, <1>4 DEF SramOK

(* SramOK holds of the directory in the array after every edge.            *)
LEMMA SramInvariant == Sram!Spec => []SramOK
<1>1. SramOK /\ [Sram!Next]_(Sram!vars) => SramOK'
  <2> SUFFICES ASSUME SramOK, [Sram!Next]_(Sram!vars) PROVE SramOK'
    OBVIOUS
  <2>1. CASE UNCHANGED Sram!vars
    BY <2>1 DEF Sram!vars, SramOK, SramTyped, Sweeping, WrittenThrough, InFlight,
                ReadIsCurrent
  <2> QED BY <2>1, ClearOneStep, SramEdgeStep, SramResetStep DEF Sram!Next
<1> QED BY <1>1, SramInit, PTL DEF Sram!Spec

(* An answer without a hazard is that of a directory in which every        *)
(* accepted update is written at once: copper_clpd_sram_dir.sv, for every  *)
(* number of entries, whatever the memory holds at reset and whenever it   *)
(* is reset.                                                               *)
THEOREM SramAnswerIsExact == Gates => []AnswerIsExact
<1>1. SramOK => AnswerIsExact
  BY DEF SramOK, ReadIsCurrent, AnswerIsExact, Sram!AnswerIsExact, Sram!Allowed
<1> QED BY <1>1, SramPart, SramInvariant, PTL

-----------------------------------------------------------------------------
(* The line gate.  A bit stands for a commit of some domain, every domain  *)
(* with a commit that is proven owns the line, and the domain of a line    *)
(* that has owners is one of them.                                         *)
LineOK ==
    /\ proof_bits \in [GateLine -> SUBSET Word]
    /\ owners \in [GateLine -> SUBSET Tenant]
    /\ proven \subseteq GateLine \X Word \X Tenant
    /\ \A l \in GateLine, w \in Word :
           w \in proof_bits[l] <=> \E d \in Tenant : <<l, w, d>> \in proven
    /\ \A l \in GateLine, w \in Word, d \in Tenant :
           <<l, w, d>> \in proven => d \in owners[l]
    /\ \A l \in GateLine : owners[l] # {} => line_domain[l] \in owners[l]
    /\ line_domain = [l \in GateLine |-> line_domain[l]]

(* At first no line is proved.                                             *)
LEMMA LineInit == LineP!Init => LineOK
  BY DEF LineP!Init, LineOK

(* One clock edge, line by line: the history loses what is written, filled *)
(* or invalidated and gains what is committed, and so does the gate.       *)
LEMMA LineStep ==
    ASSUME LineOK,
           NEW commit \in LineP!Opt(LineP!Commit), NEW write \in LineP!Opt(LineP!WordOf),
           NEW fill \in LineP!Opt(GateLine), NEW invalidate \in LineP!Opt(GateLine),
           LineP!Edge(commit, write, fill, invalidate)
    PROVE  LineOK'
<1> DEFINE lost == {fill, invalidate} \ {None}
           Commits(l, w) == commit # None /\ commit.line = l /\ commit.word = w
           Writes(l, w) == write # None /\ write.line = l /\ write.word = w
<1>1. commit # None => /\ commit.line \in GateLine /\ commit.word \in Word
                       /\ commit.domain \in Tenant
  BY DEF LineP!Opt, LineP!Commit
<1>2. /\ proof_bits' = [l \in GateLine |-> LineP!NextBits(l, commit, write, lost)]
      /\ line_domain' = [l \in GateLine |-> LineP!NextDomain(l, commit, lost)]
      /\ owners' = [l \in GateLine |->
            (IF l \in lost THEN {} ELSE owners[l])
              \cup {d \in Tenant : /\ commit # None
                                  /\ commit.line = l /\ commit.domain = d}]
      /\ proven' = {p \in proven : /\ p[1] \notin lost
                                   /\ write # None =>
                                        p[1] # write.line \/ p[2] # write.word}
                     \cup (IF commit = None THEN {}
                           ELSE {<<commit.line, commit.word, commit.domain>>})
  BY DEF LineP!Edge
<1>3. \A l \in GateLine, w \in Word, d \in Tenant :
        <<l, w, d>> \in proven' <=>
            \/ <<l, w, d>> \in proven /\ l \notin lost /\ ~Writes(l, w)
            \/ Commits(l, w) /\ commit.domain = d
  BY <1>1, <1>2
<1>4. \A l \in GateLine, w \in Word :
        w \in proof_bits'[l] <=>
            \/ w \in proof_bits[l] /\ l \notin lost /\ ~Writes(l, w)
            \/ Commits(l, w)
  BY <1>2 DEF LineP!NextBits
<1>5. \A l \in GateLine, d \in Tenant :
        d \in owners'[l] <=> \/ d \in owners[l] /\ l \notin lost
                             \/ commit # None /\ commit.line = l /\ commit.domain = d
  BY <1>2
<1> HIDE DEF lost, Commits, Writes
<1>6. /\ proof_bits' \in [GateLine -> SUBSET Word]
      /\ owners' \in [GateLine -> SUBSET Tenant]
      /\ proven' \subseteq GateLine \X Word \X Tenant
  <2>1. proven' \subseteq GateLine \X Word \X Tenant
    BY <1>1, <1>2 DEF LineOK
  <2>2. owners' \in [GateLine -> SUBSET Tenant]
    BY <1>2 DEF LineOK
  <2>3. \A l \in GateLine : LineP!NextBits(l, commit, write, lost) \in SUBSET Word
    BY DEF LineP!NextBits, LineOK
  <2>4. proof_bits' \in [GateLine -> SUBSET Word]
    BY <1>2, <2>3
  <2> QED BY <2>1, <2>2, <2>4
<1>7. ASSUME NEW l \in GateLine, NEW w \in Word
      PROVE  w \in proof_bits'[l] <=> \E d \in Tenant : <<l, w, d>> \in proven'
  <2>1. w \in proof_bits[l] <=> \E d \in Tenant : <<l, w, d>> \in proven
    BY DEF LineOK
  <2>2. Commits(l, w) => commit.domain \in Tenant
    BY <1>1 DEF Commits
  <2> QED BY <1>3, <1>4, <2>1, <2>2
<1>8. ASSUME NEW l \in GateLine, NEW w \in Word, NEW d \in Tenant,
             <<l, w, d>> \in proven'
      PROVE  d \in owners'[l]
  BY <1>3, <1>5, <1>8 DEF LineOK, Commits
<1>9. ASSUME NEW l \in GateLine, owners'[l] # {}
      PROVE  line_domain'[l] \in owners'[l]
  <2>1. line_domain'[l] = LineP!NextDomain(l, commit, lost)
    BY <1>2 DEF lost
  <2>2. CASE commit # None /\ commit.line = l
    BY <1>1, <1>5, <2>1, <2>2 DEF LineP!NextDomain
  <2>3. CASE ~(commit # None /\ commit.line = l)
    <3>1. PICK d \in Tenant : d \in owners'[l]
      BY <1>6, <1>9
    <3>2. l \notin lost /\ d \in owners[l]
      BY <1>5, <2>3, <3>1
    <3>3. line_domain'[l] = line_domain[l] /\ line_domain[l] \in owners[l]
      BY <2>1, <2>3, <3>2 DEF LineP!NextDomain, LineOK
    <3>4. line_domain[l] \in Tenant
      BY <3>3 DEF LineOK
    <3> QED BY <1>5, <3>2, <3>3, <3>4
  <2> QED BY <2>2, <2>3
<1>10. line_domain' = [l \in GateLine |-> line_domain'[l]]
  BY <1>2
<1> QED BY <1>6, <1>7, <1>8, <1>9, <1>10 DEF LineOK

(* LineOK holds of the line gate after every edge.                         *)
LEMMA LineInvariant == LineP!Spec => []LineOK
<1>1. LineOK /\ [LineP!Next]_(LineP!vars) => LineOK'
  <2> SUFFICES ASSUME LineOK, [LineP!Next]_(LineP!vars) PROVE LineOK'
    OBVIOUS
  <2>1. CASE UNCHANGED LineP!vars
    BY <2>1 DEF LineP!vars, LineOK
  <2> QED BY <2>1, LineStep DEF LineP!Next
<1> QED BY <1>1, LineInit, PTL DEF LineP!Spec

(* A set with at most one element has no two.                              *)
LEMMA AtMostOne ==
    ASSUME NEW S, IsFiniteSet(S), Cardinality(S) <= 1, NEW a \in S, NEW b \in S
    PROVE  a = b
<1> SUFFICES ASSUME a # b PROVE FALSE
  OBVIOUS
<1>1. IsFiniteSet({a}) /\ Cardinality({a}) = 1
  BY FS_Singleton
<1>2. IsFiniteSet({a} \cup {b}) /\ Cardinality({a} \cup {b}) = 2
  <2>1. b \notin {a}
    OBVIOUS
  <2>2. /\ IsFiniteSet({a} \cup {b})
        /\ Cardinality({a} \cup {b}) = Cardinality({a}) + 1
    BY <1>1, <2>1, FS_AddElement, Zenon
  <2> QED BY <1>1, <2>2
<1>3. Cardinality({a} \cup {b}) <= Cardinality(S)
  BY FS_Subset
<1>4. Cardinality(S) \in Nat
  BY FS_CardinalityType
<1> QED BY <1>2, <1>3, <1>4

(* A line with one owner answers exactly, whatever commits, writes, fills  *)
(* and invalidations meet in a cycle of copper_line_provenance_gate.sv.    *)
THEOREM LineOfOneOwner == Gates => []OneOwnerIsExact
<1>1. LineOK => OneOwnerIsExact
  <2> SUFFICES ASSUME LineOK, NEW l \in GateLine, Cardinality(owners[l]) <= 1,
                      NEW w \in Word, NEW d \in Tenant
               PROVE  LineP!SourceProvenClean(l, w, d) <=> <<l, w, d>> \in proven
    <3>1. \A S : LineP!Cardinality(S) = Cardinality(S)
      BY DEF LineP!Cardinality, Cardinality
    <3> QED BY <3>1 DEF OneOwnerIsExact, LineP!OneOwnerIsExact
  <2>1. IsFiniteSet(owners[l])
    BY TenantAssumption, FS_Subset DEF LineOK
  <2>2. ASSUME LineP!SourceProvenClean(l, w, d) PROVE <<l, w, d>> \in proven
    <3>1. PICK e \in Tenant : <<l, w, e>> \in proven
      BY <2>2 DEF LineP!SourceProvenClean, LineOK
    <3>2. e \in owners[l] /\ d \in owners[l]
      BY <2>2, <3>1 DEF LineP!SourceProvenClean, LineOK
    <3>3. e = d
      BY <2>1, <3>2, AtMostOne
    <3> QED BY <3>1, <3>3
  <2>3. ASSUME <<l, w, d>> \in proven PROVE LineP!SourceProvenClean(l, w, d)
    <3>1. w \in proof_bits[l] /\ d \in owners[l] /\ line_domain[l] \in owners[l]
      BY <2>3 DEF LineOK
    <3>2. line_domain[l] = d
      BY <2>1, <3>1, AtMostOne
    <3> QED BY <3>1, <3>2 DEF LineP!SourceProvenClean
  <2> QED BY <2>2, <2>3
<1> QED BY <1>1, LinePart, LineInvariant, PTL

-----------------------------------------------------------------------------
(* The stream table.  A word written since its last commit is marked, or   *)
(* the table of marks has overflowed.                                      *)
StreamOK == /\ written \subseteq Streams!Source
            /\ dirty_overflow \in BOOLEAN
            /\ dirty_overflow \/ written \subseteq dirty_cam

(* One edge of the stream table: a written word keeps its mark until its   *)
(* commit clears it, and one that finds the table full sets the overflow   *)
(* bit.                                                                    *)
LEMMA StreamStep ==
    ASSUME StreamOK, NEW commit \in Streams!Commit \cup {None},
           NEW dirty \in Streams!Source \cup {None}, NEW advance \in BOOLEAN,
           Streams!Edge(commit, dirty, advance)
    PROVE  StreamOK'
<1>1. /\ dirty_cam' = (dirty_cam \ Streams!Cleared(commit)) \cup Streams!Marked(dirty)
      /\ dirty_overflow' = (dirty_overflow \/ Streams!Overflows(dirty))
      /\ written' = (written \cup ({dirty} \ {None}))
                      \ {w \in Streams!Source : commit # None /\ w = commit.source}
  BY DEF Streams!Edge
<1>2. written' \subseteq Streams!Source /\ dirty_overflow' \in BOOLEAN
  BY <1>1 DEF StreamOK
<1>3. ASSUME ~dirty_overflow', NEW w \in written' PROVE w \in dirty_cam'
  <2>1. ~dirty_overflow /\ ~Streams!Overflows(dirty)
    BY <1>1, <1>3, Zenon
  <2>2. /\ w \in Streams!Source /\ (commit = None \/ w # commit.source)
        /\ w \in written \/ (w = dirty /\ dirty # None)
    BY <1>1, <1>2
  <2>3. w \notin Streams!Cleared(commit)
    BY <2>2 DEF Streams!Cleared
  <2>4. CASE w \in written
    BY <1>1, <2>1, <2>3, <2>4 DEF StreamOK
  <2>5. CASE w = dirty /\ dirty # None
    BY <1>1, <2>1, <2>2, <2>3, <2>5 DEF Streams!Overflows, Streams!Marked
  <2> QED BY <2>2, <2>4, <2>5
<1> QED BY <1>2, <1>3 DEF StreamOK

(* A word written since its last commit seeds no stream, for every size of *)
(* both tables: copper_stream_table_gate.sv blocks everything before it    *)
(* forgets a write.                                                        *)
THEOREM StreamWrittenIsDirty == Gates => []WrittenIsDirty
<1>1. Streams!Init => StreamOK
  BY DEF Streams!Init, StreamOK
<1>2. StreamOK /\ [Streams!Next]_(Streams!vars) => StreamOK'
  <2> SUFFICES ASSUME StreamOK, [Streams!Next]_(Streams!vars) PROVE StreamOK'
    OBVIOUS
  <2>1. CASE UNCHANGED Streams!vars
    BY <2>1 DEF Streams!vars, StreamOK
  <2> QED BY <2>1, StreamStep DEF Streams!Next
<1>3. StreamOK => WrittenIsDirty
  BY DEF StreamOK, WrittenIsDirty, Streams!WrittenIsDirty, Streams!SeedAllow
<1> QED BY <1>1, <1>2, <1>3, StreamPart, PTL DEF Streams!Spec

-----------------------------------------------------------------------------
(* The prefetch unit: its count never falls below the queue, nor the queue *)
(* beyond its depth, however pushes and pops meet.                         *)
THEOREM UnitCountCovers == Gates => []CountCovers
<1> DEFINE Counts == /\ queued \in Nat /\ queue_count \in Nat
                     /\ queued <= queue_count /\ queue_count <= QUEUE_DEPTH
<1>1. Unit!Init => Counts
  BY QueueAssumption DEF Unit!Init
<1>2. Counts /\ [Unit!Next]_(Unit!vars) => Counts'
  <2> SUFFICES ASSUME Counts, [Unit!Next]_(Unit!vars) PROVE Counts'
    OBVIOUS
  <2>1. ASSUME NEW commit, NEW demand, NEW pop \in BOOLEAN,
               Unit!Edge(commit, demand, pop)
        PROVE  Counts'
    <3> DEFINE push == Unit!PrefetchValid(demand)
    <3>1. push => queue_count < QUEUE_DEPTH
      BY QueueAssumption DEF Unit!PrefetchValid, Unit!QueueFull
    <3>2. /\ queue_count' = Unit!NextCount(push, pop)
          /\ queued' = queued + (IF push THEN 1 ELSE 0)
                              - (IF pop /\ queued # 0 THEN 1 ELSE 0)
      BY <2>1 DEF Unit!Edge
    <3> HIDE DEF push
    <3>3. CASE push
      BY <3>1, <3>2, <3>3, QueueAssumption DEF Unit!NextCount
    <3>4. CASE ~push
      BY <3>2, <3>4, QueueAssumption DEF Unit!NextCount
    <3> QED BY <3>3, <3>4
  <2>2. CASE UNCHANGED Unit!vars
    BY <2>2 DEF Unit!vars
  <2> QED BY <2>1, <2>2 DEF Unit!Next
<1>3. Counts => CountCovers
  BY DEF CountCovers, Unit!CountCovers
<1> QED BY <1>1, <1>2, <1>3, UnitPart, PTL DEF Unit!Spec
=============================================================================
