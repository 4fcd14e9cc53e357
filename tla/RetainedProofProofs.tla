------------------------- MODULE RetainedProofProofs ------------------------
(***************************************************************************)
(* Proofs about RetainedProof: the directory behind the ROCCA adapter      *)
(* authorizes nothing that committed execution has not proven, for every   *)
(* set of lines, words and tokens, every epoch width and every indexing of *)
(* the directory.                                                          *)
(***************************************************************************)
EXTENDS RetainedProof, TLAPS

USE EpochsAssumption, DirIdxAssumption, NoEntryAssumption, NoCommitAssumption

(* What every edge does, whatever is presented: the directory is given a   *)
(* commit that no clear of the same cycle names, the fabric changes the    *)
(* epochs of the cleared lines, and truth keeps what was not cleared and   *)
(* gains the commit and nothing else.                                      *)
IsEdge(commit, cleared) ==
    /\ cleared \subseteq Line
    /\ commit = NoCommit \/ commit \in Clpd!Fact
    /\ commit # NoCommit =>
          commit.epoch = line_epoch[commit.line] /\ commit.line \notin cleared
    /\ Clpd!Edge(commit, cleared)
    /\ FabricEdge(cleared)
    /\ \A p \in proven : p[1] \notin cleared => p \in proven'
    /\ commit # NoCommit => Triple(commit) \in proven'
    /\ proven' \subseteq proven \cup (Line \X Word \X Token)
    /\ \A p \in proven' \ proven : commit # NoCommit /\ p = Triple(commit)

(* Every step of the composition is a clock edge of the directory, for     *)
(* some commit and some lines cleared: what the lemmas below are about.    *)
LEMMA NextIsEdge ==
    ASSUME Next
    PROVE  \E commit, cleared : IsEdge(commit, cleared)
<1>1. PICK cleared \in ClearSet :
         \/ Change(cleared)
         \/ \E proof \in Clpd!Fact, sourceClean, faultPermOk, globalClear \in BOOLEAN :
               Retire(proof, sourceClean, faultPermOk, globalClear, cleared)
  BY DEF Next
<1>2. cleared \subseteq Line
  BY <1>1 DEF ClearSet
<1>3. CASE Change(cleared)
  <2>1. IsEdge(NoCommit, cleared)
    BY <1>2, <1>3 DEF IsEdge, Change, Learn
  <2> QED BY <2>1
<1>4. ASSUME NEW proof \in Clpd!Fact, NEW sourceClean \in BOOLEAN,
             NEW faultPermOk \in BOOLEAN, NEW globalClear \in BOOLEAN,
             Retire(proof, sourceClean, faultPermOk, globalClear, cleared)
      PROVE  \E commit : IsEdge(commit, cleared)
  <2> DEFINE match == proof.epoch = line_epoch[proof.line]
             may == Rocca!MayCommit(proof, sourceClean, match, faultPermOk)
             hit == Rocca!SameCycleClearHit(proof, globalClear, cleared)
             new == IF may /\ ~globalClear THEN {Triple(proof)} ELSE {}
             commit == Rocca!ClpdCommit(proof, sourceClean, match, faultPermOk,
                                        globalClear, cleared)
  <2>1. /\ Clpd!Edge(commit, cleared)
        /\ Learn(new, cleared)
        /\ FabricEdge(cleared)
    BY <1>4 DEF Retire
  <2>2. proof.line \in Line /\ Triple(proof) \in Line \X Word \X Token
    BY DEF Triple, Clpd!Fact
  <2>3. \A p \in proven : p[1] \notin cleared => p \in proven'
    BY <2>1 DEF Learn
  <2>4. proven' \subseteq proven \cup (Line \X Word \X Token)
    BY <2>1, <2>2 DEF Learn
  <2>5. CASE may /\ ~hit
    <3> \A p \in proven' \ proven : p = Triple(proof)
      BY <2>1 DEF Learn
    <3>1. commit = proof
      BY <2>5 DEF Rocca!ClpdCommit
    <3>2. match /\ ~globalClear /\ proof.line \notin cleared
      BY <2>5 DEF Rocca!MayCommit, Rocca!SameCycleClearHit
    <3>3. Triple(proof) \in proven'
      BY <2>1, <2>5, <3>2 DEF Learn, Triple
    <3>4. IsEdge(proof, cleared)
      BY <1>2, <2>1, <2>3, <2>4, <3>1, <3>2, <3>3 DEF IsEdge
    <3> QED BY <3>4
  <2>6. CASE ~(may /\ ~hit)
    <3> proven' \ proven = {}
      BY <2>1, <2>2, <2>6 DEF Learn, Triple, Rocca!SameCycleClearHit
    <3>1. commit = NoCommit
      BY <2>6 DEF Rocca!ClpdCommit
    <3>2. IsEdge(NoCommit, cleared)
      BY <1>2, <2>1, <2>3, <2>4, <3>1 DEF IsEdge
    <3> QED BY <3>2
  <2> QED BY <2>5, <2>6
<1> QED BY <1>1, <1>3, <1>4

(* The four things an edge can do to an entry.                             *)
LEMMA EntryCases ==
    ASSUME NEW i \in Index, NEW commit, NEW cleared, IsEdge(commit, cleared),
           entry \in [Index -> Clpd!Entry \cup {NoEntry}]
    PROVE  \/ entry'[i] = NoEntry
           \/ /\ commit # NoCommit
              /\ DirIdx[commit.line] = i
              /\ entry'[i] = Clpd!Replacement(commit)
           \/ /\ commit # NoCommit
              /\ Clpd!Merges(i, commit)
              /\ ~Clpd!ClearHits(i, cleared)
              /\ entry'[i] = [entry[i] EXCEPT !.mask = @ \cup {commit.word}]
           \/ /\ ~Clpd!ClearHits(i, cleared)
              /\ entry'[i] = entry[i]
<1>1. entry'[i] = Clpd!NextEntry(i, commit, cleared)
  BY DEF IsEdge, Clpd!Edge
<1> QED BY <1>1 DEF Clpd!NextEntry

(* The types hold in every reachable state.                                *)
THEOREM TypeCorrect == Spec => []TypeOK
<1>1. Init => TypeOK
  <2> SUFFICES ASSUME Init PROVE TypeOK
    OBVIOUS
  <2>1. entry \in [Index -> Clpd!Entry \cup {NoEntry}]
    BY DEF Init, Clpd!Init
  <2>2. line_epoch \in [Line -> Epoch]
    BY DEF Init, Epoch
  <2> QED BY <2>1, <2>2 DEF Init, TypeOK
<1>2. TypeOK /\ [Next]_vars => TypeOK'
  <2> SUFFICES ASSUME TypeOK, [Next]_vars PROVE TypeOK'
    OBVIOUS
  <2>1. CASE Next
    <3>1. PICK commit, cleared : IsEdge(commit, cleared)
      BY <2>1, NextIsEdge
    <3>2. ASSUME NEW i \in Index
          PROVE  entry'[i] \in Clpd!Entry \cup {NoEntry}
      <4>1. commit # NoCommit => Clpd!Replacement(commit) \in Clpd!Entry
        BY <3>1 DEF IsEdge, Clpd!Fact, Clpd!Entry, Clpd!Replacement
      <4>2. ASSUME commit # NoCommit, Clpd!Merges(i, commit)
            PROVE  [entry[i] EXCEPT !.mask = @ \cup {commit.word}] \in Clpd!Entry
        <5>1. entry[i] \in Clpd!Entry
          BY <4>2 DEF Clpd!Merges, TypeOK
        <5>2. commit.word \in Word
          BY <3>1, <4>2 DEF IsEdge, Clpd!Fact
        <5> QED BY <5>1, <5>2 DEF Clpd!Entry
      <4> QED BY <3>1, <4>1, <4>2, EntryCases DEF TypeOK
    <3>3. entry' \in [Index -> Clpd!Entry \cup {NoEntry}]
      <4>1. entry' = [i \in Index |-> Clpd!NextEntry(i, commit, cleared)]
        BY <3>1 DEF IsEdge, Clpd!Edge
      <4> QED BY <3>2, <4>1
    <3>4. line_epoch' \in [Line -> Epoch]
      <4>1. \A e \in Epoch : (e + 1) % EPOCHS \in Epoch
        BY DEF Epoch
      <4> QED BY <3>1, <4>1 DEF IsEdge, FabricEdge, TypeOK
    <3> QED BY <3>1, <3>3, <3>4 DEF IsEdge, TypeOK
  <2>2. CASE UNCHANGED vars
    BY <2>2 DEF vars, TypeOK
  <2> QED BY <2>1, <2>2
<1> QED BY <1>1, <1>2, PTL DEF Spec

-----------------------------------------------------------------------------
(* An edge leaves a true directory true: a replaced entry speaks for a     *)
(* line that is not being cleared, and an entry that stays was not hit by  *)
(* a clear, so that its line keeps its epoch and its proofs.               *)
LEMMA DirectoryStep ==
    ASSUME TypeOK, DirectoryIsTrue, NEW commit, NEW cleared,
           IsEdge(commit, cleared)
    PROVE  DirectoryIsTrue'
<1> SUFFICES ASSUME NEW i \in Index, entry'[i] # NoEntry
             PROVE  /\ DirIdx[entry'[i].tag] = i
                    /\ entry'[i].epoch = line_epoch'[entry'[i].tag]
                    /\ \A w \in entry'[i].mask :
                          <<entry'[i].tag, w, entry'[i].token>> \in proven'
  BY DEF DirectoryIsTrue
<1>1. ASSUME NEW l \in Line, l \notin cleared
      PROVE  line_epoch'[l] = line_epoch[l]
  BY <1>1 DEF IsEdge, FabricEdge
<1>2. CASE /\ commit # NoCommit
           /\ DirIdx[commit.line] = i
           /\ entry'[i] = Clpd!Replacement(commit)
  <2>1. /\ commit.line \in Line
        /\ commit.epoch = line_epoch[commit.line]
        /\ commit.line \notin cleared
        /\ <<commit.line, commit.word, commit.token>> \in proven'
    BY <1>2 DEF IsEdge, Clpd!Fact, Triple
  <2>2. /\ entry'[i].tag = commit.line
        /\ entry'[i].token = commit.token
        /\ entry'[i].epoch = commit.epoch
        /\ entry'[i].mask = {commit.word}
    BY <1>2 DEF Clpd!Replacement
  <2> QED BY <1>1, <1>2, <2>1, <2>2
<1>3. ASSUME entry[i] # NoEntry, ~Clpd!ClearHits(i, cleared)
      PROVE  /\ entry[i] \in Clpd!Entry
             /\ DirIdx[entry[i].tag] = i
             /\ entry[i].epoch = line_epoch'[entry[i].tag]
             /\ \A w \in entry[i].mask :
                   <<entry[i].tag, w, entry[i].token>> \in proven'
  <2>1. entry[i] \in Clpd!Entry
    BY <1>3 DEF TypeOK
  <2>2. entry[i].tag \in Line
    BY <2>1 DEF Clpd!Entry
  <2>3. DirIdx[entry[i].tag] = i
    BY <1>3 DEF DirectoryIsTrue
  <2>4. entry[i].tag \notin cleared
    BY <1>3, <2>3 DEF Clpd!ClearHits
  <2>5. entry[i].epoch = line_epoch'[entry[i].tag]
    BY <1>1, <1>3, <2>2, <2>4 DEF DirectoryIsTrue
  <2>6. ASSUME NEW w \in entry[i].mask
        PROVE  <<entry[i].tag, w, entry[i].token>> \in proven'
    BY <1>3, <2>4 DEF DirectoryIsTrue, IsEdge
  <2> QED BY <2>1, <2>3, <2>5, <2>6
<1>4. CASE /\ commit # NoCommit
           /\ Clpd!Merges(i, commit)
           /\ ~Clpd!ClearHits(i, cleared)
           /\ entry'[i] = [entry[i] EXCEPT !.mask = @ \cup {commit.word}]
  <2>1. /\ entry[i] # NoEntry
        /\ entry[i].tag = commit.line
        /\ entry[i].token = commit.token
    BY <1>4 DEF Clpd!Merges
  <2>2. /\ entry[i] \in Clpd!Entry
        /\ DirIdx[entry[i].tag] = i
        /\ entry[i].epoch = line_epoch'[entry[i].tag]
        /\ \A w \in entry[i].mask :
              <<entry[i].tag, w, entry[i].token>> \in proven'
    BY <1>3, <1>4, <2>1
  <2>3. /\ entry'[i].tag = entry[i].tag
        /\ entry'[i].token = entry[i].token
        /\ entry'[i].epoch = entry[i].epoch
        /\ entry'[i].mask = entry[i].mask \cup {commit.word}
    BY <1>4, <2>2 DEF Clpd!Entry
  <2>4. <<entry[i].tag, commit.word, entry[i].token>> \in proven'
    BY <1>4, <2>1 DEF IsEdge, Triple
  <2> QED BY <2>2, <2>3, <2>4
<1>5. CASE ~Clpd!ClearHits(i, cleared) /\ entry'[i] = entry[i]
  BY <1>3, <1>5
<1> QED BY <1>2, <1>4, <1>5, EntryCases DEF TypeOK

(* The directory is true in every reachable state.                         *)
THEOREM DirectoryInvariant == Spec => []DirectoryIsTrue
<1>1. Init => DirectoryIsTrue
  BY DEF Init, Clpd!Init, DirectoryIsTrue
<1>2. TypeOK /\ DirectoryIsTrue /\ [Next]_vars => DirectoryIsTrue'
  <2>1. CASE Next
    BY <2>1, NextIsEdge, DirectoryStep
  <2>2. CASE UNCHANGED vars
    BY <2>2 DEF vars, DirectoryIsTrue
  <2> QED BY <2>1, <2>2
<1> QED BY <1>1, <1>2, TypeCorrect, PTL DEF Spec

(* No seed is authorized whose source word was not proven.                 *)
THEOREM AuthoritySound == Spec => []AuthorityIsProven
<1>1. DirectoryIsTrue => AuthorityIsProven
  <2> SUFFICES ASSUME DirectoryIsTrue, NEW f \in Clpd!Fact, NEW t \in Token,
                      Clpd!SourceAuthorized(f, t)
               PROVE  f.epoch = line_epoch[f.line] /\ Triple(f) \in proven
    BY DEF AuthorityIsProven
  <2>1. DirIdx[f.line] \in Index
    BY DEF Clpd!Fact
  <2> QED BY <2>1 DEF DirectoryIsTrue, Triple, Clpd!SourceAuthorized,
                      Clpd!SourceWordProven, Clpd!SourceLineHit
<1> QED BY <1>1, DirectoryInvariant, PTL

-----------------------------------------------------------------------------
(* The commit of an edge is in the directory after it: the entry of its    *)
(* line is replaced by it or takes its word, and is not cleared.           *)
LEMMA CommitIsEntered ==
    ASSUME TypeOK, NEW commit, NEW cleared, IsEdge(commit, cleared),
           commit # NoCommit
    PROVE  LET q == entry'[DirIdx[commit.line]]
           IN  /\ q # NoEntry
               /\ q.tag = commit.line
               /\ q.token = commit.token
               /\ q.epoch = commit.epoch
               /\ commit.word \in q.mask
<1> DEFINE i == DirIdx[commit.line]
<1>1. commit \in Clpd!Fact /\ commit.line \in Line /\ commit.line \notin cleared
  BY DEF IsEdge, Clpd!Fact
<1>2. i \in Index
  BY <1>1
<1>3. entry'[i] = Clpd!NextEntry(i, commit, cleared)
  BY <1>2 DEF IsEdge, Clpd!Edge
<1>4. CASE ~Clpd!Merges(i, commit)
  <2>1. entry'[i] = Clpd!Replacement(commit)
    BY <1>3, <1>4 DEF Clpd!NextEntry
  <2>2. Clpd!Replacement(commit) \in Clpd!Entry
    BY <1>1 DEF Clpd!Fact, Clpd!Entry, Clpd!Replacement
  <2> QED BY <2>1, <2>2 DEF Clpd!Replacement
<1>5. CASE Clpd!Merges(i, commit)
  <2>1. /\ entry[i] # NoEntry
        /\ entry[i].tag = commit.line
        /\ entry[i].token = commit.token
        /\ entry[i].epoch = commit.epoch
    BY <1>5 DEF Clpd!Merges
  <2>2. ~Clpd!ClearHits(i, cleared)
    BY <1>1, <2>1 DEF Clpd!ClearHits
  <2>3. entry'[i] = [entry[i] EXCEPT !.mask = @ \cup {commit.word}]
    BY <1>3, <1>5, <2>2 DEF Clpd!NextEntry
  <2>4. entry[i] \in Clpd!Entry
    BY <1>2, <2>1 DEF TypeOK
  <2>5. commit.word \in Word
    BY <1>1 DEF Clpd!Fact
  <2>6. entry'[i] \in Clpd!Entry
    BY <2>3, <2>4, <2>5 DEF Clpd!Entry
  <2>7. /\ entry'[i].tag = entry[i].tag
        /\ entry'[i].token = entry[i].token
        /\ entry'[i].epoch = entry[i].epoch
        /\ entry'[i].mask = entry[i].mask \cup {commit.word}
    BY <2>3, <2>4 DEF Clpd!Entry
  <2> QED BY <2>1, <2>6, <2>7
<1> QED BY <1>4, <1>5

(* A proof that an edge makes true is authorized at once, whatever shared  *)
(* its entry before: the epoch of its line did not change at the edge, so  *)
(* that the seed that names it names the epoch of the commit.              *)
THEOREM LearnedStaysKnown == Spec => LearnedIsRetained
<1> DEFINE Retained ==
      \A f \in Clpd!Fact :
         Triple(f) \in proven' \ proven /\ f.epoch = line_epoch'[f.line] =>
             Clpd!SourceAuthorized(f, f.token)'
<1>1. TypeOK /\ [Next]_vars => [Retained]_vars
  <2> SUFFICES ASSUME TypeOK, Next, NEW f \in Clpd!Fact,
                      Triple(f) \in proven' \ proven,
                      f.epoch = line_epoch'[f.line]
               PROVE  Clpd!SourceAuthorized(f, f.token)'
    BY DEF vars
  <2>1. PICK commit, cleared : IsEdge(commit, cleared)
    BY NextIsEdge
  <2>2. commit # NoCommit /\ Triple(f) = Triple(commit)
    BY <2>1 DEF IsEdge
  <2>3. f.line = commit.line /\ f.word = commit.word /\ f.token = commit.token
    BY <2>2 DEF Triple
  <2>4. /\ commit.line \in Line
        /\ commit.line \notin cleared
        /\ commit.epoch = line_epoch[commit.line]
    BY <2>1, <2>2 DEF IsEdge, Clpd!Fact
  <2>5. f.epoch = commit.epoch
    BY <2>1, <2>3, <2>4 DEF IsEdge, FabricEdge
  <2>6. LET q == entry'[DirIdx[f.line]]
        IN  /\ q # NoEntry
            /\ q.tag = f.line
            /\ q.token = f.token
            /\ q.epoch = f.epoch
            /\ f.word \in q.mask
    BY <2>1, <2>2, <2>3, <2>5, CommitIsEntered
  <2> QED BY <2>6 DEF Clpd!SourceAuthorized, Clpd!SourceWordProven,
                     Clpd!SourceLineHit
<1> QED BY <1>1, TypeCorrect, PTL DEF Spec, LearnedIsRetained
=============================================================================
