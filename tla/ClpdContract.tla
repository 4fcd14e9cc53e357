---------------------------- MODULE ClpdContract ----------------------------
(***************************************************************************)
(* The bounded CLPD model of src/research/copper_clpd_state_space.py: the  *)
(* directory of ClpdGate with one event at a time, beside a ground truth   *)
(* that keeps for every line one token and a mask of words.  committed is  *)
(* the history that this truth stands for.                                 *)
(***************************************************************************)
EXTENDS Naturals

CONSTANTS Line, Word, Token,
          Index, DirIdx,       \* entries of the directory, and idx(line)
          FirstToken,          \* the token the core starts with
          NoEntry, NoCommit

VARIABLES
    current_token, line_epoch, truth_token, truth_mask, entry,
    committed       \* history: <<line, word, token>> since the line changed

vars == <<current_token, line_epoch, truth_token, truth_mask, entry,
          committed>>

Epoch == {0, 1}

Clpd == INSTANCE ClpdGate

TruthAuthorized(line, word, token, epoch) ==
    /\ truth_token[line] = token
    /\ line_epoch[line] = epoch
    /\ word \in truth_mask[line]

(* Mutant: the epoch is not compared.                                      *)
AuthorizedAnyEpoch(line, word, srcToken, targetToken, epoch) ==
    LET e == entry[DirIdx[line]]
    IN  /\ e # NoEntry /\ e.tag = line
        /\ e.token = srcToken /\ srcToken = targetToken
        /\ word \in e.mask

ClpdAuthorized(line, word, srcToken, targetToken, epoch) ==
    LET e == entry[DirIdx[line]]
    IN  /\ e # NoEntry /\ e.tag = line
        /\ e.epoch = epoch
        /\ e.token = srcToken /\ srcToken = targetToken
        /\ word \in e.mask

-----------------------------------------------------------------------------
Init ==
    /\ current_token = FirstToken
    /\ line_epoch = [l \in Line |-> 0]
    /\ truth_token = [l \in Line |-> FirstToken]
    /\ truth_mask = [l \in Line |-> {}]
    /\ entry = [i \in Index |-> NoEntry]
    /\ committed = {}

(* Mutant: a commit keeps the mask of whatever entry was there.            *)
CommittedEntryKeepingMask(line, word) ==
    LET e == entry[DirIdx[line]]
    IN  [tag |-> line, token |-> current_token, epoch |-> line_epoch[line],
         mask |-> {word} \cup (IF e = NoEntry THEN {} ELSE e.mask)]

CommittedEntry(line, word) ==
    LET e == entry[DirIdx[line]]
    IN  IF /\ e # NoEntry /\ e.tag = line
           /\ e.token = current_token /\ e.epoch = line_epoch[line]
        THEN [e EXCEPT !.mask = @ \cup {word}]
        ELSE [tag |-> line, token |-> current_token,
              epoch |-> line_epoch[line], mask |-> {word}]

CommitWord(line, word) ==
    /\ truth_mask' = [truth_mask EXCEPT ![line] = @ \cup {word}]
    /\ truth_token' = [truth_token EXCEPT ![line] = current_token]
    /\ entry' = [entry EXCEPT ![DirIdx[line]] = CommittedEntry(line, word)]
    /\ committed' = committed \cup {<<line, word, current_token>>}
    /\ UNCHANGED <<current_token, line_epoch>>

ClearedDirectory(line) ==
    [entry EXCEPT ![DirIdx[line]] =
        IF @ # NoEntry /\ @.tag = line THEN NoEntry ELSE @]

(* A write, a fill or an invalidate.                                       *)
SourceUpdate(line) ==
    /\ line_epoch' = [line_epoch EXCEPT ![line] = 1 - @]
    /\ truth_mask' = [truth_mask EXCEPT ![line] = {}]
    /\ entry' = ClearedDirectory(line)
    /\ committed' = {c \in committed : c[1] # line}
    /\ UNCHANGED <<current_token, truth_token>>

ContextSwitch ==
    /\ \E k \in Token \ {current_token} : current_token' = k
    /\ UNCHANGED <<line_epoch, truth_token, truth_mask, entry, committed>>

Next == \/ \E l \in Line, w \in Word : CommitWord(l, w)
        \/ \E l \in Line : SourceUpdate(l)
        \/ ContextSwitch

Spec == Init /\ [][Next]_vars

-----------------------------------------------------------------------------
(* Types; a valid entry is in the place of its line.                       *)
TypeOK ==
    /\ current_token \in Token
    /\ line_epoch \in [Line -> Epoch]
    /\ truth_token \in [Line -> Token]
    /\ truth_mask \in [Line -> SUBSET Word]
    /\ entry \in [Index -> Clpd!Entry \cup {NoEntry}]
    /\ \A i \in Index : entry[i] # NoEntry => DirIdx[entry[i].tag] = i
    /\ committed \subseteq Line \X Word \X Token

(* What the directory authorizes has been committed: this word, under this *)
(* token, since the last change of its line, however often the one-bit     *)
(* epoch has come round and whatever line shared the entry meanwhile.      *)
AuthorityIsCommitted ==
    \A l \in Line, w \in Word, s, t \in Token, e \in Epoch :
        ClpdAuthorized(l, w, s, t, e) =>
            /\ TruthAuthorized(l, w, s, e)
            /\ <<l, w, s>> \in committed
            /\ s = t
            /\ e = line_epoch[l]

(* The directory of the checker is that of the RTL with at most one event  *)
(* at a clock edge: every step is an edge of ClpdGate.                     *)
ImplementsGate ==
    [][\E commit \in Clpd!Fact \cup {NoCommit}, l \in Line :
            \/ Clpd!Edge(commit, {})
            \/ commit = NoCommit /\ Clpd!Edge(commit, {l})]_entry
=============================================================================
