------------------------------ MODULE ClpdGate ------------------------------
(***************************************************************************)
(* CLPD, the compressed line-provenance directory of src/research/         *)
(* copper_clpd_gate.sv: one direct-mapped entry per set of source lines,   *)
(* which remembers for one line the words that committed execution has     *)
(* used as addresses, under one token and one line epoch.  A prefetch seed *)
(* is authorized only by a matching entry.                                 *)
(*                                                                         *)
(* The fields of an entry that is not valid are never read, so such an     *)
(* entry is the value NoEntry whatever its other registers hold.           *)
(***************************************************************************)
CONSTANTS
    Line, Word, Token, Epoch,
    Index,       \* the entries of the directory
    DirIdx,      \* the low tag bits: DirIdx[line] is the entry line maps to
    NoEntry,     \* an entry whose valid bit is low
    NoCommit     \* commit_ptr_valid is low

(* What a commit asserts, and what a seed has to show.                     *)
Fact == [line : Line, word : Word, token : Token, epoch : Epoch]

Entry == [tag : Line, token : Token, epoch : Epoch, mask : SUBSET Word]

VARIABLE entry

-----------------------------------------------------------------------------
SourceLineHit(line) ==
    entry[DirIdx[line]] # NoEntry /\ entry[DirIdx[line]].tag = line

(* Mutant: a proven word vouches for its whole line.                       *)
SourceLineProven(line, word, epoch) ==
    /\ SourceLineHit(line)
    /\ entry[DirIdx[line]].epoch = epoch

SourceWordProven(line, word, epoch) ==
    /\ SourceLineHit(line)
    /\ entry[DirIdx[line]].epoch = epoch
    /\ word \in entry[DirIdx[line]].mask

(* source_authorized, with the token of the source and of the target.      *)
SourceAuthorized(seed, targetToken) ==
    /\ SourceWordProven(seed.line, seed.word, seed.epoch)
    /\ entry[DirIdx[seed.line]].token = seed.token
    /\ seed.token = targetToken

-----------------------------------------------------------------------------
Init == entry = [i \in Index |-> NoEntry]

(* clear_if_match, for every line written, filled or invalidated.          *)
ClearHits(i, cleared) ==
    \E l \in cleared : DirIdx[l] = i /\ entry[i] # NoEntry /\ entry[i].tag = l

(* The entry already speaks for the line, token and epoch of the commit.   *)
Merges(i, commit) ==
    /\ entry[i] # NoEntry
    /\ entry[i].tag = commit.line
    /\ entry[i].token = commit.token
    /\ entry[i].epoch = commit.epoch

(* Mutant: the mask of a replaced entry is cleared and left so.            *)
ReplacementUnmarked(commit) ==
    [tag |-> commit.line, token |-> commit.token, epoch |-> commit.epoch,
     mask |-> {}]

Replacement(commit) ==
    [tag |-> commit.line, token |-> commit.token, epoch |-> commit.epoch,
     mask |-> {commit.word}]

(* The commit comes after the clears: a replaced entry is valid even when  *)
(* its line is being cleared, whereas a merge sets a mask bit and leaves   *)
(* the valid bit to the clears.                                            *)
NextEntry(i, commit, cleared) ==
    CASE commit # NoCommit /\ DirIdx[commit.line] = i /\ ~Merges(i, commit) ->
            Replacement(commit)
      [] commit # NoCommit /\ DirIdx[commit.line] = i /\ Merges(i, commit)
            /\ ~ClearHits(i, cleared) ->
            [entry[i] EXCEPT !.mask = @ \cup {commit.word}]
      [] commit # NoCommit /\ DirIdx[commit.line] = i /\ Merges(i, commit)
            /\ ClearHits(i, cleared) ->
            NoEntry
      [] (commit = NoCommit \/ DirIdx[commit.line] # i) /\ ClearHits(i, cleared) ->
            NoEntry
      [] OTHER -> entry[i]

(* One clock edge.                                                         *)
Edge(commit, cleared) ==
    entry' = [i \in Index |-> NextEntry(i, commit, cleared)]
=============================================================================
