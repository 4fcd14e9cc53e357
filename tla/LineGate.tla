------------------------------ MODULE LineGate ------------------------------
(***************************************************************************)
(* The proof bits beside the cache lines, src/research/                    *)
(* copper_line_provenance_gate.sv: one bit for each word and one domain    *)
(* for each line.  A seed is allowed if its word has the bit and its line  *)
(* has the domain; translation and permission are good.                    *)
(***************************************************************************)
EXTENDS FiniteSets, Naturals

CONSTANTS Line, Word, Domain,
          ResetDomain,       \* line_domain after a fill, '0
          None               \* a port that is idle

VARIABLES
    proof_bits, line_domain,
    proven,     \* history: <<line, word, domain>> committed since the last
                \* write, fill or invalidation
    owners      \* history: the domains that committed in the line since its
                \* last fill or invalidation

vars == <<proof_bits, line_domain, proven, owners>>

WordOf == [line : Line, word : Word]
Commit == [line : Line, word : Word, domain : Domain]
Opt(S) == S \cup {None}

SourceProvenClean(line, word, domain) ==
    word \in proof_bits[line] /\ line_domain[line] = domain

Init ==
    /\ proof_bits = [l \in Line |-> {}]
    /\ line_domain = [l \in Line |-> ResetDomain]
    /\ proven = {}
    /\ owners = [l \in Line |-> {}]

(* Mutant: the write comes after the commit.                               *)
NextBitsWriteLast(l, commit, write, lost) ==
    ((IF l \in lost THEN {} ELSE proof_bits[l])
        \cup {w \in Word : commit # None /\ commit.line = l /\ commit.word = w})
        \ {w \in Word : write # None /\ write.line = l /\ write.word = w}

(* The assignments in their order: fill and invalidation, write, commit.   *)
NextBits(l, commit, write, lost) ==
    ((IF l \in lost THEN {} ELSE proof_bits[l])
        \ {w \in Word : write # None /\ write.line = l /\ write.word = w})
        \cup {w \in Word : commit # None /\ commit.line = l /\ commit.word = w}

NextDomain(l, commit, lost) ==
    CASE commit # None /\ commit.line = l -> commit.domain
      [] (commit = None \/ commit.line # l) /\ l \in lost -> ResetDomain
      [] OTHER -> line_domain[l]

Edge(commit, write, fill, invalidate) ==
    LET lost == {fill, invalidate} \ {None}
        clean == {p \in proven : /\ p[1] \notin lost
                                 /\ write # None =>
                                      p[1] # write.line \/ p[2] # write.word}
    IN  /\ proof_bits' = [l \in Line |-> NextBits(l, commit, write, lost)]
        /\ line_domain' = [l \in Line |-> NextDomain(l, commit, lost)]
        /\ proven' = clean \cup (IF commit = None THEN {}
                                 ELSE {<<commit.line, commit.word, commit.domain>>})
        /\ owners' = [l \in Line |->
              (IF l \in lost THEN {} ELSE owners[l])
                \cup {d \in Domain : /\ commit # None
                                    /\ commit.line = l /\ commit.domain = d}]

Next == \E commit \in Opt(Commit), write \in Opt(WordOf),
           fill, invalidate \in Opt(Line) : Edge(commit, write, fill, invalidate)

Spec == Init /\ [][Next]_vars

-----------------------------------------------------------------------------
(* A line in which one domain only has committed since it was filled or    *)
(* invalidated answers exactly: a word is allowed to a domain if and only  *)
(* if that domain has committed it and nothing has written it since,       *)
(* whatever commits, writes, fills and invalidations meet in one cycle.    *)
OneOwnerIsExact ==
    \A l \in Line : Cardinality(owners[l]) <= 1 =>
        \A w \in Word, d \in Domain :
            SourceProvenClean(l, w, d) <=> <<l, w, d>> \in proven

(* What the module's header promises: an allowed word has a proof in the   *)
(* domain that asks.                                                       *)
AllowIsProven ==
    \A l \in Line, w \in Word, d \in Domain :
        SourceProvenClean(l, w, d) => <<l, w, d>> \in proven
=============================================================================
