---------------------------- MODULE EpochBoundary ---------------------------
(***************************************************************************)
(* PEB, the provenance epoch boundary of src/research/                     *)
(* copper_provenance_epoch_boundary.sv.  A boundary (a change of context,  *)
(* region or security domain) gives its domain a new epoch, so that stored *)
(* proofs of the domain fail the comparison of epoch and token.  At the    *)
(* last epoch the domain is blocked instead, until external logic has      *)
(* purged its proofs and says so.                                          *)
(*                                                                         *)
(* stored is the external directory, and old the truth about a proof in    *)
(* it: a boundary of its domain was presented since it was committed.      *)
(***************************************************************************)
EXTENDS Naturals, FiniteSets

CONSTANTS
    DOMAIN_W, EPOCH_W, TOKEN_W,
    EPOCHS,        \* 2^EPOCH_W
    NoDomain,      \* no boundary, commit, purge or clear in this cycle
    CAPACITY       \* bound: the proofs that the directory can hold

ASSUME WidthsAssumption == TOKEN_W \in Nat /\ DOMAIN_W \in 1 .. TOKEN_W
ASSUME EpochsAssumption ==
    EPOCH_W \in Nat \ {0} /\ EPOCHS \in Nat \ {0} /\ EPOCHS = 2 ^ EPOCH_W

VARIABLES
    domain_epoch, wrap_pending,      \* for each domain
    wrap_flush_required,
    boundary_domain,                 \* history: of the boundary just presented
    stored

vars == <<domain_epoch, wrap_pending, wrap_flush_required, boundary_domain, stored>>

-----------------------------------------------------------------------------
(* A domain and a token are vectors of bits, an epoch is a counter.        *)
Domain == [0 .. DOMAIN_W - 1 -> BOOLEAN]
Token == [0 .. TOKEN_W - 1 -> BOOLEAN]
Epoch == 0 .. EPOCHS - 1

ASSUME NoDomainAssumption == NoDomain \notin Domain

EpochBit(epoch, i) == (epoch \div 2 ^ i) % 2 = 1

Xor(a, b) == a # b

(* Mutant: the token is salted with the epoch alone.                       *)
MixEpochOnly(base, epoch, domain) ==
    [i \in 0 .. TOKEN_W - 1 |->
        Xor(base[i], Xor(EpochBit(epoch, i % EPOCH_W),
                         EpochBit(epoch, (i + DOMAIN_W) % EPOCH_W)))]

MixToken(base, epoch, domain) ==
    [i \in 0 .. TOKEN_W - 1 |->
        Xor(Xor(base[i], domain[i % DOMAIN_W]),
            Xor(EpochBit(epoch, i % EPOCH_W),
                EpochBit(epoch, (i + DOMAIN_W) % EPOCH_W)))]

(* A proof as it was committed; epoch and token are what is stored.        *)
Proof == [domain : Domain, base : Token, epoch : Epoch, token : Token, old : BOOLEAN]

(* proof_current for a stored proof and a query of a domain and base token.*)
ProofCurrent(s, domain, base) ==
    /\ ~wrap_pending[domain]
    /\ s.epoch = domain_epoch[domain]
    /\ s.token = MixToken(base, domain_epoch[domain], domain)

Committed(domain, base) ==
    [domain |-> domain, base |-> base, epoch |-> domain_epoch[domain],
     token |-> MixToken(base, domain_epoch[domain], domain), old |-> FALSE]

-----------------------------------------------------------------------------
Init ==
    /\ domain_epoch = [d \in Domain |-> 0]
    /\ wrap_pending = [d \in Domain |-> FALSE]
    /\ wrap_flush_required = FALSE
    /\ boundary_domain = NoDomain
    /\ stored = {}

(* The boundary finds the domain at its last epoch.                        *)
WouldWrap(d) == domain_epoch[d] = EPOCHS - 1

(* Mutant: a boundary of one domain is a boundary of all.                  *)
NextEpochOfAll(d, boundary, clear) ==
    CASE boundary # NoDomain /\ ~wrap_pending[d] /\ ~WouldWrap(d) -> domain_epoch[d] + 1
      [] (boundary = NoDomain \/ wrap_pending[d] \/ WouldWrap(d)) /\ d = clear -> 0
      [] OTHER -> domain_epoch[d]

(* The assignments for a boundary come after those for a clear.            *)
NextEpoch(d, boundary, clear) ==
    CASE d = boundary /\ ~wrap_pending[d] /\ ~WouldWrap(d) -> domain_epoch[d] + 1
      [] (d # boundary \/ wrap_pending[d] \/ WouldWrap(d)) /\ d = clear -> 0
      [] OTHER -> domain_epoch[d]

(* Mutant: a domain at its last epoch is not blocked.                      *)
NextPendingNever(d, boundary, clear) == wrap_pending[d] /\ d # clear

NextPending(d, boundary, clear) ==
    \/ d = boundary /\ ~wrap_pending[d] /\ WouldWrap(d)
    \/ wrap_pending[d] /\ d # clear

(* The registers at one clock edge.                                        *)
BoundaryEdge(boundary, clear) ==
    /\ domain_epoch' = [d \in Domain |-> NextEpoch(d, boundary, clear)]
    /\ wrap_pending' = [d \in Domain |-> NextPending(d, boundary, clear)]
    /\ wrap_flush_required' =
          (boundary # NoDomain /\ (wrap_pending[boundary] \/ WouldWrap(boundary)))

(* The directory at that edge: a purge of one domain, a commit that is not *)
(* blocked, and proofs that a boundary makes old.                          *)
Aged(s, boundary) == [s EXCEPT !.old = @ \/ s.domain = boundary]
DirectoryEdge(boundary, new, purge) ==
    stored' = {Aged(s, boundary) : s \in {s \in stored : s.domain # purge} \cup new}

New ==
    {{}} \cup {{Committed(d, base)} : d \in {d \in Domain : ~wrap_pending[d]}, base \in Token}

Edge(boundary, clear, new, purge) ==
    /\ BoundaryEdge(boundary, clear)
    /\ DirectoryEdge(boundary, new, purge)
    /\ boundary_domain' = boundary

(* Domains of which external logic may say that they have been purged.     *)
Purged == {d \in Domain : wrap_pending[d] /\ \A s \in stored : s.domain # d}

Next ==
    \E boundary, purge \in Domain \cup {NoDomain}, clear \in Purged \cup {NoDomain},
       new \in New :
        /\ Cardinality(stored \cup new) <= CAPACITY
        /\ Edge(boundary, clear, new, purge)

Spec == Init /\ [][Next]_vars

-----------------------------------------------------------------------------
(* Registers and directory have their types.                               *)
TypeOK ==
    /\ domain_epoch \in [Domain -> Epoch]
    /\ wrap_pending \in [Domain -> BOOLEAN]
    /\ wrap_flush_required \in BOOLEAN
    /\ boundary_domain \in Domain \cup {NoDomain}
    /\ stored \subseteq Proof

(* "Existing entries then fail the epoch/token comparison": once a         *)
(* boundary of its domain has been presented, no query of that domain      *)
(* finds a proof current, under whatever base token, with epochs that run  *)
(* out, purges, clears and boundaries of one domain in one cycle.          *)
BoundaryContains ==
    \A s \in stored, base \in Token : s.old => ~ProofCurrent(s, s.domain, base)

(* A boundary contains no more than its own domain: other proofs stay      *)
(* current as long as their domain is not blocked.                         *)
FreshIsCurrent ==
    \A s \in stored :
        ~s.old /\ ~wrap_pending[s.domain] => ProofCurrent(s, s.domain, s.base)

(* Epochs of different domains coincide, and the comparison does not look  *)
(* at the domain: the token has to tell the domains apart.                 *)
DomainsAreApart ==
    \A s \in stored, d \in Domain : d # s.domain => ~ProofCurrent(s, d, s.base)
=============================================================================
