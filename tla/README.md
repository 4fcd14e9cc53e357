# Formal models of COPPER

COPPER lets a data-memory-dependent prefetcher (DMP) follow a pointer only if
*committed* execution has already used that very word as an address, and only
while nothing has changed since. The repository implements this as a set of
small clocked SystemVerilog blocks under `src/research/` that keep proofs, and
paths that revoke them; it states what they promise a second time as bounded
state-space checkers in Python; and it has programs around them that have
state of their own: a TLS workload with a session cache and a server process,
and the import of CI evidence into ledgers. All three are modelled here.

A step of an RTL model is one rising clock edge, and its variables have the
names of the registers. A valid bit and the registers it guards are one
variable that is a record or a "nothing" value (`NoEntry`, `NoTag`, `NoLine`,
...); lines, words, tokens and values are opaque, since the code only compares
them. A step of a contract is one of its transitions, a step of a program is
one call, one request or one file. Ground truths (`owed`, `proven`,
`translation`, `committed`, `demanded`, `offered`, ...) are history or environment variables
against which the state of the code is judged.

## Inventory

### The RTL (`src/research/*.sv`)

| Component | State | Operations at an edge | What makes it correct |
|---|---|---|---|
| SARI-RQ ring revoker, `copper_sari_ring_revoker` | queue, head, tail, count, sticky overflow | admit 0-3 lines, drop a burst, drain one | no revocation forgotten without the overflow hold; FIFO order through wrap |
| SARI shift revoker, `copper_sari_revoker` | shifted queue, sticky overflow | the same, event by event | the same |
| CS-SARI, `copper_sari_scoped_revoker` | shifted array, count, sticky overflow | the same, hold only for matching candidates | the scan sees every occupied slot and no other |
| AMBA/SARI front door, `copper_amba_sari_frontdoor` | none | decode CHI/DVM, gate by SARI readiness, hold the DMP | hold from presentation on; backpressure makes overflow impossible |
| CLPD gate, `copper_clpd_gate` | direct-mapped tag, token, epoch, word mask | query, clear by write/fill/invalidate, merge, replace | an authorized word is proven and unchanged |
| CLPD SRAM directory, `copper_clpd_sram_dir` | init counter, read pipeline, memory | init sweep, query and update a cycle later, reset | answers like the plain directory |
| ROCCA adapter, `copper_rocca_clpd_commit_adapter*` | none | turn retirement proofs into commits unless cleared in the cycle | no dead proof enters CLPD |
| LSQ source-tag tracker, `copper_lsq_source_tag_tracker` | per tag: source, epoch, value, stale | capture, flush, clear, staleness, retirement check | a proof only of a word that still holds the address used |
| CEPF bridge, `copper_commit_epoch_proof_bridge` | none | compare epochs at retirement | as the tracker's |
| CTLW, `copper_ctlw_witness_dir` | direct-mapped translations | record, remap, TLBI by token, TLBI all | a usable witness is the current translation |
| Full top, `copper_full_lsq_amba_authority_top` | a one-cycle revocation slice | wires the above | the hold lasts until the clear has landed |
| Bridge top, `copper_amba_sari_authority_bridge_top` | none of its own | front door, ring, CLPD, CTLW without ROCCA or slice | as above |
| TLB/coherence filter, `copper_tlb_coherence_authority_filter` | two queues, overflow bits | enqueue target and source events, drain, scoped hold | no event forgotten |
| PEB, `copper_provenance_epoch_boundary` | epoch, wrap-pending per domain | boundary, wrap clear | no epoch reused without a purge |
| Line gate, `copper_line_provenance_gate` | line domain, proof bits | commit, write, fill, invalidate | no proof across domains |
| Stream table gate, `copper_stream_table_gate` | streams, dirty words, sticky overflow | train, dirty, commit, epoch advance | a dirty word is never allowed |
| Prefetch unit, `copper_prefetch_unit_open` | pair table, queue count | commit, prefetch, pop | the queue never holds more than it has room for |
| ROPL guard, register slice, full authority gate, CAVI gate, SCOOP arbiter, older gates, wrappers | little or none | see *Not modelled* | - |

### The contracts (`src/research/*.py`)

| Component | State | Operations | What makes it correct |
|---|---|---|---|
| SARI-RQ, `copper_sari_rq_state_space` | shift queue, ring queue, overflow of each | a burst that obeys ready or violates it | the two agree; each RTL queue is its side of it |
| CS-SARI, `copper_cs_sari_state_space`, `..._composition_state_space` | queue, overflow, live authority; in composition ground truth beside metadata | revoke, commit, record, drain | issue iff not revoked; a commit survives the older drain |
| TLB/coherence, `copper_tlb_coherence_contract` | two queues without duplicates, epochs, permissions, truth, metadata | revoke, remap, TLBI, downgrade, upgrade, repair on drain | issue iff true and not named by anything pending |
| LSQ proof, `copper_ooo_lsq_proof_contract` | two loads, one tag, epoch, value | execute and retire in any order, flush, revoke, silent change, fault | a proof only of an untouched source |
| ROPL, `copper_ooo_replay_exception_alias_contract` | two loads, one tag, one-bit generations | replay, squash, alias, exception, violation | one such event stops the proof |
| CLPD, `copper_clpd_state_space` | directory, line epochs, truth masks | commit, update, context switch | authorizes only what was committed; implements the RTL |
| Authority, `copper_authority_state_space` | tag, proof, witness, target, fills | 11 events from load to prefetch | issue only on sound proofs and witnesses |

### The programs

| Component | State | Operations | What makes it correct |
|---|---|---|---|
| TLS session cache, `aarch64_openssl_tls_tcp_workload.c` | hash chains and LRU list, doubly linked | request: find, or reuse the least recent; exchange | list and chains stay whole; it is an LRU cache |
| TLS exchange with a server process (same file) | two processes, descriptors, sockets, a result pipe | fork, connect, handshake, records, report, reap; any call fails, `waitpid` included, the child is killed | returns; leaves nothing behind; success means every record |
| CI evidence import, `scripts/import_ci_artifacts.py` | canonical files, artifact copies, gate ledger | import, merge file by file, write ledgers; stop anywhere, inside a file too | each row once, nothing that no file brought; the ledger tells the truth |
| Everything else | none that outlives a run | read results, write tables and documents | see *Not modelled* |

**Interactions.** Loads give the tracker a tag with word, epoch and value. A
memory instruction that retires with the tag makes the tracker, CEPF and (in
its tops) ROCCA write a commit to CLPD. Changes of memory revoke along two
paths: those of the core go straight to tracker and CLPD; those of DMA, CHI and
I/O pass front door, SARI queue and, in the full top, a register slice, so that
they arrive cycles later. Remaps and TLBIs pass front door and slice into CTLW,
which demand accesses fill meanwhile. A prefetch needs a CLPD proof, a CTLW
witness (or the same page) and that no hold is up. The contracts restate these
mechanisms one event at a time. In the workload, a cache miss runs an exchange;
parent and child share sockets and a pipe.

**What is hard.** Several events meet at one edge, and the order of nonblocking
assignments decides which wins. Revocations are delayed, so a proof may be
created while its death is still queued; only the hold and the comparison of
epoch and value stand in between. Epochs and generations have a few bits and
come round. Lines share directory entries. Queues have a bound and bursts of
three. Processes die between two messages, and an import between two files or inside
one.
`PROJECT.json` lists each of these at the line where it bites.

## Modules

| Module | Models | State | Actions |
|---|---|---|---|
| `SariRing` | the ring revoker | the registers, `owed` | `Admit`, `Drop`, `Drain` |
| `SariShift` | the shift revoker; abstract queue | `queue` as a sequence, `overflow_sticky`, `owed` | `Edge`: shift, then enqueue DMA, CHI, I/O |
| `ScopedRevoker` | CS-SARI | array, `count`, `overflow_sticky`; `owed` counts clears | `Edge(dma, chi, io)` |
| `SariFrontdoor` | the front door's wires | - | operators only |
| `RevocationPath` | door + ring + masters (bridge top) | ring registers, wires of the cycle | `Accepted`, `Backpressured` |
| `ClpdGate` | CLPD | `entry` | `Edge(commit, cleared)` |
| `ClpdSram` | CLPD in SRAM, beside a directory that writes at once | `entry_mem`, `init_addr`, `upd`, `response`, `directory` | `ClearOne`, `Edge(seed, update)`, `Reset` |
| `RoccaAdapter` | ROCCA's wires | - | operators only |
| `RetainedProof` | ROCCA + CLPD top; bare CLPD as in the bridge top | `entry`, `line_epoch`, `proven` | `Retire`, `Change`, `BareRetire` |
| `LsqTracker` | tracker and CEPF | `tag` | `Edge(flush, capture, cleared, writes, changed)` |
| `SourceAuthority` | source half of the full top | tracker, queue, slice, CLPD, memory, `proven` | `Edge(core)` |
| `CtlwDir` | CTLW | `witness` | `Edge(record, remaps, tokens, all)` |
| `TargetAuthority` | target half of the full top | wires, slice, `witness`, `translation` | `Edge(record)` |
| `RevocationQueue` | one queue of the TLB/coherence filter | queue, head, tail, count | `Edge(item, drain)` |
| `TlbFilter` | the filter: two `RevocationQueue`s, priority encoding, scoped hold | both queues, `overflow_sticky`, `source_owed`, `target_owed` | `Edge(line, events, sourceDrain, targetDrain)` |
| `EpochBoundary` | PEB and the directory whose proofs carry its epochs | `domain_epoch`, `wrap_pending`, `wrap_flush_required`, `stored` | `Edge(boundary, clear, new, purge)` |
| `LineGate` | the line gate | `proof_bits`, `line_domain`; `proven`, `owners` | `Edge` |
| `StreamTable` | the stream table gate | `stream_tab`, `dirty_cam`, `dirty_overflow`; `written` | `Edge(commit, dirty, epoch_advance)` |
| `PrefetchUnit` | the prefetch unit and the queue outside it | `table`, `insert_ptr`, `queue_count`; `queued` | `Edge(commit, demand, pop)` |
| `SariRqContract` | the SARI-RQ contract | both queues and overflows | `Transition(sources, obey)` |
| `CsSariHold`, `CsSari` | the CS-SARI contracts, alone and in composition | queue, overflow, truth, metadata | `Transition(event)` |
| `TlbContract` | the TLB/coherence contract | queues, epochs, permissions, truth, metadata; `demanded` | `Step(event)` |
| `OooContract`, `RoplContract` | the LSQ contracts | loads, tag, generations; what `happened` | one action per event |
| `ClpdContract`, `AuthorityContract` | the CLPD and authority contracts | as the checkers' states; histories | one action per event |
| `LruCache` | what a session cache promises | `cache`, a sequence of ids | `Request` |
| `TlsService` | the session cache, pointer by pointer | `sid`, `hash`, `lru`, `exited` | `ServiceRequest` |
| `TlsProcess` | one exchange with a server process | `parent`, `child`, `c2s`, `s2c`, `connected`, `pipe`, counters | one action per call of each; `ChildDies`, `WaitFails`, `ReadFails` |
| `CiImport` | the import | canonical files, `unreadable`, artifact, ledger; `offered`, `damaged` | `ImportSource`, `MergeEvidence`, `WriteLedgers`, `StoppedBetweenFiles`, `StoppedInFile` |
| `*Proofs` | theorems of the module named | | |
| `MC*` | systems and constants for TLC | | |

Blocks that interact are instantiated on shared variables, like the instances
in the code: `SourceAuthority` is `LsqTracker`, `SariShift` and `ClpdGate` at
one edge, joined by the assignments of the top. Where the code writes a register
several times at an edge, the model has one CASE whose alternatives state when
each assignment is the last (`NextEntry`, `NextTag`, `NextWitness`). A block
whose write happens only under a valid bit gets a "nothing" value when the bit
is low.

`MCRevokers`, `MCTargets`, `MCGates` and `MCSoftware` each hold several systems that do not
interact but answer one question. A variable `part`, chosen in the initial
state, says which of them takes steps; the others stay in an initial state. So
the states of such a run are the sum and not the product of its systems.

Definitions such as `HoldWithoutSlice`, `GlobalClearHit`, `ScanShort` or
`LruRemoveKeepingTail`, marked "Mutant" in their comment, are plausible mistakes
in the definition that follows them. No specification uses them; each breaks the
property it is paired with in `PROJECT.json`, which shows that the property
depends on that code.

## Runs

A run asks one question; the table says what each of its properties adds.

**`revokers`**: is a revocation held and kept from its presentation to its
clear, by every revoker and by the contracts that stand for them?

| Part | Bounds | Properties |
|---|---|---|
| `ring` | 2 lines, 4 slots: one more than a burst, so that the ring is both ready and not ready at every pointer position; masters ignore ready | `OwedIsHeld`: a dropped revocation is covered by the overflow hold. `RtlImplementsContract`: the ring is the ring of the SARI-RQ contract, and the shift queue is the contract's while bursts respect ready |
| `path` | as `ring`, whose registers it shares; one CHI kind that is an event (`PresentedKinds`), or the channel at rest | `NoOverflow`, `RevocationIsHeld` from presentation to clear, `EventuallyCleared`, and `OthersImplementShift`: the ring behind its door is the shift queue |
| `shift`, `scoped` | as `ring`; one line has the tag zero, which is what an empty slot reads | `OthersHoldOwed`: the scoped hold is up exactly for owed lines, however often a line is queued; `OthersImplementShift` |
| `contract` | the checker's own bound | `QueuesAgree` |
| `hold`, `composed` | 3 source lines, 2 slots, 2 targets under 2 tokens: the checker's sizes but for the number of targets | `HoldIssueIsExact`, `ComposedIssueIsExact`: issue iff true and not pending; `CommitIsUsed` |

**`retained_proof`**: is what ROCCA and CLPD authorize proven
(`AuthorityIsProven`), for the reason in `DirectoryIsTrue`, and is what is
learned kept (`LearnedIsRetained`)? 2 lines sharing the one entry, 2 words, 2
tokens, epochs of one bit; up to three clears and a commit at an edge.

**`source_authority`**: is an unheld prefetch's word proven, with queue, slice and
tracker in between (`IssueIsProven`)? 2 lines sharing an entry, 1 word that is a
pointer and 1 that is not, 2 values, 1 tag, epochs of one bit, 3 slots.

**`targets`**: are changes of translation held, along both of their ways to the
prefetcher?

| Part | Bounds | Properties |
|---|---|---|
| `top` | `TargetAuthority`: 2 virtual lines sharing the one entry, 2 tokens, 2 physical lines; any remap together with any DVM message | `WitnessIsCurrent`: a witness that may be used is the current translation, for the reason in `StaleIsInSlice` |
| `filter` | `TlbFilter`: 2 source lines in 3 slots, 1 target line under 2 tokens (4 events) in 2 slots; drains arbitrary | `SourceIsHeld`, `TargetIsHeld`: a candidate is held from the announcement of a change until its clear, by a scan of queues that fill, drain and wrap |

**`gates`**: does each gate that stands alone answer as the truth does?

| Part | Bounds | Properties |
|---|---|---|
| `boundary` | 2 domains, 4 epochs, so that a domain runs out of epochs while the other is at any of its own, tokens of 2 bits, 2 stored proofs | `BoundaryContains`: no proof survives a boundary of its domain; `FreshIsCurrent`: every other one does; `DomainsAreApart` |
| `sram` | 2 lines of one entry and 1 of another, 2 tokens; entries hold anything after reset, which may come at any edge | `AnswerIsExact`: an answer without hazard is that of a directory written at once |
| `line` | 2 lines of 2 words, 2 domains | `OneOwnerIsExact`: a line that one domain uses answers exactly what was committed and not written since |
| `stream` | 2 streams in 1 entry, 2 words, 2 domains, 2 dirty words, threshold 2 | `WrittenIsDirty`: a word written since its commit seeds nothing, also when the table overflows or frees a slot in that cycle |
| `unit` | 3 pairs in 2 entries, 2 slots | `CountCovers`: the count never falls below the queue nor above its size |

**`software`**: do the Python contracts hold for what they stand for, and do the
programs keep what they promise?

| Part | Bounds | Properties |
|---|---|---|
| `tlb`, `tight` | 2 sources, 1 target under 2 tokens, queues of 2 slots and of 1, in which overflow is reached | `IssueIsExact`: what issues is true before and after the event of its step, permission included, and what is true, not pending and on a witness recorded since its last downgrade issues; `EpochIsCurrent`: nothing ever hangs on the one-bit epoch |
| `clpd` | the checker's; 2 lines in one entry | `AuthorityIsCommitted`, and the refinement `ImplementsGate`: each step is an edge of the RTL's CLPD |
| `authority` | the checker's; updates counted to three | `IssueIsSound`; `OneUpdateIsCaught`: bits of value and epoch come round after two updates, so that only a single one is always noticed |
| `tracker`, `replay` | the checkers' | `ProofIsUntouched`, `OneReplayIsCaught` |
| `service` | 3 sessions, 4 ids, 2 buckets, one of which holds three ids | `ServiceIsValid`: the list reads the same both ways and holds all sessions; the refinement `ImplementsCache` |
| `process` | 2 records, 1 poll that finds nothing; every call may fail, the parent's `waitpid` and its read of the pipe included, the child may die anywhere | `SuccessIsComplete`, `NothingIsLeft`, `Returns` |
| `import` | 1 gate that merges; files that pass, fail, repeat rows, have a wrong schema or are out of date; up to 2 stops inside the canonical file (`STOPS`) and any number between files | `EvidenceIsMerged`: each whole row once; nothing but rows that were offered, or what a stop has left of one; all of them if no stop was inside the file, and those of the file just merged in any case |

`software` switches the deadlock check off: exchanges and contracts end.

**Runs that expect a violation**: `bare_directory`, `lost_invalidate` (as
`source_authority` with 1 word), `simultaneous_events` (the filter alone),
`restored_witness` (1 source, 1 target, 1 token, 2 slots), `line_gate`,
`stale_pass` (1 gate that merges, 1 that does not); see *Findings*.

The bounds are those at which every interesting coincidence is there: aliasing
needs two lines in one entry; a merge and a replacement need two tokens or
epochs; an epoch that comes round needs `EPOCHS` changes, and one bit makes that
shortest; a value that returns needs two values. The directories treat entries
independently, so one is enough. Queues longer than three only add states
between "not ready" and "ready". Where a theorem exists (below), size does not matter.

### Assumptions of single models

`TlbFilter` leaves the moment of a drain to its environment, as the code does
with its drain enables, and counts a change as cleared at the edge at which the
queue delivers it. `SeparateSpec` assumes that target events arrive one at a
time or together with a global TLBI, which covers them; finding 3 is about the
code without that assumption. Wires of the current cycle hold the candidates of
that cycle and are not in the state.

`EpochBoundary` has the external logic that the header asks for: it says that a
blocked domain has been purged only when no proof of the domain is stored.
Purges may also happen otherwise, and a commit, a boundary, a purge and a clear
may coincide. `CAPACITY` bounds the proofs that are stored at one time, and
nothing else: proofs are compared one by one. The model made plain what the
header does not say. The epoch comparison alone makes proofs stale; if `EPOCH_W`
divides `DOMAIN_W` the two epoch bits of the mix cancel. What the token is
needed for is to keep *domains* apart, which have the same epochs most of the
time. And a boundary that meets the wrap clear of its domain raises
`wrap_flush_required` once more though the block ends at that edge.

`SourceAuthority`: at most two bus masters, on different lines, have a write
accepted in a cycle, and the core changes memory once a cycle. The queue is
`SariShift`, which `OthersImplementShift` shows the ring to implement. A capture
sees the memory of its own cycle, that is, the value before a change that takes
effect at the edge. The epoch of a line written from the bus may change with the
write or not at all, since the code leaves that to the core. `CourteousSpec`
assumes that the core does not invalidate in a cycle in which the slice delivers
a clear; finding 2 is about the code without that assumption.

`RtlImplementsContract`: a burst that comes while the shift queue is not ready is taken
as far as it fits by the RTL and dropped as a whole by the contract. The
property therefore compares the shift queue only on ready bursts; off them both
raise the overflow bit, which holds everything.

`StreamTable`: a write and a commit of one word in one cycle are taken as the
commit coming last, which is what the code does when the word is already marked.
`PrefetchUnit`: a pop in the cycle of a push is not counted, so that the count may run
ahead of the queue and prefetches be refused for want of room that is there; the safe side is
what `CountCovers` states. So `WrittenIsDirty` does not cover a write that meets the
commit of its word, and `CountCovers` does not bound how far the count runs ahead;
the hazards at these two places have no property.

`AuthorityContract`, `RoplContract`: histories count to `MaxUpdates` and
`MaxHappened` and saturate there.

`TlbContract`: permissions are not queued. `HoldIsScoped`, the precision half of
`IssueIsExact`, demands that a true candidate issues only for a witness in `demanded`,
one that a demand access has recorded since its permission was last taken. What
happens to an older witness when the permission comes back is finding 4. The
downgrade wire of the RTL filter is an input of its own that acts in its cycle
only; it is not in this module.

`TlsProcess`: TLS is one message each way for the handshake and one each way for
a record. `POLLS` bounds the calls that find nothing before the timeout of the
code; a smaller number only makes giving up easier to reach. A killed child
closes what it has open. When `waitpid` fails
(`aarch64_openssl_tls_tcp_workload.c:902-904`), the exchange returns without having
counted anything, and the child may still be exiting, be a zombie, or have been
reaped by the kernel (`SIGCHLD` ignored). The second `waitpid`, after the kill, may
fail too; its answer is not looked at, and the failure has been counted before. So
`NothingIsLeft` states reaping and the count for exchanges whose `waitpid` works; of
the others, that no descriptor is open, that the child has nothing left to do but
exit, and that no pair is counted. Key generation and the certificates are external.

`CiImport`: `write_csv` (`import_ci_artifacts.py:208-213`) truncates a file and then
writes header and rows through a buffer that is smaller than the larger canonical
files. A stop inside it leaves any prefix: nothing or a part of the header (`unreadable`),
or the header, some rows and perhaps a torn one (`Partial`, `Cuts`). Later imports go on
from there. Into a file without a header they store no rows, while they report that
they merged; under a header that is cut short they find another schema. A
torn row stays. As long as the columns it lacks are read as None it equals no row, and
once it is written again they are empty text (`fresh`, `stored`). Rows that an
earlier import has brought and the stop has cut off come back only if their
artifact is imported again. `offered` remembers all rows whose merge has begun, also
across stops, so `EvidenceIsMerged` does see such a loss, and allows it only where
`damaged` says that a stop was inside the file. No document promises that evidence
survives a stop, so this is no finding, but a reader of the ledgers should know.
`STOPS` bounds the stops inside one file. A row is whether its environment is open,
its status, and whether it is torn: rows that differ only in other columns are one
row. Copies of artifacts and the ledgers are written in one step each; a stop inside
them is not modelled, as the next import writes them anew.

### Fairness

Two models have liveness. `RevocationPath` asks for weak fairness of the whole
clock edge: the clock keeps ticking. Nothing is asked of masters: they may stay
idle, or present a line at every edge. `TlsProcess` asks for weak fairness of each
process as a whole: the operating system schedules both. Nothing is asked of any
call: each may fail or find nothing every time. What befalls the exchange from
outside (`Misfortune`: the child is killed, `waitpid` or the read of the pipe meets an
error) may or may not happen and is in no fairness condition.
`Returns` then rests on the bounded polls and on the parent closing its copy of
the writing end of the pipe.

## Findings

1. `bare_directory`. `copper_clpd_gate.sv:14-15` says "Any source-line
   write/fill/invalidate clears the retained line proof." In the always block
   the commit comes after the clears. A commit that *replaces* the entry in the
   cycle of a clear of its own line sets `entry_valid` again (a merge does not,
   so that a clear wins there). The bridge top writes commits straight to CLPD.
   With ROCCA in front, the commit is suppressed, and `retained_proof` and the
   theorem `AuthoritySound` show that nothing dead survives.
2. `lost_invalidate`. `COPPER_FULL_PAPER.md:172` says "on line fill/invalidation
   for L: proof_bits[L][*] = 0". The full top has one invalidate port for core and
   slice (lines 237 and 402), and the slice has priority. A core invalidate in
   such a cycle reaches neither tracker nor CLPD. No ready wire tells the core.
   What still protects the line is its epoch, until that comes round.
3. `simultaneous_events`. The filter's header (lines 7-11) says that it "closes
   DMP issue over the authority-changing events that a production AArch64-style
   SoC must feed into COPPER: source-line revocation, target remap, token/global
   TLBI, queued invalidation drain, ...". Remap, token TLBI and global TLBI have
   wires of their own, but lines 169-184 take one event a cycle. A remap in the
   cycle of a TLBI of *another* token is dropped while `target_events_ready` is
   high and `overflow_sticky` stays low: from the next cycle on its candidates
   are not held, and no clear is delivered. The repository's random test lets the
   wires coincide but judges each cycle by that cycle's wires.
4. `restored_witness`. The report of `copper_tlb_coherence_contract.py` says (line
   678) "permission downgrade blocks target issue until permission is restored and
   demand revalidates authority", and its docstring (lines 5-7) that target
   witness metadata must not survive a permission downgrade. `step_state` (lines
   494-497) only clears and sets the permission bit. The witness stays and, as soon
   as the permission is back, candidates issue on it with no demand access in
   between (`RestoreNeedsDemand`). The checker's ground truth reads the same bit and
   does not notice.
5. `line_gate`. `copper_line_provenance_gate.sv:9-11` says "allow iff the source
   word has a clean committed-pointer proof in the source domain". A commit sets
   one proof bit and relabels the whole line with its domain (lines 90-93)
   without clearing the bits another domain left: those words are then allowed to
   a domain that never committed them. A line that one domain uses answers exactly
   (`OneOwnerIsExact`).
6. `stale_pass`. `import_ci_artifacts.py:527` reports "All required imported CI
   evidence checks passed." when every gate is PASS. A gate that reads a canonical
   file is PASS as soon as *any* open-environment row of it is (lines 311-319),
   and merging only adds rows: a run that failed, imported after one that passed,
   is reported as passed.

## Proofs

All proofs are checked by TLAPS. Every property of every passing run is stated
by a theorem, for every value of the constants that satisfies the assumptions,
but for the two liveness properties. The runs and the theorems are about the
same definitions: `MCRevokers`, `MCTargets`, `MCGates` and `MCSoftware` take their sizes as
CONSTANTS, and the `.cfg` gives them the values in the tables above. A run of such a
composition is a run of each of its systems (the lemmas `...Part`), so that each
theorem about the composition rests on an invariant of one system alone.
The theorems about `SariRing`, `EpochBoundary`, `TlbFilter` and `TlbContract` are stated
of those modules' own specifications. That of `TlbContract` has any `QUEUE_DEPTH`, and so covers the
depth of part `tlb` as well as the single slot of part `tight`.

**Assumptions on constants.** Queue depths are natural numbers, positive where a
pointer is taken modulo the depth; `EPOCHS` and `RECORDS` are positive; a token is at
least as wide as a domain; index functions map lines to entries (`DirIdx`,
`SramIdx`, `LineIdx`, `WitIdx`) and ids to buckets (`BucketOf`); sessions are
finitely many and at least one, tenants finitely many; the rows of a file are a
sequence of whole rows; "nothing" values are not among the values they stand in for. Nothing else
is assumed of any set of lines, words, tokens, values, gates or files. Two
theorems are about specifications that restrict the environment:
`SourceAuthorityProofs` is about `CourteousSpec`, and `TargetRevocationsAreHeld` about
`SeparateSpec`, whose steps are those of part `filter` of `Targets`; findings 2 and 3 are what the code does without.

Most properties are not inductive: they say nothing while the hold is up, or
nothing about the registers that make them true. What is added, and why:

### `RevokersProofs`: the run `revokers`

| Theorem | States | Inductive invariant |
|---|---|---|
| `RevocationsAreKept` | `OwedIsHeld` | `RingShape`: `tail = head + count` modulo `DEPTH`, and every counted slot holds a line. Without it nothing says that an admitted line is found again between head and tail |
| `PathNeverOverflows` | `NoOverflow` | `WiresOK`; what passes the door is a burst only if the ring is ready (`GatedWires`) |
| `PathHoldsRevocations` | `RevocationIsHeld` | `OwedIsHeld`, since the ring behind its door is a ring (`RingPart`) |
| `RtlIsContract` | `RtlImplementsContract` | `RingShape`: the slots from head on, read as a sequence, lose their first line at a drain and gain the burst at an admission (`WaitingStep`) |
| `OthersAreShift` | `OthersImplementShift` | the same for the ring; for the scoped revoker `ScopedOK` |
| `OthersHold` | `OthersHoldOwed` | `ShiftOK`; `ScopedOK`: each line is owed as many clears as it is queued. Queued lines are counted at positions from a base that grows with every clear, so that shifting the array moves no position |
| `ContractQueuesAgree` | `QueuesAgree` | `ContractOK`: no queue is longer than `DEPTH`, hence a burst for which it is ready is appended whole (`AppendedIsConcat`) |
| `HoldIsExact` | `HoldIssueIsExact` | `HoldOK`: what was revoked is what is no longer live, or queued, unless the queue overflowed |
| `ComposedHoldIsExact`, `CommitsAreUsed` | `ComposedIssueIsExact`, `CommitIsUsed` | `ComposedOK`: a proof without truth is queued, unless overflowed; witnesses are the truth |

`RtlIsContract` covers bursts that the ring is not ready for. The lemmas on `SlotAfter`
and `Places` do the modular arithmetic by cases, without division.

### `RetainedProofProofs`, `SourceAuthorityProofs`, `TargetAuthorityProofs`, `TlbFilterProofs`

- `AuthoritySound` (`AuthorityIsProven`), `LearnedStaysKnown` (`LearnedIsRetained`). The
  inductive invariant is `DirectoryIsTrue`: a valid entry is in its line's
  place, has the line's *current* epoch, and each bit of its mask is in `proven`.
  The step lemma splits on the outcomes of `NextEntry` (`EntryCases`): replaced,
  merged, cleared, kept. The adapter's suppression is what makes "replaced" safe,
  which is where the proof fails for the bare directory. Since every change of a
  line clears its entry at that edge, epoch wrap needs no bound.
- `IssueSound` (`IssueIsProven`). `IssueIsProven` says nothing while the hold is up.
  The invariant `UnprovenIsPending` is: an entry that vouches for a word
  that is not proven has the clear of its line in the queue or in the slice, and
  the queue has not overflowed (lemma `QueueStep`: what is pending stays so until the
  edge at which it clears the entry). A commit is either of a word that has
  just been learned and that nothing destroys at this edge, or of a line whose
  clear has just been queued (`CommitIsLearned`). The proof uses the tracker's comparison of
  *values* at retirement and the same-cycle kill, but neither its stale mark nor
  CEPF's comparison of epochs, so it holds for every epoch width: in this
  respect those two are a second line of defence. They would be the first
  if memory could change without a revocation, which is what finding 2 is about.
- `WitnessSound` (`WitnessIsCurrent`), from `StaleIsInSlice`: an out-of-date witness
  is out of date by a change that the slice holds.
- `SourceRevocationsAreHeld`, `TargetRevocationsAreHeld` (`SourceIsHeld`,
  `TargetIsHeld`). `QueueStep`, in `RevocationQueue`, says once, for every depth and
  kind of item, what an edge does to the contents: the delivered item leaves, an
  admitted one is queued, all others stay. It needs `Shape` for the reason the
  ring does. The first theorem holds for any masters; in the second what is
  dropped is covered by the event that is queued (`OfferedCovers`).

### `GatesProofs`: the run `gates`

- `ContainmentSound`, `FreshSound`, `IsolationSound` (`BoundaryContains`,
  `FreshIsCurrent`, `DomainsAreApart`). The inductive invariant `DirectoryIsTrue` is
  stronger than containment: a proof that is old has an epoch *smaller* than its
  domain's, unless the domain is blocked. "Different" would not do, since epochs
  are given out anew. `MixSeparatesDomains` looks at one bit in which the domains
  differ.
- `SramAnswerIsExact` (`AnswerIsExact`). `SramOK` relates the pipelined directory to
  the one that writes at once: during the sweep the latter is empty and the swept
  part of the memory is too (`Sweeping`); afterwards they agree everywhere but where
  an update is in flight, and there the update makes them agree
  (`WrittenThrough`); a read without hazard is current (`ReadIsCurrent`).
- `LineOfOneOwner` (`OneOwnerIsExact`). `LineOK`: a proof bit is set iff *some*
  domain has proven the word, and every such domain is among the line's owners.
  With one owner the two coincide; with two they do not, which is finding 5.
- `StreamWrittenIsDirty` (`WrittenIsDirty`). `StreamOK`: every word written since its
  commit is in the table, or the table has overflowed.
- `UnitCountCovers` (`CountCovers`), which is inductive together with its types.

### `SoftwareProofs`: the run `software`

- `IssueSound`, `EpochsAgree` (`IssueIsExact`, `EpochIsCurrent`), from
  `StaleIsQueued`: metadata that outlives its truth is named by an entry that
  waits, or the queues have overflowed. A witness in `demanded` needs no more for
  precision; what `demanded` excludes is exactly finding 4. It needs that an event that is already
  queued is not queued again *before* the head drains. `TwoSlots`: two slots
  never overflow at one event a step, for any lines and tokens; what overflow
  does is therefore seen only in part `tight`.
- `ClpdAuthorityIsCommitted`, `ClpdImplementsGate` (`AuthorityIsCommitted`,
  `ImplementsGate`), from `ClpdOK`: every entry speaks truly of the line it names.
- `AuthorityIssueIsSound`, `AuthorityUpdateIsCaught` (`IssueIsSound`,
  `OneUpdateIsCaught`). `AuthorityOK`: the epoch of a capture is the line's after no
  update and the other one after one (`BitsTell`); a proof that is there is sound,
  with no update since (`ProofIsFresh`); a witness that is there has not been
  remapped (`WitnessIsPresent`).
- `TrackerProofIsUntouched` (`ProofIsUntouched`), from `TrackerOK`: what was revoked is
  stale. `ReplayIsCaught` (`OneReplayIsCaught`), from `ReplayOK`: a generation that
  has moved once differs from the captured one, one that has not does not.
- `ExchangeIsComplete`, `ExchangeLeavesNothing` (`SuccessIsComplete`,
  `NothingIsLeft`), for any number of records. `ProcessOK`: where the parent stands says
  whether there is a child, what is open and what has been counted
  (`ChildOfParent`, `CountedOnce`); a child that ended well has served all records
  (`RecordsAgree`); no side can have read more messages than the other has sent
  (`OnTheWay`), which is why the child cannot be ahead of its parent. A parent whose
  `waitpid` has failed leaves a child that was past its report or had been killed, which
  `ChildOfParent` says of the two places from which a parent waits.
- `ImportKeepsEvidence` (`EvidenceIsMerged`), for any gates and files and any number of
  stops. `ImportOK` says of each canonical file that its whole rows are distinct, that
  each of its rows is `Known` (offered, or the remains of a row that was), and that
  it has all of them unless damaged. That `Distinct` keeps each row of a sequence
  once is an induction over the sequence (`DistinctRows`); `MergedFile` is what a
  merge makes of a file, `PartialFile` what a stop inside the merge does, and
  `RemainsOfRow` that cutting, or storing anew, what was left of a row leaves remains
  of the same row.
- `ServiceStaysValid`, `ServiceImplementsCache` (`ServiceIsValid`,
  `ImplementsCache`), for any number of sessions and any hash. `ServiceOK`: ids are
  distinct, each chain is a doubly linked list of the sessions whose id hashes to
  its bucket (`HashOf`), and the LRU list is one of all sessions (`ServiceOrder`).
  `TakenOut` and `PutInFront` say once what removing and pushing do to such a list,
  wherever in it the session is. That the walk of the code finds exactly the
  members of a list, in their order, and that the start-up loop enters every
  session, are inductions (`WalkIsList`, `EnteredAll`).

The library's induction theorems take an operator as a parameter and cannot be
used here. These proofs go by the least number instead: `LeastNumber` (from
`WFMin`) gives `EveryNumber`, and `RecursionOnInterval` shows that a function
defined by recursion over an interval exists, so that it is what its definition
says.

### Only model-checked

`EventuallyCleared` and `Returns`: liveness under fairness is out of the prover's
reach. The counterexamples of the runs that expect a violation are TLC's.

## Not modelled

`PROJECT.json` gives a reason for each component.

- Diagnostic outputs (`block_*`, `dbg_*`) and statistics are functions of what is
  modelled. Glitches and metastability are outside a cycle-accurate model.
- Wiring and conjunctions of answers without state: full authority gate, CAVI
  gate (ROCCA, CLPD and the filter are modelled), SCOOP arbiter, front door
  register slice, wrappers around third-party cores, end-to-end line top. The two
  halves of the full top are modelled apart, because they share only the final
  conjunction and the hold; each model has its own part of the hold, so that what
  is shown of it holds with the larger hold too.
- Early versions of modelled blocks: the value-bound prefetch gate, the
  single-stream gate, the next-line baseline. The ROPL guard passes the tracker
  through; what it adds is in `RoplContract`.
- The variants that the checkers call unsafe. The mutants play their part.
- The performance models and trace simulators (`copper_eval_model.py`,
  `copper_dmp_model.py`, ...): sequential, and their outcome is a count. One remark:
  a demand hit keeps the mark of the prefetch that brought its line
  (`copper_eval_model.py:70`), so every later hit counts as another useful
  prefetch, and `useful` may exceed `issued`, which `run_evaluation.py:63` divides.
- Most lines of Python in the repository: scripts that read result files once and write
  tables, figures, documents and check lists (`verify_copper_artifacts.py`,
  `build_copper_claim_evidence_matrix.py`, `scripts/build_conference_docs.py`,
  `scripts/run_*_eval.py`, ...). They keep no state between runs and have no concurrency; a
  model of them would repeat their text. The lines that the models map are
  therefore a small share of all lines, though they include most of those that
  define a state machine.
- Benchmark kernels, gem5 launch scripts, PicoRV32, MiBench.

## Where to extend

Both halves of the full top in one model, for what a prefetch that is issued has
been granted by both at one moment; the in-process exchange of the TLS workload;
`TargetIsHeld` from a weaker assumption on the masters than `SeparateSpec`: that
coinciding events name one token.
