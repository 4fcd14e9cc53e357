------------------------------ MODULE MCSoftware -----------------------------
(***************************************************************************)
(* The bounded contracts that the repository keeps in Python, and programs *)
(* of it, as nine systems in one run: part, chosen in the initial state,   *)
(* says which of them takes steps; the others stay in an initial state.    *)
(*   tlb, tight   TlbContract with queues of two slots and of one          *)
(*   clpd         ClpdContract                                             *)
(*   authority    AuthorityContract                                        *)
(*   tracker      OooContract                                              *)
(*   replay       RoplContract                                             *)
(*   service      TlsService, with fewer sessions than ids                 *)
(*   process      TlsProcess                                               *)
(*   import       CiImport, of one file, with two stops inside it          *)
(***************************************************************************)
EXTENDS TlbContract, FiniteSets

CONSTANTS Space, FirstSpace,           \* address spaces, the one at the start
          LineTag, EntryIdx, LineIdx,  \* of the CLPD contract: idx(line)
          Word, NoEntry, NoCommit,
          RECORDS, POLLS,              \* of the TLS exchange
          Session, Sid, Bucket, BucketOf, NULL,  \* of the session cache
          Gate, MergedGate, File, STOPS  \* of the CI import

ASSUME SpaceAssumption == FirstSpace \in Space
ASSUME DirectoryAssumption == LineIdx \in [LineTag -> EntryIdx]
ASSUME RecordsAssumption == RECORDS \in Nat \ {0}
ASSUME StopsAssumption == STOPS \in Nat
ASSUME SessionAssumption ==
    IsFiniteSet(Session) /\ Session # {} /\ NULL \notin Session
ASSUME BucketAssumption == BucketOf \in [Sid -> Bucket]

(* For TLC: every line in one entry, one id in a bucket of its own.        *)
SharedEntry == [l \in LineTag |-> CHOOSE i \in EntryIdx : TRUE]
OneApart == [x \in Sid |-> IF x = (CHOOSE y \in Sid : TRUE) THEN 1 ELSE 0]

Passed == [open |-> TRUE, status |-> "PASS", torn |-> "no"]
Failed == [open |-> TRUE, status |-> "FAIL", torn |-> "no"]
PassedLocally == [open |-> FALSE, status |-> "PASS", torn |-> "no"]
Files == {[current |-> TRUE, schema |-> TRUE, rows |-> <<Failed, Passed>>],
          [current |-> TRUE, schema |-> TRUE, rows |-> <<Failed, Failed>>],
          [current |-> TRUE, schema |-> TRUE, rows |-> <<PassedLocally>>],
          [current |-> TRUE, schema |-> FALSE, rows |-> <<Failed>>],
          [current |-> FALSE, schema |-> TRUE, rows |-> <<Passed>>]}

VARIABLES
    part,
    cl_token, line_epoch, truth_token, truth_mask, entry, committed,
    au_src, au_token, au_proof, inflight, target, witness, terminal_source,
    since_capture, since_proof, chased, remapped,
    src_executed, src_retired, dep_executed, dep_retired, oo_tag, oo_epoch,
    current_value, flushed_since_capture, oo_target, oo_perm, oo_proof, revoked,
    ro_src, ro_dep, ro_tag, generation, order_violation, ro_target, ro_perm,
    ro_proof, happened,
    sid, hash, lru, exited,
    parent, child, c2s, s2c, connected, pipe, tcp_pairs, child_failures,
    canonical, artifact, pending, importing, ledger, all_passed,
    unreadable, offered, damaged

Tight == INSTANCE TlbContract WITH QUEUE_DEPTH <- 1
Clpd == INSTANCE ClpdContract
    WITH Line <- LineTag, Index <- EntryIdx, DirIdx <- LineIdx,
         Token <- Space, FirstToken <- FirstSpace, current_token <- cl_token
Authority == INSTANCE AuthorityContract
    WITH Token <- Space, FirstToken <- FirstSpace, src <- au_src,
         current_token <- au_token, proof <- au_proof
Ooo == INSTANCE OooContract
    WITH tag <- oo_tag, current_epoch <- oo_epoch, target_ok <- oo_target,
         perm_ok <- oo_perm, proof_created <- oo_proof
Ropl == INSTANCE RoplContract
    WITH src <- ro_src, dep <- ro_dep, tag <- ro_tag, target_ok <- ro_target,
         perm_ok <- ro_perm, proof_created <- ro_proof
Service == INSTANCE TlsService
Process == INSTANCE TlsProcess
Import == INSTANCE CiImport WITH NoFile <- NULL

ASSUME FileAssumption ==
    /\ NULL \notin File
    /\ \A f \in File : f.rows \in Seq(Import!Row)
ASSUME NoEntryAssumption == NoEntry \notin Clpd!Clpd!Entry
ASSUME NoCommitAssumption == NoCommit \notin Clpd!Clpd!Fact

clpd == <<cl_token, line_epoch, truth_token, truth_mask, entry, committed>>
authority == <<au_src, au_token, au_proof, inflight, target, witness,
               terminal_source, since_capture, since_proof, chased, remapped>>
tracker == <<src_executed, src_retired, dep_executed, dep_retired, oo_tag,
             oo_epoch, current_value, flushed_since_capture,
             oo_target, oo_perm, oo_proof, revoked>>
replay == <<ro_src, ro_dep, ro_tag, generation, order_violation,
            ro_target, ro_perm, ro_proof, happened>>
contracts == <<vars, clpd, authority, tracker, replay>>
service == <<sid, hash, lru, exited>>
process == <<parent, child, c2s, s2c, connected, pipe, tcp_pairs, child_failures>>
import == <<canonical, artifact, pending, importing, ledger, all_passed,
            unreadable, offered, damaged>>
programs == <<service, process, import>>

(* Of the initial states of the session cache, the one in which it stays   *)
(* while another part takes steps.                                         *)
IdleSid == CHOOSE id \in Service!Distinct : TRUE
IdleService ==
    LET entered == Service!Entered(CHOOSE q \in Service!Order : TRUE, IdleSid)
    IN  <<IdleSid, entered.h, entered.l, FALSE>>

SoftwareInit ==
    /\ part \in {"tlb", "tight", "clpd", "authority", "tracker", "replay",
                 "service", "process", "import"}
    /\ Init /\ Clpd!Init /\ Authority!Init /\ Ooo!Init /\ Ropl!Init
    /\ Service!Init /\ Process!Init /\ Import!Init
    /\ part # "service" => service = IdleService

ContractStep ==
    \/ /\ part = "tlb" /\ Next
       /\ UNCHANGED <<clpd, authority, tracker, replay>>
    \/ /\ part = "tight" /\ Tight!Next
       /\ UNCHANGED <<clpd, authority, tracker, replay>>
    \/ /\ part = "clpd" /\ Clpd!Next
       /\ UNCHANGED <<vars, authority, tracker, replay>>
    \/ /\ part = "authority" /\ Authority!Next
       /\ UNCHANGED <<vars, clpd, tracker, replay>>
    \/ /\ part = "tracker" /\ Ooo!Next
       /\ UNCHANGED <<vars, clpd, authority, replay>>
    \/ /\ part = "replay" /\ Ropl!Next
       /\ UNCHANGED <<vars, clpd, authority, tracker>>

ServiceStep ==
    /\ part = "service" /\ Service!Next
    /\ UNCHANGED <<part, contracts, process, import>>
ParentStep ==
    /\ part = "process" /\ Process!Parent
    /\ UNCHANGED <<part, contracts, service, import>>
ChildStep ==
    /\ part = "process" /\ Process!Child
    /\ UNCHANGED <<part, contracts, service, import>>
Misfortune ==
    /\ part = "process" /\ Process!Misfortune
    /\ UNCHANGED <<part, contracts, service, import>>
ImportStep ==
    /\ part = "import" /\ Import!Next
    /\ UNCHANGED <<part, contracts, service, process>>

SoftwareNext ==
    \/ ContractStep /\ UNCHANGED <<part, programs>>
    \/ ServiceStep \/ ParentStep \/ ChildStep \/ Misfortune \/ ImportStep

all == <<part, contracts, programs>>

(* Both processes are scheduled: Process!Fairness in this system.          *)
Software == SoftwareInit /\ [][SoftwareNext]_all
                /\ WF_all(ParentStep) /\ WF_all(ChildStep)

-----------------------------------------------------------------------------
(* A directory entry authorizes only words committed under its token since *)
(* the last change of their line, in the epoch of the line.                *)
AuthorityIsCommitted == Clpd!AuthorityIsCommitted

(* Every step of the directory is one the CLPD gate of the RTL can take.   *)
ImplementsGate == Clpd!ImplementsGate

(* What issues is the value the line holds, with no update since its proof *)
(* was made and, off the page, no change of translation since its witness. *)
IssueIsSound == Authority!IssueIsSound

(* A pointer use that commits after a single update makes no proof.        *)
OneUpdateIsCaught == Authority!OneUpdateIsCaught

(* A proof is made only of a source that was not revoked since its capture.*)
ProofIsUntouched == Ooo!ProofIsUntouched

(* One replay, squash or reuse of the tag since its capture stops a proof. *)
OneReplayIsCaught == Ropl!OneIsCaught

(* The LRU list of the session cache is whole after every request.         *)
ServiceIsValid == Service!ServiceIsValid

(* The session cache is an LRU cache of ids, as far as requests can tell:  *)
(* what is found is what the list holds, what is lost is the least recent. *)
CachedIds == IF part = "service" THEN Service!CachedIds ELSE << >>
Cached == INSTANCE LruCache WITH cache <- CachedIds
ImplementsCache == Cached!Spec

(* An exchange that reports success had every record echoed.               *)
SuccessIsComplete == Process!SuccessIsComplete

(* No descriptor outlives an exchange, and no child unless waitpid fails;  *)
(* one that does has only to exit.                                         *)
NothingIsLeft == Process!NothingIsLeft

(* An exchange returns, whatever fails and whenever the child dies.        *)
Returns == part = "process" => Process!Returns

(* A canonical file has every whole row once, of the rows offered, and all *)
(* of them unless a stop was inside it.                                    *)
EvidenceIsMerged == Import!EvidenceIsMerged
=============================================================================
