----------------------------- MODULE MCRevokers -----------------------------
(***************************************************************************)
(* Everything that queues source revocations, as seven systems in one run: *)
(* part, chosen in the initial state, says which of them takes steps; the  *)
(* others stay in their initial states.                                    *)
(*   ring, path       SariRing with any bursts, and behind its front door  *)
(*   shift, scoped    the two other revokers                               *)
(*   contract         the contract of the ring                             *)
(*   hold, composed   the CS-SARI contracts                                *)
(* Two lines and four slots: pointers wrap, bursts of three meet a queue   *)
(* that is not ready, and lines repeat in the queue.  The contracts have   *)
(* the sizes of their checkers, with one target line fewer.                *)
(***************************************************************************)
EXTENDS SariRing

CONSTANTS
    ZeroLine,
    PresentedKinds,
    CsLine, Target, Token,     \* of the CS-SARI contracts,
    BurstOfAll, CsDepth        \* their longest burst and their queue

ASSUME ZeroAssumption == ZeroLine \in SourceLine
ASSUME BurstAssumption == BurstOfAll \in Seq(CsLine)
ASSUME CsDepthAssumption == CsDepth \in Nat

(* For TLC: the three lines in some order.                                 *)
BurstOfThree ==
    CHOOSE b \in [1 .. 3 -> CsLine] : CsLine = {b[i] : i \in 1 .. 3}

VARIABLES
    part,
    dma, chi, io,
    sh_queue, sh_overflow, sh_owed,
    sc_queue, sc_count, sc_overflow, sc_owed, sc_revoked,
    shift_q, ring_q, shift_overflow, ring_overflow,
    ho_queue, ho_overflow, live_source, live_target,
    revoked_source, revoked_target,
    co_queue, co_overflow, truth_source, clpd_source, truth_target, ctlw_target

Path == INSTANCE RevocationPath
Shift == INSTANCE SariShift
    WITH queue <- sh_queue, overflow_sticky <- sh_overflow, owed <- sh_owed
Scoped == INSTANCE ScopedRevoker
    WITH queue <- sc_queue, count <- sc_count, overflow_sticky <- sc_overflow,
         owed <- sc_owed, revoked <- sc_revoked
Contract == INSTANCE SariRqContract
CsHold == INSTANCE CsSariHold
    WITH SourceLine <- CsLine, Burst <- BurstOfAll, DEPTH <- CsDepth,
         queue <- ho_queue, overflow <- ho_overflow
Cs == INSTANCE CsSari
    WITH SourceLine <- CsLine, Burst <- BurstOfAll, DEPTH <- CsDepth,
         queue <- co_queue, overflow <- co_overflow

ASSUME KindsAssumption == PresentedKinds \subseteq Path!Door!ChiKind

wires == <<dma, chi, io>>
shift == <<sh_queue, sh_overflow, sh_owed>>
scoped == <<sc_queue, sc_count, sc_overflow, sc_owed, sc_revoked>>
contract == <<shift_q, ring_q, shift_overflow, ring_overflow>>
hold == <<ho_queue, ho_overflow, live_source, live_target,
          revoked_source, revoked_target>>
composed == <<co_queue, co_overflow, truth_source, clpd_source,
              truth_target, ctlw_target>>

RevokersInit ==
    /\ part \in {"ring", "path", "shift", "scoped", "contract", "hold",
                 "composed"}
    /\ Path!Init /\ Shift!Init /\ Scoped!Init /\ Contract!Init
    /\ CsHold!Init /\ Cs!Init
    /\ part # "path" => wires = <<NoLine, Path!ChiIdle, NoLine>>

PathStep == /\ part = "path" /\ Path!Next
            /\ UNCHANGED <<part, shift, scoped, contract, hold, composed>>

RevokersNext ==
    \/ PathStep
    \/ /\ part = "ring" /\ Next
       /\ UNCHANGED <<part, wires, shift, scoped, contract, hold, composed>>
    \/ /\ part = "shift" /\ Shift!Next
       /\ UNCHANGED <<part, vars, wires, scoped, contract, hold, composed>>
    \/ /\ part = "scoped" /\ Scoped!Next
       /\ UNCHANGED <<part, vars, wires, shift, contract, hold, composed>>
    \/ /\ part = "contract" /\ Contract!Next
       /\ UNCHANGED <<part, vars, wires, shift, scoped, hold, composed>>
    \/ /\ part = "hold" /\ CsHold!Next
       /\ UNCHANGED <<part, vars, wires, shift, scoped, contract, composed>>
    \/ /\ part = "composed" /\ Cs!Next
       /\ UNCHANGED <<part, vars, wires, shift, scoped, contract, hold>>

all == <<part, vars, wires, shift, scoped, contract, hold, composed>>

(* The clock of the path does not stop.                                    *)
Revokers == RevokersInit /\ [][RevokersNext]_all /\ WF_all(PathStep)

-----------------------------------------------------------------------------
(* Behind the front door the ring never drops a burst.                     *)
NoOverflow == part = "path" => Path!NoOverflow

(* From the cycle in which a master presents a revocation to the cycle in  *)
(* which its line is cleared the prefetcher is held.                       *)
RevocationIsHeld == part = "path" => Path!RevocationIsHeld

(* Every presented revocation reaches the proof tables.                    *)
EventuallyCleared ==
    \A l \in SourceLine :
        part = "path" /\ l \in {dma, Path!chiLine, io} ~> Path!Ring!ClearLine = l

(* The revokers of the RTL are those of their contract: the lines between  *)
(* the pointers of the ring are its queue, and a burst that it is not ready*)
(* for violates ready.  The shift queue of the RTL takes as much of such a *)
(* burst as fits, that of the contract nothing; when ready they agree.     *)
RingContract == INSTANCE SariRqContract
    WITH shift_q <- Waiting, ring_q <- Waiting,
         shift_overflow <- overflow_sticky, ring_overflow <- overflow_sticky
ShiftContract == INSTANCE SariRqContract
    WITH shift_q <- sh_queue, ring_q <- sh_queue,
         shift_overflow <- sh_overflow, ring_overflow <- sh_overflow
RtlImplementsContract ==
    /\ RingContract!Init
    /\ [][part = "ring" => RingContract!Next]_(RingContract!vars)
    /\ [][Shift!SourceEventsReady => ShiftContract!Next]_shift

(* In the contract the ring and the shift queue agree.                     *)
QueuesAgree == Contract!QueuesAgree

(* A line that is owed a clear is held: by the scoped revoker exactly the  *)
(* candidates of that line, unless its queue has overflowed, and by the    *)
(* shift revoker all of them.                                              *)
OthersHoldOwed == Scoped!HoldIsExact /\ Shift!OwedIsHeld

(* The ring behind the front door and the scoped revoker are the FIFO of   *)
(* the first revoker.                                                      *)
OthersImplementShift ==
    /\ Path!Shift!Init /\ [][part = "path" => Path!Shift!Next]_(Path!Shift!vars)
    /\ Scoped!ImplementsShift

(* With authority that is only taken away, a candidate issues exactly when *)
(* no event has named its line or witness, unless the queue overflowed.    *)
HoldIssueIsExact == CsHold!IssueIsExact

(* With proofs and witnesses that return, what issues is true before and   *)
(* after the event of its cycle, and a true candidate that nothing names   *)
(* issues.                                                                 *)
ComposedIssueIsExact == Cs!IssueIsTrue /\ Cs!HoldIsScoped

(* A commit is not undone by the older revocation that drains with it.     *)
CommitIsUsed == Cs!CommitIsUsed
=============================================================================
