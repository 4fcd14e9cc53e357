------------------------------ MODULE ClpdSram ------------------------------
(***************************************************************************)
(* The directory of ClpdGate in SRAM, src/research/copper_clpd_sram_dir.sv:*)
(* a query is answered one cycle after it is read, an update is written    *)
(* one cycle after it was accepted and its entry read, and after a reset   *)
(* the entries, which may hold anything, are cleared one by one.           *)
(*                                                                         *)
(* The translation and the permission of a query are good.                 *)
(***************************************************************************)
EXTENDS Naturals

CONSTANTS
    Line, Word, Token, Epoch,
    TOTAL_ENTRIES, DirIdx,
    NoEntry, NoUpdate, NoQuery

VARIABLES
    entry_mem,
    init_addr,    \* the next entry to clear, TOTAL_ENTRIES: init_done
    upd,          \* the update that is being written, with the entry read
    response,     \* the query that is being answered, with the entry read
    directory     \* history: the entries after every update accepted

vars == <<entry_mem, init_addr, upd, response, directory>>

Index == 0 .. TOTAL_ENTRIES - 1
Fact == [line : Line, word : Word, token : Token, epoch : Epoch]
Entry == [tag : Line, token : Token, epoch : Epoch, mask : SUBSET Word]
Update == [op : {"commit", "purge"}, fact : Fact]

Idx(fact) == DirIdx[fact.line]

-----------------------------------------------------------------------------
(* What an update makes of an entry.                                       *)
Merges(e, fact) ==
    /\ e # NoEntry /\ e.tag = fact.line
    /\ e.token = fact.token /\ e.epoch = fact.epoch

Written(e, update) ==
    LET fact == update.fact IN
    CASE update.op = "commit" /\ Merges(e, fact) ->
            [e EXCEPT !.mask = @ \cup {fact.word}]
      [] update.op = "commit" /\ ~Merges(e, fact) ->
            [tag |-> fact.line, token |-> fact.token, epoch |-> fact.epoch,
             mask |-> {fact.word}]
      [] update.op = "purge" -> NoEntry

Authorizes(e, seed) ==
    /\ e # NoEntry /\ e.tag = seed.line /\ e.epoch = seed.epoch
    /\ seed.word \in e.mask
    /\ e.token = seed.token

(* dmp_seed_allow.                                                         *)
Allowed == /\ response # NoQuery
           /\ ~response.hazard
           /\ Authorizes(response.entry, response.seed)

-----------------------------------------------------------------------------
Init ==
    /\ entry_mem \in [Index -> Entry \cup {NoEntry}]
    /\ init_addr = 0
    /\ upd = NoUpdate /\ response = NoQuery
    /\ directory = [i \in Index |-> NoEntry]

InitDone == init_addr = TOTAL_ENTRIES

ClearOne ==
    /\ ~InitDone
    /\ entry_mem' = [entry_mem EXCEPT ![init_addr] = NoEntry]
    /\ init_addr' = init_addr + 1
    /\ UNCHANGED <<upd, response, directory>>

UpdateReady == upd = NoUpdate

(* Mutant: only an update that is accepted makes a query wait.             *)
HazardOfAccept(seed, update) ==
    update # NoUpdate /\ UpdateReady /\ Idx(update.fact) = Idx(seed)

(* The query meets an update that is accepted now or being written now.    *)
Hazard(seed, update) ==
    \/ update # NoUpdate /\ UpdateReady /\ Idx(update.fact) = Idx(seed)
    \/ upd # NoUpdate /\ Idx(upd.update.fact) = Idx(seed)

NextResponse(seed, update) ==
    IF seed = NoQuery THEN NoQuery
    ELSE [seed |-> seed, hazard |-> Hazard(seed, update),
          entry |-> entry_mem[Idx(seed)]]

WriteUpdate ==
    /\ upd # NoUpdate
    /\ entry_mem' = [entry_mem EXCEPT ![Idx(upd.update.fact)] =
                        Written(upd.entry, upd.update)]
    /\ upd' = NoUpdate
    /\ UNCHANGED directory

AcceptUpdate(update) ==
    /\ UpdateReady /\ update # NoUpdate
    /\ LET i == Idx(update.fact) IN
        /\ upd' = [update |-> update, entry |-> entry_mem[i]]
        /\ directory' = [directory EXCEPT ![i] = Written(@, update)]
    /\ UNCHANGED entry_mem

(* One clock edge, with at most one update and one query presented.        *)
Edge(seed, update) ==
    /\ InitDone
    /\ response' = NextResponse(seed, update)
    /\ \/ WriteUpdate
       \/ AcceptUpdate(update)
       \/ upd = NoUpdate /\ update = NoUpdate /\ UNCHANGED <<entry_mem, upd, directory>>
    /\ UNCHANGED init_addr

(* rst_n; the memory is not touched.                                       *)
Reset ==
    /\ init_addr' = 0
    /\ upd' = NoUpdate /\ response' = NoQuery
    /\ directory' = [i \in Index |-> NoEntry]
    /\ UNCHANGED entry_mem

Next == \/ ClearOne
        \/ \E seed \in Fact \cup {NoQuery}, update \in Update \cup {NoUpdate} :
                Edge(seed, update)
        \/ Reset

Spec == Init /\ [][Next]_vars

-----------------------------------------------------------------------------
(* An answer that is not blocked by a hazard is the one that a directory   *)
(* would give in which every accepted update is written at once, also the  *)
(* one accepted together with the query.                                   *)
AnswerIsExact ==
    response # NoQuery /\ ~response.hazard =>
        (Allowed <=> Authorizes(directory[Idx(response.seed)], response.seed))
=============================================================================
