------------------------------- MODULE CtlwDir ------------------------------
(***************************************************************************)
(* CTLW, the committed target-line witness directory of src/research/      *)
(* copper_ctlw_witness_dir.sv: a direct-mapped table of virtual-to-        *)
(* physical line translations that demand accesses have used.  A prefetch  *)
(* that leaves its page needs an exact witness.  An entry that is not      *)
(* valid is NoWitness.                                                     *)
(***************************************************************************)
CONSTANTS
    VLine, PLine, Token,
    WIndex,       \* the entries of the table
    WitIdx,       \* WitIdx[v] is the entry of virtual line v: its low bits
    NoWitness     \* an entry that is not valid, or no record in this cycle

VARIABLE witness

-----------------------------------------------------------------------------
Witness == [vline : VLine, pline : PLine, token : Token]

(* witness_valid and witness_pline of a query.                             *)
WitnessValid(vline, token) ==
    /\ witness[WitIdx[vline]] # NoWitness
    /\ witness[WitIdx[vline]].vline = vline
    /\ witness[WitIdx[vline]].token = token

WitnessPline(vline) == witness[WitIdx[vline]].pline

-----------------------------------------------------------------------------
Init == witness = [i \in WIndex |-> NoWitness]

(* Mutant: a remap of the line under any token but its own clears it.      *)
RemapHitsOther(i, remaps) ==
    \E r \in remaps : /\ WitIdx[r.vline] = i /\ witness[i] # NoWitness
                      /\ witness[i].vline = r.vline /\ witness[i].token # r.token

RemapHits(i, remaps) ==
    \E r \in remaps : /\ WitIdx[r.vline] = i /\ witness[i] # NoWitness
                      /\ witness[i].vline = r.vline /\ witness[i].token = r.token

TlbiHits(i, tokens) == witness[i] # NoWitness /\ witness[i].token \in tokens

(* A global TLBI clears everything, a record of its cycle included; else   *)
(* the record comes last and wins.                                         *)
NextWitness(i, record, remaps, tokens, all) ==
    CASE all -> NoWitness
      [] ~all /\ record # NoWitness /\ WitIdx[record.vline] = i -> record
      [] ~all /\ (record = NoWitness \/ WitIdx[record.vline] # i)
            /\ (RemapHits(i, remaps) \/ TlbiHits(i, tokens)) -> NoWitness
      [] OTHER -> witness[i]

(* One clock edge: remaps and tokens hold what the remap and token-TLBI    *)
(* ports carry, all is the global TLBI.                                    *)
Edge(record, remaps, tokens, all) ==
    witness' = [i \in WIndex |-> NextWitness(i, record, remaps, tokens, all)]
=============================================================================
