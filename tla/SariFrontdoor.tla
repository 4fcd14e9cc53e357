---------------------------- MODULE SariFrontdoor ---------------------------
(***************************************************************************)
(* The combinational front door of SARI (src/research/                     *)
(* copper_amba_sari_frontdoor.sv): it decodes CHI and DVM requests into    *)
(* revocation events and lets source events through only while SARI has    *)
(* room for a whole burst.  It has no state; the modules that instantiate  *)
(* it supply the wires.                                                    *)
(***************************************************************************)
CONSTANT NoLine

ChiKind == {"ReadShared", "ReadUnique", "CleanInvalidate", "MakeInvalid",
            "WritebackDirty", "Dvm"}
(* The CHI requests after which the line's old contents are not to be      *)
(* trusted as proven pointers.                                             *)
ChiSourceWrite(kind) == kind \in {"ReadUnique", "WritebackDirty"}
ChiSourceInvalidate(kind) == kind \in {"CleanInvalidate", "MakeInvalid"}
ChiSourceEvent(kind) == ChiSourceWrite(kind) \/ ChiSourceInvalidate(kind)

(* The line of the CHI channel as the source path sees it.                 *)
DecodedChi(kind, line) == IF ChiSourceEvent(kind) THEN line ELSE NoLine

DecodedSourceEvent(dma, chi, io) ==
    dma # NoLine \/ chi # NoLine \/ io # NoLine

SourceBackpressure(ready, dma, chi, io) ==
    DecodedSourceEvent(dma, chi, io) /\ ~ready

(* Mutant: the masters are not told of the backpressure.                   *)
FrontdoorAlwaysReady(ready, dma, chi, io) == TRUE

FrontdoorReady(ready, dma, chi, io) == ~SourceBackpressure(ready, dma, chi, io)

(* Mutant: SARI sees the events whether or not it is ready.                *)
Ungated(ready, line) == line

(* The valid bits that SARI is given.                                      *)
Gated(ready, line) == IF ready THEN line ELSE NoLine
=============================================================================
