----------------------------- MODULE MCCiImport -----------------------------
(***************************************************************************)
(* CiImport with a gate that reads the canonical file (rtl) and one that   *)
(* reads the artifact (test).                                              *)
(***************************************************************************)
EXTENDS CiImport

Passed == [open |-> TRUE, status |-> "PASS", torn |-> "no"]
Failed == [open |-> TRUE, status |-> "FAIL", torn |-> "no"]
PassedLocally == [open |-> FALSE, status |-> "PASS", torn |-> "no"]
Files == [current : BOOLEAN, schema : {TRUE},
          rows : {<<Passed>>, <<Failed>>, <<Failed, PassedLocally>>}]
           \cup {[current |-> TRUE, schema |-> FALSE, rows |-> <<Failed>>],
                 [current |-> TRUE, schema |-> TRUE, rows |-> << >>]}
=============================================================================
