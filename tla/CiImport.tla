------------------------------ MODULE CiImport ------------------------------
(***************************************************************************)
(* The import of CI artifacts into the evidence ledgers.  An import copies *)
(* an artifact, merges its evidence files into the canonical ones, one by  *)
(* one, and then writes what each gate has come to.  The program may be    *)
(* stopped between two files, or in the middle of one, which then is as far*)
(* on disk as its buffer has been written out: to nothing, to a part of its*)
(* header, to any of its rows or into one.  Imports repeat.                *)
(*                                                                         *)
(* A gate is the evidence file it reads.  Gates in MergedGate read the     *)
(* canonical file, the others that of the artifact at hand.                *)
(***************************************************************************)
EXTENDS Naturals, Sequences

CONSTANTS
    Gate, MergedGate,
    File,      \* what an artifact can hold for a gate: its rows, whether it
               \* is at the top level (current), and has the canonical
               \* header (schema); a row is open or not, has a status, and
               \* is not torn
    STOPS,     \* bound: how often the program is stopped inside a file
    NoFile

(* The rows of an artifact are whole.  Any other word is no known status.  *)
StatusWord == {"PASS", "FAIL", "BLOCKED", "other"}
Row == [open : BOOLEAN, status : StatusWord, torn : {"no"}]

VARIABLES
    canonical,     \* the rows of the canonical file of each gate
    artifact,      \* what is being imported: a file for each gate
    pending,       \* gates whose files are still to be merged
    importing,
    ledger,        \* status of each gate
    all_passed,    \* the failure ledger says that everything passed
    unreadable,    \* gates whose canonical file lacks all or some of its
                   \* header
    offered,       \* history: rows whose merge has begun, of each gate
    damaged        \* history: how often a stop was inside the file

vars == <<canonical, artifact, pending, importing, ledger, all_passed,
          unreadable, offered, damaged>>

Elements(q) == {q[i] : i \in DOMAIN q}

-----------------------------------------------------------------------------
Mergeable(file) == file # NoFile /\ file.current /\ file.schema

(* The first of equal rows.                                                *)
Distinct(rows) ==
    LET new[n \in 0 .. Len(rows)] ==
            IF n = 0 THEN << >>
            ELSE IF rows[n] \in Elements(new[n - 1]) THEN new[n - 1]
            ELSE Append(new[n - 1], rows[n])
    IN  new[Len(rows)]

(* A column that a row lacks is read as None, which no text equals, and    *)
(* written as an empty one.                                                *)
Stored(rows) ==
    [i \in DOMAIN rows |-> IF rows[i].torn = "fresh"
                           THEN [rows[i] EXCEPT !.torn = "stored"] ELSE rows[i]]

(* Mutant: what is in the canonical file is not looked at.                 *)
MergedRowsUnseen(old, rows) == Stored(old \o Distinct(rows))

MergedRows(old, rows) == Stored(Distinct(old \o rows))

(* What can be left of a row that is cut before its environment is         *)
(* complete, before its status is, behind it, and in the last column.      *)
Cuts(row) ==
    {[row EXCEPT !.open = FALSE, !.status = "other", !.torn = "fresh"],
     [row EXCEPT !.status = "other", !.torn = "fresh"],
     [row EXCEPT !.torn = "fresh"],
     [row EXCEPT !.torn = "stored"]}

(* What can be left of a file that is not written to its end.              *)
Partial(rows) ==
    {SubSeq(rows, 1, n) : n \in 0 .. Len(rows)}
        \cup UNION {{Append(SubSeq(rows, 1, n - 1), cut) : cut \in Cuts(rows[n])} :
                   n \in DOMAIN rows}

(* The rows that a gate reads.                                             *)
ImportedRows(g) == IF artifact[g] = NoFile THEN << >> ELSE artifact[g].rows
OpenRows(g) == {row \in Elements(canonical[g]) : row.open}
Has(rows, status) == \E row \in rows : row.status = status

StatusFromRows(rows) ==
    CASE Has(rows, "PASS") -> "PASS"
      [] ~Has(rows, "PASS") /\ Has(rows, "FAIL") -> "FAIL"
      [] ~Has(rows, "PASS") /\ ~Has(rows, "FAIL") /\ Has(rows, "BLOCKED") -> "BLOCKED"
      [] OTHER -> "MISSING"

ImportedAllPassStatus(rows) ==
    CASE rows = {} -> "MISSING"
      [] rows # {} /\ \A row \in rows : row.status = "PASS" -> "PASS"
      [] Has(rows, "FAIL") -> "FAIL"
      [] OTHER -> "PARTIAL"

ImportedStatus(g) == ImportedAllPassStatus(Elements(ImportedRows(g)))

Status(g) == IF g \in MergedGate THEN StatusFromRows(OpenRows(g))
                                 ELSE ImportedStatus(g)

-----------------------------------------------------------------------------
Init ==
    /\ canonical = [g \in Gate |-> << >>]
    /\ artifact = [g \in Gate |-> NoFile]
    /\ pending = {} /\ importing = FALSE
    /\ ledger = [g \in Gate |-> "MISSING"]
    /\ all_passed = FALSE
    /\ unreadable = {}
    /\ offered = [g \in Gate |-> {}]
    /\ damaged = [g \in Gate |-> 0]

ImportSource ==
    /\ ~importing
    /\ artifact' \in [Gate -> File \cup {NoFile}]
    /\ pending' = Gate /\ importing' = TRUE
    /\ UNCHANGED <<canonical, ledger, all_passed, unreadable, offered, damaged>>

(* Under a header that is empty no row is stored, and one that is not whole*)
(* is another schema.                                                      *)
Merges(g) == g \in pending /\ Mergeable(artifact[g]) /\ g \notin unreadable

MergeEvidence(g) ==
    /\ importing /\ g \in pending
    /\ pending' = pending \ {g}
    /\ IF Merges(g)
       THEN /\ canonical' = [canonical EXCEPT ![g] =
                                MergedRows(@, artifact[g].rows)]
            /\ offered' = [offered EXCEPT ![g] = @ \cup Elements(artifact[g].rows)]
       ELSE UNCHANGED <<canonical, offered>>
    /\ UNCHANGED <<artifact, importing, ledger, all_passed, unreadable, damaged>>

WriteLedgers ==
    /\ importing /\ pending = {}
    /\ ledger' = [g \in Gate |-> Status(g)]
    /\ all_passed' = (\A g \in Gate : Status(g) = "PASS")
    /\ importing' = FALSE
    /\ UNCHANGED <<canonical, artifact, pending, unreadable, offered, damaged>>

(* The program is stopped; the ledgers are those of an earlier import.     *)
Stopped ==
    /\ importing
    /\ importing' = FALSE /\ pending' = {}
    /\ UNCHANGED <<artifact, ledger, all_passed>>

StoppedBetweenFiles ==
    Stopped /\ UNCHANGED <<canonical, unreadable, offered, damaged>>

StoppedInFile(g) ==
    /\ Merges(g) /\ damaged[g] < STOPS
    /\ Stopped
    /\ offered' = [offered EXCEPT ![g] = @ \cup Elements(artifact[g].rows)]
    /\ damaged' = [damaged EXCEPT ![g] = @ + 1]
    /\ \/ /\ canonical' = [canonical EXCEPT ![g] = << >>]
          /\ unreadable' = unreadable \cup {g}
       \/ /\ \E rows \in Partial(MergedRows(canonical[g], artifact[g].rows)) :
                canonical' = [canonical EXCEPT ![g] = rows]
          /\ UNCHANGED unreadable

Next == \/ ImportSource \/ \E g \in Gate : MergeEvidence(g)
        \/ WriteLedgers
        \/ StoppedBetweenFiles \/ \E g \in Gate : StoppedInFile(g)

Spec == Init /\ [][Next]_vars

-----------------------------------------------------------------------------
(* What can be left of a row, by a stop inside it or by several; a status  *)
(* only with the environment before it.                                    *)
Remains(row) ==
    {left \in [open : {FALSE, row.open}, status : {"other", row.status},
               torn : {"fresh", "stored"}] :
        left.status # "other" => left.open = row.open}

(* A whole row is in its canonical file at most once, however imports      *)
(* repeat, and what is there comes from the files offered: a row of theirs,*)
(* or what a stop inside the file has left of one.  Without such a stop it *)
(* is all that was offered; and as long as the header can be read, the rows*)
(* of the file just merged are there, whatever a stop had lost before.     *)
EvidenceIsMerged ==
    \A g \in Gate :
        /\ \A i, j \in DOMAIN canonical[g] :
            canonical[g][i] = canonical[g][j] /\ canonical[g][i].torn = "no" => i = j
        /\ \A row \in Elements(canonical[g]) :
            \/ row \in offered[g]
            \/ damaged[g] > 0 /\ \E whole \in offered[g] : row \in Remains(whole)
        /\ damaged[g] = 0 => g \notin unreadable /\ offered[g] = Elements(canonical[g])
        /\ importing /\ g \notin pending \cup unreadable /\ Mergeable(artifact[g]) =>
              Elements(artifact[g].rows) \subseteq Elements(canonical[g])

(* What the failure ledger says when it says that all required imported    *)
(* checks passed: nothing just imported has failed.                        *)
AllPassedIsTrue ==
    [][WriteLedgers /\ all_passed' =>
         \A g \in Gate : \A row \in Elements(ImportedRows(g)) :
             row.status # "FAIL"]_vars
=============================================================================
