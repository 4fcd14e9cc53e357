----------------------------- MODULE StreamTable ----------------------------
(***************************************************************************)
(* The stream table gate, src/research/copper_stream_table_gate.sv.  A load*)
(* stream is trained by commits and authorizes whole streams of seeds, in  *)
(* the domain that committed last; the words written since are kept in a   *)
(* dirty table, and a write it has no room for blocks every seed for good. *)
(*                                                                         *)
(* Both tables hold a key at most once and never move an entry, so they    *)
(* are a function and a set with a bound on their size.  Translation and   *)
(* permission are good.                                                    *)
(***************************************************************************)
EXTENDS FiniteSets, Naturals

CONSTANTS
    Stream, Line, Word, Domain,
    STREAM_ENTRIES, DIRTY_ENTRIES, TRAIN_THRESHOLD,
    None               \* a port that is idle, a stream without an entry

VARIABLES
    stream_tab, dirty_cam, dirty_overflow,
    written            \* history: the words written since their last commit

vars == <<stream_tab, dirty_cam, dirty_overflow, written>>

Source == [line : Line, word : Word, domain : Domain]
Commit == [stream : Stream, source : Source]
Known == {s \in Stream : stream_tab[s] # None}

SeedAllow(stream, source) ==
    /\ stream \in Known
    /\ stream_tab[stream].trained
    /\ stream_tab[stream].domain = source.domain
    /\ source \notin dirty_cam /\ ~dirty_overflow

-----------------------------------------------------------------------------
Init ==
    /\ stream_tab = [s \in Stream |-> None]
    /\ dirty_cam = {} /\ dirty_overflow = FALSE
    /\ written = {}

(* The entry of a stream after a commit; a full table learns no stream.    *)
Committed(s, commit) ==
    CASE commit = None \/ commit.stream # s -> stream_tab[s]
      [] commit # None /\ commit.stream = s /\ s \in Known ->
            [stream_tab[s] EXCEPT
                !.count = IF @ < TRAIN_THRESHOLD THEN @ + 1 ELSE @,
                !.domain = commit.source.domain]
      [] commit # None /\ commit.stream = s /\ s \notin Known ->
            IF Cardinality(Known) < STREAM_ENTRIES
            THEN [trained |-> FALSE, domain |-> commit.source.domain, count |-> 1]
            ELSE None

(* An epoch trains the streams that had reached the threshold before it.   *)
Trained(s, epoch_advance) ==
    /\ s \in Known
    /\ \/ stream_tab[s].trained
       \/ epoch_advance /\ stream_tab[s].count >= TRAIN_THRESHOLD

NextEntry(s, commit, epoch_advance) ==
    LET e == Committed(s, commit) IN
    IF e = None THEN None ELSE [e EXCEPT !.trained = Trained(s, epoch_advance)]

(* Mutant: a commit clears the marks of every word of its line.            *)
ClearedLine(commit) ==
    {d \in dirty_cam : commit # None /\ d.line = commit.source.line}

Cleared(commit) == {d \in dirty_cam : commit # None /\ d = commit.source}

(* No entry is free before the commit of this cycle has cleared one.       *)
Full == Cardinality(dirty_cam) >= DIRTY_ENTRIES

Overflows(dirty) == dirty # None /\ dirty \notin dirty_cam /\ Full

(* A write that finds its mark leaves it to the commit.                    *)
Marked(dirty) ==
    {d \in Source : /\ dirty # None /\ d = dirty
                    /\ dirty \notin dirty_cam /\ ~Full}

Edge(commit, dirty, epoch_advance) ==
    /\ stream_tab' = [s \in Stream |-> NextEntry(s, commit, epoch_advance)]
    /\ dirty_cam' = (dirty_cam \ Cleared(commit)) \cup Marked(dirty)
    /\ dirty_overflow' = (dirty_overflow \/ Overflows(dirty))
    /\ written' = (written \cup ({dirty} \ {None}))
                    \ {w \in Source : commit # None /\ w = commit.source}

Next == \E commit \in Commit \cup {None}, dirty \in Source \cup {None},
           epoch_advance \in BOOLEAN : Edge(commit, dirty, epoch_advance)

Spec == Init /\ [][Next]_vars

-----------------------------------------------------------------------------
(* A word written since its source was last committed seeds nothing, for   *)
(* whatever stream asks, also if the table of written words was full when  *)
(* it was written or a commit made room in that cycle.  A write and a      *)
(* commit of one word in one cycle are taken as the commit coming last: the*)
(* code lets the commit win if the word was already marked.                *)
WrittenIsDirty ==
    \A source \in written, stream \in Stream : ~SeedAllow(stream, source)
=============================================================================
