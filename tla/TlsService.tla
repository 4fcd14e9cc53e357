----------------------------- MODULE TlsService -----------------------------
(***************************************************************************)
(* The session cache of the TLS workload, pointer by pointer: every        *)
(* session is in the chain of its hash bucket and in the LRU list, both    *)
(* doubly linked.  A request for a session that is not there reuses the    *)
(* least recent one.  The exchange of records that a request makes is      *)
(* external here: it succeeds, or the program exits.                       *)
(***************************************************************************)
EXTENDS Naturals, Sequences, FiniteSets

CONSTANTS
    Session,         \* the elements of the array
    Sid, Bucket,
    BucketOf,        \* bucket_index(sid)
    NULL

VARIABLES
    sid,       \* of each session
    hash,      \* first of each bucket, next and prev of each session
    lru,       \* head, tail, next and prev
    exited     \* exit(1) was called

vars == <<sid, hash, lru, exited>>

-----------------------------------------------------------------------------
(* Mutant: the tail stays when the last session is taken out.              *)
LruRemoveKeepingTail(l, s) ==
    [l EXCEPT
        !.head = IF l.prev[s] = NULL THEN l.next[s] ELSE @,
        !.next = [p \in Session |-> IF p = l.prev[s] THEN l.next[s]
                                    ELSE IF p = s THEN NULL ELSE @[p]],
        !.prev = [p \in Session |-> IF p = l.next[s] THEN l.prev[s]
                                    ELSE IF p = s THEN NULL ELSE @[p]]]

LruRemove(l, s) ==
    [l EXCEPT
        !.head = IF l.prev[s] = NULL THEN l.next[s] ELSE @,
        !.tail = IF l.next[s] = NULL THEN l.prev[s] ELSE @,
        !.next = [p \in Session |-> IF p = l.prev[s] THEN l.next[s]
                                    ELSE IF p = s THEN NULL ELSE @[p]],
        !.prev = [p \in Session |-> IF p = l.next[s] THEN l.prev[s]
                                    ELSE IF p = s THEN NULL ELSE @[p]]]

LruPushFront(l, s) ==
    [head |-> s,
     tail |-> IF l.head = NULL THEN s ELSE l.tail,
     next |-> [l.next EXCEPT ![s] = l.head],
     prev |-> [p \in Session |-> IF p = s THEN NULL
                                 ELSE IF p = l.head THEN s ELSE l.prev[p]]]

LruTouch(l, s) == IF l.head = s THEN l ELSE LruPushFront(LruRemove(l, s), s)

(* h is the hash, id the session ids that say which bucket s is in.        *)
HashRemove(h, id, s) ==
    [first |-> [h.first EXCEPT ![BucketOf[id[s]]] =
                    IF h.prev[s] = NULL THEN h.next[s] ELSE @],
     next |-> [p \in Session |-> IF p = h.prev[s] THEN h.next[s]
                                 ELSE IF p = s THEN NULL ELSE h.next[p]],
     prev |-> [p \in Session |-> IF p = h.next[s] THEN h.prev[s]
                                 ELSE IF p = s THEN NULL ELSE h.prev[p]]]

HashInsert(h, id, s) ==
    LET first == h.first[BucketOf[id[s]]] IN
    [first |-> [h.first EXCEPT ![BucketOf[id[s]]] = s],
     next |-> [h.next EXCEPT ![s] = first],
     prev |-> [p \in Session |-> IF p = s THEN NULL
                                 ELSE IF p = first THEN s ELSE h.prev[p]]]

(* The sessions met from first on; a walk that comes round stops.          *)
Walk(first, next) ==
    LET at[n \in 1 .. Cardinality(Session) + 1] ==
            IF n = 1 THEN first
            ELSE IF at[n - 1] = NULL THEN NULL ELSE next[at[n - 1]]
        met == {n \in DOMAIN at : at[n] # NULL}
    IN  [n \in 1 .. Cardinality(met) |-> at[n]]

Chain(b) == Walk(hash.first[b], hash.next)
LruOrder == Walk(lru.head, lru.next)

(* The session that service_find returns.                                  *)
ServiceFind(x) ==
    LET q == Chain(BucketOf[x])
        found == {i \in DOMAIN q : sid[q[i]] = x}
    IN  IF found = {} THEN NULL
        ELSE q[CHOOSE i \in found : \A j \in found : i <= j]

-----------------------------------------------------------------------------
(* The sessions are entered one after the other, order[1] first.           *)
Entered(order, id) ==
    LET after[n \in 0 .. Len(order)] ==
            IF n = 0
            THEN [h |-> [first |-> [b \in Bucket |-> NULL],
                         next |-> [s \in Session |-> NULL],
                         prev |-> [s \in Session |-> NULL]],
                  l |-> [head |-> NULL, tail |-> NULL,
                         next |-> [s \in Session |-> NULL],
                         prev |-> [s \in Session |-> NULL]]]
            ELSE [h |-> HashInsert(after[n - 1].h, id, order[n]),
                  l |-> LruPushFront(after[n - 1].l, order[n])]
    IN  after[Len(order)]

Order == {q \in [1 .. Cardinality(Session) -> Session] :
             {q[i] : i \in DOMAIN q} = Session}
Distinct == {id \in [Session -> Sid] :
                \A s, r \in Session : id[s] = id[r] => s = r}

Init ==
    /\ sid \in Distinct
    /\ \E order \in Order : /\ hash = Entered(order, sid).h
                            /\ lru = Entered(order, sid).l
    /\ exited = FALSE

(* The exchange comes before the touch: a failing one leaves the list.     *)
Hit(s, completed) ==
    /\ lru' = IF completed THEN LruTouch(lru, s) ELSE lru
    /\ UNCHANGED <<sid, hash>>

(* Mutant: the session gets its new id before it leaves its bucket.        *)
RehashedLate(victim, id) == HashInsert(HashRemove(hash, id, victim), id, victim)

Rehashed(victim, id) == HashInsert(HashRemove(hash, sid, victim), id, victim)

Miss(x) ==
    LET victim == lru.tail
        id == [sid EXCEPT ![victim] = x]
    IN  /\ victim # NULL
        /\ lru' = LruPushFront(LruRemove(lru, victim), victim)
        /\ hash' = Rehashed(victim, id)
        /\ sid' = id

ServiceRequest(x, completed) ==
    /\ ~exited
    /\ LET s == ServiceFind(x) IN
        \/ s # NULL /\ Hit(s, completed)
        \/ s = NULL /\ Miss(x)
    /\ exited' = ~completed

Next == \E x \in Sid, completed \in BOOLEAN : ServiceRequest(x, completed)

Spec == Init /\ [][Next]_vars

-----------------------------------------------------------------------------
(* What validate_service checks before the result is printed holds after   *)
(* every request: the list is that of all sessions, read either way.       *)
ServiceIsValid ==
    LET order == LruOrder IN
    /\ Len(order) = Cardinality(Session)
    /\ \A i \in DOMAIN order :
        lru.prev[order[i]] = IF i = 1 THEN NULL ELSE order[i - 1]
    /\ lru.tail = order[Len(order)]

(* The cache as LruCache has it: the ids in the order of the list.         *)
CachedIds == LET order == LruOrder IN [i \in DOMAIN order |-> sid[order[i]]]
=============================================================================
