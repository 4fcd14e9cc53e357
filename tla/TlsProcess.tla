----------------------------- MODULE TlsProcess -----------------------------
(***************************************************************************)
(* One exchange of the TLS workload with a server in a process of its own: *)
(* the parent forks the child, connects to it over TCP, sends each record  *)
(* and waits for its echo, then reads the child's result from a pipe and   *)
(* reaps it.  Sockets are not blocking: a call that finds nothing is made  *)
(* again, a bounded number of times.  Any system or TLS call may fail, that*)
(* for the child's end included, and the child may be killed at any moment.*)
(*                                                                         *)
(* A record is its number.  A handshake is one message each way, the last  *)
(* one from the server, as its Finished is.                                *)
(***************************************************************************)
EXTENDS Naturals, Sequences

CONSTANTS RECORDS, POLLS      \* records of a session; bound of the retries

VARIABLES
    parent,     \* pc, fds, polls of the call it is in, records echoed;
                \* pc is "lost" when waitpid has failed
    child,      \* pc, fds, polls, records echoed; exit status
    c2s, s2c,   \* the two directions of the connection
    connected,  \* connect returned: in the backlog of the listener
    pipe,       \* the result on its way to the parent
    tcp_pairs, child_failures

net == <<c2s, s2c, connected>>
counters == <<tcp_pairs, child_failures>>
vars == <<parent, child, net, pipe, counters>>

Running == {"accept", "handshake", "read", "echo", "close", "report", "exit"}
Returned == {"failed", "completed", "lost"}

Init ==
    /\ parent = [pc |-> "listen", fds |-> {}, polls |-> 0, records |-> 0]
    /\ child = [pc |-> "none", fds |-> {}, polls |-> 0, records |-> 0,
                status |-> "none"]
    /\ c2s = << >> /\ s2c = << >> /\ connected = FALSE
    /\ pipe = << >>
    /\ tcp_pairs = 0 /\ child_failures = 0

ParentAt(pc) == parent.pc = pc
ChildAt(pc) == child.pc = pc
Goto(p, pc) == [p EXCEPT !.pc = pc, !.polls = 0]

(* A peer has gone when nobody holds its end of the connection.            *)
ServerGone == child.fds \cap {"listen", "server"} = {}
ClientGone == connected /\ "client" \notin parent.fds
NoWriter == "pipe_w" \notin parent.fds \cup child.fds

-----------------------------------------------------------------------------
(* The parent.  Before there is a child a failing call returns at once.    *)
Listen ==
    /\ ParentAt("listen")
    /\ \/ parent' = [Goto(parent, "pipe") EXCEPT !.fds = {"listen"}]
       \/ parent' = Goto(parent, "failed")
    /\ UNCHANGED <<child, net, pipe, counters>>

Pipe ==
    /\ ParentAt("pipe")
    /\ \/ parent' = [Goto(parent, "fork") EXCEPT !.fds = @ \cup {"pipe_r", "pipe_w"}]
       \/ parent' = [Goto(parent, "failed") EXCEPT !.fds = {}]
    /\ UNCHANGED <<child, net, pipe, counters>>

(* Mutant: the parent keeps its copy of the write end.                     *)
KeptEverything == parent.fds

(* What the parent keeps open after the fork.                              *)
KeptByParent == parent.fds \ {"pipe_w"}

Fork ==
    /\ ParentAt("fork")
    /\ \/ /\ parent' = [Goto(parent, "connect") EXCEPT !.fds = KeptByParent]
          /\ child' = [Goto(child, "accept") EXCEPT !.fds = parent.fds \ {"pipe_r"}]
       \/ /\ parent' = [Goto(parent, "failed") EXCEPT !.fds = {}]
          /\ UNCHANGED child
    /\ UNCHANGED <<net, pipe, counters>>

Connect ==
    /\ ParentAt("connect")
    /\ connected' = TRUE
    /\ parent' = [Goto(parent, "hello") EXCEPT !.fds = (@ \ {"listen"}) \cup {"client"}]
    /\ UNCHANGED <<child, c2s, s2c, pipe, counters>>

(* The first call of the handshake sends.                                  *)
Hello ==
    /\ ParentAt("hello")
    /\ c2s' = Append(c2s, 0)
    /\ parent' = Goto(parent, "handshake")
    /\ UNCHANGED <<child, s2c, connected, pipe, counters>>

WriteRecord ==
    /\ ParentAt("write")
    /\ c2s' = Append(c2s, parent.records + 1)
    /\ parent' = Goto(parent, "read")
    /\ UNCHANGED <<child, s2c, connected, pipe, counters>>

AfterRecord(n) == IF n = RECORDS THEN "result" ELSE "write"

ParentReceives ==
    /\ s2c # << >>
    /\ s2c' = Tail(s2c)
    /\ \/ ParentAt("handshake") /\ parent' = Goto(parent, "write")
       \/ /\ ParentAt("read")
          /\ parent' = [Goto(parent, AfterRecord(parent.records + 1))
                           EXCEPT !.records = @ + 1]
    /\ UNCHANGED <<child, c2s, connected, pipe, counters>>

(* WANT_READ: the call is made again until it times out.                   *)
ParentPolls ==
    /\ parent.pc \in {"handshake", "read"}
    /\ s2c = << >> /\ ~ServerGone
    /\ parent' = IF parent.polls < POLLS THEN [parent EXCEPT !.polls = @ + 1]
                                         ELSE Goto(parent, "kill")
    /\ UNCHANGED <<child, net, pipe, counters>>

(* A call fails: of itself, or because the server has gone.                *)
ParentCallFails ==
    /\ parent.pc \in {"connect", "hello", "handshake", "write", "read"}
    /\ parent' = Goto(parent, "kill")
    /\ UNCHANGED <<child, net, pipe, counters>>

(* read_full blocks until the result is there or nobody can write it.      *)
ReadResult ==
    /\ ParentAt("result")
    /\ \/ /\ pipe # << >>
          /\ parent' = [Goto(parent, "wait") EXCEPT !.fds = @ \ {"pipe_r"}]
       \/ /\ pipe = << >> /\ NoWriter
          /\ parent' = Goto(parent, "kill")
    /\ UNCHANGED <<child, net, pipe, counters>>

(* Mutant: the result is believed whatever became of the child.            *)
AcceptedByResult == pipe[1].ok /\ pipe[1].records = RECORDS

Accepted == /\ child.status = "0"
            /\ pipe[1].ok /\ pipe[1].records = RECORDS

(* waitpid blocks until the child has ended.  (WaitFails is when it fails.)*)
Wait ==
    /\ ParentAt("wait")
    /\ ChildAt("ended")
    /\ child' = [child EXCEPT !.pc = "reaped"]
    /\ \/ /\ Accepted
          /\ parent' = [Goto(parent, "completed") EXCEPT !.fds = {}]
          /\ tcp_pairs' = tcp_pairs + 1
          /\ UNCHANGED child_failures
       \/ /\ ~Accepted
          /\ parent' = [Goto(parent, "failed") EXCEPT !.fds = {}]
          /\ child_failures' = child_failures + 1
          /\ UNCHANGED tcp_pairs
    /\ UNCHANGED <<net, pipe>>

(* SIGTERM ends the child if it still runs.                                *)
Kill ==
    /\ ParentAt("kill")
    /\ parent' = Goto(parent, "reap")
    /\ child' = IF child.pc \in Running
                THEN [child EXCEPT !.pc = "ended", !.fds = {}, !.status = "signal"]
                ELSE child
    /\ child_failures' = child_failures + 1
    /\ UNCHANGED <<net, pipe, tcp_pairs>>

(* Mutant: the failing exchange does not wait for the child.               *)
NotReaped == UNCHANGED child

Reaped == ChildAt("ended") /\ child' = [child EXCEPT !.pc = "reaped"]

Reap ==
    /\ ParentAt("reap")
    /\ Reaped
    /\ parent' = [Goto(parent, "failed") EXCEPT !.fds = {}]
    /\ UNCHANGED <<net, pipe, counters>>

Parent == \/ Listen \/ Pipe \/ Fork \/ Connect \/ Hello \/ WriteRecord
          \/ ParentReceives \/ ParentPolls \/ ParentCallFails \/ ReadResult
          \/ Wait \/ Kill \/ Reap

-----------------------------------------------------------------------------
(* The child.  accept blocks until the parent has connected.               *)
Accept ==
    /\ ChildAt("accept") /\ connected
    /\ child' = [Goto(child, "handshake") EXCEPT !.fds = (@ \ {"listen"}) \cup {"server"}]
    /\ UNCHANGED <<parent, net, pipe, counters>>

AnswerHello ==
    /\ ChildAt("handshake") /\ c2s # << >>
    /\ c2s' = Tail(c2s) /\ s2c' = Append(s2c, 0)
    /\ child' = Goto(child, "read")
    /\ UNCHANGED <<parent, connected, pipe, counters>>

ReadRecord ==
    /\ ChildAt("read") /\ c2s # << >>
    /\ c2s' = Tail(c2s)
    /\ child' = Goto(child, "echo")
    /\ UNCHANGED <<parent, s2c, connected, pipe, counters>>

Echo ==
    /\ ChildAt("echo")
    /\ s2c' = Append(s2c, child.records + 1)
    /\ child' = [Goto(child, IF child.records + 1 = RECORDS THEN "close" ELSE "read")
                    EXCEPT !.records = @ + 1]
    /\ UNCHANGED <<parent, c2s, connected, pipe, counters>>

ChildPolls ==
    /\ child.pc \in {"handshake", "read"}
    /\ c2s = << >> /\ ~ClientGone
    /\ child' = IF child.polls < POLLS THEN [child EXCEPT !.polls = @ + 1]
                                       ELSE Goto(child, "close")
    /\ UNCHANGED <<parent, net, pipe, counters>>

ChildCallFails ==
    /\ child.pc \in {"accept", "handshake", "read", "echo"}
    /\ child' = [Goto(child, "close") EXCEPT !.fds = @ \ {"listen"}]
    /\ UNCHANGED <<parent, net, pipe, counters>>

CloseServer ==
    /\ ChildAt("close")
    /\ child' = [Goto(child, "report") EXCEPT !.fds = @ \ {"server"}]
    /\ UNCHANGED <<parent, net, pipe, counters>>

(* Whether the write succeeds is ignored.                                  *)
Report ==
    /\ ChildAt("report")
    /\ \/ pipe' = Append(pipe, [ok |-> child.records = RECORDS,
                                records |-> child.records])
       \/ UNCHANGED pipe
    /\ child' = [Goto(child, "exit") EXCEPT !.fds = {}]
    /\ UNCHANGED <<parent, net, counters>>

Exit ==
    /\ ChildAt("exit")
    /\ child' = [child EXCEPT !.pc = "ended",
                    !.status = IF child.records = RECORDS THEN "0" ELSE "1"]
    /\ UNCHANGED <<parent, net, pipe, counters>>

Child == \/ Accept \/ AnswerHello \/ ReadRecord \/ Echo \/ ChildPolls
         \/ ChildCallFails \/ CloseServer \/ Report \/ Exit

(* Somebody else kills the child.                                          *)
ChildDies ==
    /\ child.pc \in Running
    /\ child' = [child EXCEPT !.pc = "ended", !.fds = {}, !.status = "signal"]
    /\ UNCHANGED <<parent, net, pipe, counters>>

(* waitpid returns an error: it was interrupted, or the kernel has reaped  *)
(* the child by itself once it had ended.  The parent returns and counts   *)
(* nothing; after a kill it has counted already, and does not look at the  *)
(* error.                                                                  *)
WaitFails ==
    /\ parent.pc \in {"wait", "reap"}
    /\ UNCHANGED child \/ Reaped
    /\ parent' = [Goto(parent, "lost") EXCEPT !.fds = {}]
    /\ UNCHANGED <<net, pipe, counters>>

(* read_full meets an error in the pipe.                                   *)
ReadFails ==
    /\ ParentAt("result")
    /\ parent' = Goto(parent, "kill")
    /\ UNCHANGED <<child, net, pipe, counters>>

Misfortune == ChildDies \/ WaitFails \/ ReadFails

Next == Parent \/ Child \/ Misfortune

(* Both processes are scheduled; no misfortune need ever happen.           *)
Fairness == WF_vars(Parent) /\ WF_vars(Child)

Spec == Init /\ [][Next]_vars
-----------------------------------------------------------------------------
(* An exchange that reports success had every record echoed, and its child *)
(* ended of itself with status 0.                                          *)
SuccessIsComplete ==
    ParentAt("completed") =>
        /\ parent.records = RECORDS /\ child.records = RECORDS
        /\ child.status = "0"
        /\ c2s = << >> /\ s2c = << >>

(* What an exchange leaves: no descriptor of the parent, no child, not even*)
(* a zombie, and one count, as pair or as failure, of what was forked.  If *)
(* waitpid has failed the child may be there still, but it has nothing left*)
(* to do but exit, and the exchange does not count as a pair.              *)
NothingIsLeft ==
    parent.pc \in Returned =>
        /\ parent.fds = {}
        /\ ~ParentAt("lost") =>
              /\ child.pc \in {"none", "reaped"}
              /\ tcp_pairs + child_failures = IF ChildAt("none") THEN 0 ELSE 1
        /\ ParentAt("lost") =>
              /\ child.pc \in {"exit", "ended", "reaped"} /\ child.fds = {}
              /\ tcp_pairs = 0 /\ child_failures <= 1

(* The exchange returns, whatever fails and whenever the child dies.       *)
Returns == <>(parent.pc \in Returned)
=============================================================================
