---------------------------- MODULE ProcessPool ----------------------------
(***************************************************************************)
(* CGI-Learn/processpool.h: the parent watches the listening socket and    *)
(* tells one child after the other, through a pipe of its own, to accept a *)
(* connection; signals reach every process through a signal pipe.  All     *)
(* descriptors are edge-triggered.                                         *)
(*                                                                         *)
(* The processes share nothing but the kernel's queues, and each handles   *)
(* one event at a time: the handling of an event is one step.  The model   *)
(* begins when every process has set up its signal pipe.  SIGINT is        *)
(* handled like SIGTERM.  The template parameter is cgi_conn of            *)
(* pool_cgi.cpp: a client sends the name of a program and "\r\n", cut up    *)
(* into segments anywhere.                                                 *)
(***************************************************************************)
EXTENDS Integers, Sequences, FiniteSets

CONSTANTS m_process_number,  \* children of the pool
          Conns              \* clients, each of which connects once

ASSUME ProcessPoolAssumption ==
    /\ m_process_number \in Nat \ {0}
    /\ IsFiniteSet(Conns)
    /\ Conns \cap {"signal", "listen", "pipe"} = {}  \* other descriptors

VARIABLES arrived,     \* clients that have connected
          backlog,     \* connections of the listening socket, not accepted
          line,        \* line[c]: what the client has sent and nobody has
                       \* read: "none", a "part" of the line before its end,
                       \* one that ends in the "cr", what ends the "whole" line,
                       \* or only its "lf".  When all has been read and the
                       \* child waits: "kept" after a part, "keptCR" after the
                       \* cr, "stuck" after the lf
          edge,        \* an edge of the listening socket nobody has seen
          pipe,        \* pipe[i]: notifications in the pipe to child i
          pipeEdge,    \* pipeEdge[i]: an edge of it nobody has seen
          sigs,        \* sigs[p]: bytes in the signal pipe of process p
          events,      \* events[p]: what is left of the batch of p
          m_stop,      \* m_stop[p]: each process has a copy of the object
          pc,          \* pc[p]: "wait", "batch", "exited"; a child the parent
                       \* has waited for is "reaped"
          m_pid,       \* children the parent has not marked with -1
          sub_process_counter,
          users        \* users[i]: the connections child i has

netVars == <<arrived, backlog, line, edge>>
pipeVars == <<pipe, pipeEdge>>
poolVars == <<m_pid, sub_process_counter>>
vars == <<netVars, pipeVars, sigs, events, m_stop, pc, poolVars, users>>

Parent == -1
Children == 0..(m_process_number - 1)
Processes == Children \cup {Parent}
Lives(p) == pc[p] \in {"wait", "batch"}

Init ==
    /\ arrived = {} /\ backlog = <<>> /\ line = [c \in Conns |-> "none"] /\ edge = FALSE
    /\ pipe = [i \in Children |-> 0]
    /\ pipeEdge = [i \in Children |-> FALSE]
    /\ sigs = [p \in Processes |-> {}]
    /\ events = [p \in Processes |-> {}]
    /\ m_stop = [p \in Processes |-> FALSE]
    /\ pc = [p \in Processes |-> "wait"]
    /\ m_pid = Children /\ sub_process_counter = 0
    /\ users = [i \in Children |-> {}]
-----------------------------------------------------------------------------
(* The clients, and whoever sends signals.                                 *)

Connect(c) ==
    /\ c \notin arrived
    /\ arrived' = arrived \cup {c}
    /\ backlog' = Append(backlog, c)
    /\ edge' = TRUE
    /\ UNCHANGED <<line, pipeVars, sigs, events, m_stop, pc, poolVars, users>>

\* Bytes that arrive before accept are seen as if they came right after it.
Served(c) == \E i \in Children : c \in users[i]

Send(c) ==
    /\ Served(c)
    /\ line' \in {[line EXCEPT ![c] = l] :
                    l \in CASE line[c] \in {"none", "kept"} -> {"part", "cr", "whole"}
                            [] line[c] = "part" -> {"cr", "whole"}
                            [] line[c] = "cr" -> {"whole"}
                            [] line[c] = "keptCR" -> {"lf"}
                            [] OTHER -> {}}
    /\ UNCHANGED <<arrived, backlog, edge, pipeVars, sigs, events, m_stop, pc,
                   poolVars, users>>

\* sig_handler: a signal for process p becomes a byte in its signal pipe.
Signal(p, sig) == [sigs EXCEPT ![p] = IF Lives(p) THEN @ \cup {sig} ELSE @]

SigTerm(p) ==
    /\ Lives(p) /\ "SIGTERM" \notin sigs[p]
    /\ sigs' = Signal(p, "SIGTERM")
    /\ UNCHANGED <<netVars, pipeVars, events, m_stop, pc, poolVars, users>>
-----------------------------------------------------------------------------
(* Both loops.                                                             *)

\* Something of the client's is there to be read.
Unread(c) == line[c] \in {"part", "cr", "whole", "lf"}

\* epoll_wait.  What it reports is reported once.
Ready(p) ==
    (IF sigs[p] # {} THEN {"signal"} ELSE {}) \cup
    (IF p = Parent THEN IF edge THEN {"listen"} ELSE {}
                   ELSE (IF pipeEdge[p] THEN {"pipe"} ELSE {})
                        \cup {c \in users[p] : Unread(c)})

epoll_wait(p) ==
    /\ pc[p] = "wait" /\ Ready(p) # {}
    /\ events' = [events EXCEPT ![p] = Ready(p)]
    /\ pc' = [pc EXCEPT ![p] = "batch"]
    /\ edge' = (edge /\ p # Parent)
    /\ pipeEdge' = [i \in Children |-> pipeEdge[i] /\ i # p]
    /\ UNCHANGED <<arrived, backlog, line, pipe, sigs, m_stop, poolVars, users>>

\* The next event of the batch is e.
Handling(p, e) ==
    /\ pc[p] = "batch" /\ e \in events[p]
    /\ events' = [events EXCEPT ![p] = @ \ {e}]

\* The end of the batch: while (!m_stop).  A child closes its descriptors and
\* ends, and SIGCHLD tells the parent.
Exits(p) ==
    /\ pc' = [pc EXCEPT ![p] = "exited"]
    /\ sigs' = IF p = Parent THEN sigs ELSE Signal(Parent, "SIGCHLD")
    /\ pipe' = [i \in Children |-> IF i = p THEN 0 ELSE pipe[i]]
    /\ users' = [i \in Children |-> IF i = p THEN {} ELSE users[i]]
    /\ line' = [c \in Conns |-> IF p # Parent /\ c \in users[p] THEN "none"
                                                             ELSE line[c]]
    /\ UNCHANGED <<arrived, backlog, edge, pipeEdge, events, m_stop, poolVars>>

BatchEnds(p) ==
    /\ pc[p] = "batch" /\ events[p] = {}
    /\ IF m_stop[p] THEN Exits(p)
       ELSE /\ pc' = [pc EXCEPT ![p] = "wait"]
            /\ UNCHANGED <<netVars, pipeVars, sigs, events, m_stop, poolVars, users>>

\* A child dies at any other time: killed from outside, or by a failed assert.
Dies(i) == Lives(i) /\ Exits(i)
-----------------------------------------------------------------------------
(* run_parent.                                                             *)

\* The first child from sub_process_counter on that has not been marked.
NextChild == CHOOSE k \in Children :
                LET j(n) == (sub_process_counter + n) % m_process_number
                IN  \E n \in Children : /\ k = j(n) /\ k \in m_pid
                                        /\ \A m \in 0..(n - 1) : j(m) \notin m_pid

\* An edge of the listening socket: one notification to one child.  It is lost
\* if the child has ended and the parent does not know yet.
HandleListen ==
    /\ m_pid # {}
    /\ Handling(Parent, "listen")
    /\ sub_process_counter' = (NextChild + 1) % m_process_number
    /\ IF Lives(NextChild)
       THEN /\ pipe' = [pipe EXCEPT ![NextChild] = @ + 1]
            /\ pipeEdge' = [pipeEdge EXCEPT ![NextChild] = TRUE]
       ELSE UNCHANGED pipeVars
    /\ UNCHANGED <<netVars, sigs, m_stop, pc, m_pid, users>>

\* No child is left: m_stop, and the rest of the batch is dropped.
NoChildLeft ==
    /\ m_pid = {} /\ pc[Parent] = "batch" /\ "listen" \in events[Parent]
    /\ m_stop' = [m_stop EXCEPT ![Parent] = TRUE]
    /\ events' = [events EXCEPT ![Parent] = {}]
    /\ UNCHANGED <<netVars, pipeVars, sigs, pc, poolVars, users>>

Ended == {i \in Children : pc[i] = "exited"}

\* Mutant: the parent stops when any child has ended.
StopsAfterAny(pids) == pids # Children

\* m_stop is TRUE when no child is left.
StopsAfter(pids) == pids = {}

\* Mutant: waitpid is called once for one SIGCHLD.
ReapableOne == {S \in SUBSET Ended : S # {} /\ Cardinality(S) = 1}

\* while (waitpid(...) > 0): every child that has ended.
Reapable == {Ended}

\* The parent's signals: SIGCHLD reaps and marks children, SIGTERM is passed on
\* to all that are not marked.
ParentSignals ==
    /\ Handling(Parent, "signal")
    /\ IF "SIGCHLD" \in sigs[Parent]
       THEN \E dead \in Reapable :
               /\ m_pid' = m_pid \ dead
               /\ pc' = [p \in Processes |-> IF p \in dead THEN "reaped" ELSE pc[p]]
               /\ m_stop' = [m_stop EXCEPT ![Parent] = StopsAfter(m_pid')]
       ELSE UNCHANGED <<m_pid, pc, m_stop>>
    /\ sigs' = [p \in Processes |->
                   IF p = Parent THEN {}
                   ELSE IF "SIGTERM" \in sigs[Parent] /\ p \in m_pid /\ Lives(p)
                   THEN sigs[p] \cup {"SIGTERM"} ELSE sigs[p]]
    /\ UNCHANGED <<netVars, pipeVars, sub_process_counter, users>>
-----------------------------------------------------------------------------
(* run_child, in child i.                                                  *)

\* Mutant: the notification stays in the pipe.
recvPeeks(i) == pipe

\* recv of one notification.
recv(i) == [pipe EXCEPT ![i] = @ - 1]

\* The pipe: one notification is read and one connection accepted, unless there
\* is none or accept fails (EMFILE, ENFILE, ...).
HandlePipe(i) ==
    /\ Handling(i, "pipe")
    /\ pipe' = recv(i)
    /\ \/ /\ backlog # <<>>
          /\ users' = [users EXCEPT ![i] = @ \cup {Head(backlog)}]
          /\ backlog' = Tail(backlog)
       \/ UNCHANGED <<users, backlog>>
    /\ UNCHANGED <<arrived, line, edge, pipeEdge, sigs, m_stop, pc, poolVars>>

\* Signals: SIGTERM sets m_stop; SIGCHLD, of a CGI program, is waited for.
ChildSignals(i) ==
    /\ Handling(i, "signal")
    /\ m_stop' = [m_stop EXCEPT ![i] = @ \/ "SIGTERM" \in sigs[i]]
    /\ sigs' = [sigs EXCEPT ![i] = {}]
    /\ UNCHANGED <<netVars, pipeVars, pc, poolVars, users>>

\* Mutant: the loop waits for a byte behind "\r\n".
ForgetsCRLF(l) == {"none", "kept"}

\* cgi_conn::process starts with an empty buffer and reads all there is.  It
\* waits for more if it has not seen "\r\n", and then has forgotten what it read:
\* when the segments were cut between the two it sees neither of them as the end.
\* Otherwise what it has read now is the program's name, and the connection is
\* closed: the program has it, or there is none such, or fork failed.  It is
\* also closed if the client has closed it.
AfterProcess(l) ==
    CASE l = "part" -> {"none", "kept"}
      [] l = "cr"   -> {"none", "keptCR"}
      [] l = "lf"   -> {"none", "stuck"}
      [] OTHER      -> {"none"}

process(i, c) ==
    /\ Handling(i, c)
    /\ line' \in {[line EXCEPT ![c] = l] : l \in AfterProcess(line[c])}
    /\ users' = IF line'[c] = "none" THEN [users EXCEPT ![i] = @ \ {c}] ELSE users
    /\ UNCHANGED <<arrived, backlog, edge, pipeVars, sigs, m_stop, pc, poolVars>>
-----------------------------------------------------------------------------
run_parent ==
    epoll_wait(Parent) \/ HandleListen \/ NoChildLeft \/ ParentSignals
    \/ BatchEnds(Parent)

run_child(i) ==
    \/ epoll_wait(i) \/ HandlePipe(i) \/ ChildSignals(i) \/ BatchEnds(i)
    \/ \E c \in Conns : process(i, c)

Next ==
    \/ \E c \in Conns : Connect(c) \/ Send(c)
    \/ \E p \in Processes : SigTerm(p)
    \/ \E i \in Children : Dies(i) \/ run_child(i)
    \/ run_parent

Spec == Init /\ [][Next]_vars

\* The processes are scheduled.  Nothing is assumed of clients and signals.
FairSpec ==
    /\ Spec
    /\ WF_vars(run_parent)
    /\ \A i \in Children : WF_vars(run_child(i))
-----------------------------------------------------------------------------
(* Properties.                                                             *)

LineStates == {"none", "part", "cr", "whole", "lf", "kept", "keptCR", "stuck"}

TypeOK ==
    /\ arrived \subseteq Conns
    /\ line \in [Conns -> LineStates]
    /\ backlog \in Seq(Conns) /\ edge \in BOOLEAN
    /\ pipe \in [Children -> Nat] /\ pipeEdge \in [Children -> BOOLEAN]
    /\ sigs \in [Processes -> SUBSET {"SIGCHLD", "SIGTERM"}]
    /\ events \in [Processes -> SUBSET ({"signal", "listen", "pipe"} \cup Conns)]
    /\ m_stop \in [Processes -> BOOLEAN]
    /\ pc \in [Processes -> {"wait", "batch", "exited", "reaped"}]
    /\ m_pid \subseteq Children /\ sub_process_counter \in Children
    /\ users \in [Children -> SUBSET Conns]

\* The notifications in the pipes: the first, the second, ... of each child.
InPipes == UNION {{i} \X (1..pipe[i]) : i \in Children}

\* Notifications under way: edges the parent has not passed on, and what is in
\* the pipes.
Notifications ==
    (IF edge \/ "listen" \in events[Parent] THEN 1 ELSE 0) + Cardinality(InPipes)

\* Every notification stands for a connection in the backlog: a child that is
\* told to accept never finds the backlog empty, whichever child comes first.
NotificationsBacked == Notifications <= Len(backlog)

\* The parent ends last: no child is left running or waiting to be reaped.
ParentLast ==
    pc[Parent] = "exited" => \A i \in Children : pc[i] = "reaped"

\* SIGTERM to the parent ends the whole pool, also if children die meanwhile.
Terminates == "SIGTERM" \in sigs[Parent] ~> pc[Parent] = "exited"

\* Once "\r\n" has arrived in one segment, whatever came before it, the child
\* that has the connection closes it or gives it to the program: no client is
\* kept waiting for more input that will not come.
Answered == \A c \in Conns : Served(c) /\ line[c] = "whole" ~> ~Served(c)

\* The same for every client that has sent its line, however it was cut up: a
\* line break ends the name (readme.md), and "\r\n" starts the processing
\* (process in pool_cgi.cpp).  The code does not keep this: the loop looks for
\* both bytes in what one call of process has read.
AnsweredAlways ==
    \A c \in Conns : Served(c) /\ line[c] \in {"whole", "lf"} ~> ~Served(c)
=============================================================================
