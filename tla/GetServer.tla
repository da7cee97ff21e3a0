----------------------------- MODULE GetServer -----------------------------
(***************************************************************************)
(* GET-WebServer: the epoll loop of src/main.cpp, the http_conn objects of *)
(* src/http_conn.cpp and the threads of inc/threadpool.h that run          *)
(* http_conn::process on them.  Unlike SimpleWebServer it has no timers: a *)
(* connection nobody looks after stays open for ever, and close_conn runs  *)
(* in main and in the worker threads.                                      *)
(*                                                                         *)
(* A connection is a member of Conns; users[fd] is known by its fd, which  *)
(* is reused.  The buffers hold the connection whose request or reply is   *)
(* in them; parsing has an arbitrary result (GetConn has the bytes).  A    *)
(* step of main is one event.  A step of a worker ends where main can      *)
(* notice: at each call that changes the epoll table or the object.        *)
(***************************************************************************)
EXTENDS Integers, Sequences, FiniteSets

CONSTANTS Fds, Conns, Workers,
          None,         \* no connection, and descriptor -1
          MAX_FD,       \* the limit main compares m_user_count with
          MAX_REQUESTS, \* m_max_requests of the pool
          MaxActs       \* bound: segments and hang-ups of all clients

ASSUME GetServerAssumption ==
    /\ None \notin Fds \cup Conns /\ IsFiniteSet(Fds)
    /\ MAX_FD \in Nat /\ MAX_REQUESTS \in Nat /\ MaxActs \in Nat

VARIABLES backlog, edge,  \* listenfd: connections, an edge not reported yet
          sock,           \* sock[fd]: the connection open at fd
          interest,       \* interest[fd]: "absent", "off", "IN", "OUT"
          unread,         \* connections with bytes to receive
          hup,            \* connections the client has closed
          acts,           \* segments and hang-ups so far
          gone,           \* connections the server has closed
          events,         \* events[fd]: of the batch main works on
          listenEv,       \* the batch has an event of listenfd
          m_sockfd, rbuf, wbuf,  \* users[fd]: m_read_buf, m_write_buf
          m_user_count,
          queue, worker,  \* the pool; worker[w].pc: the next call of process
          refused,        \* connections whose request append refused
          clash           \* main has opened or closed a connection, or a
                          \* worker has closed one, while another worker was
                          \* between close and the end of process

netVars == <<backlog, edge, unread, hup, acts>>
fdVars == <<sock, interest, gone>>
batchVars == <<events, listenEv>>
objVars == <<m_sockfd, rbuf, wbuf>>
vars == <<netVars, fdVars, batchVars, objVars, m_user_count, queue, worker,
          refused, clash>>

\* A thread's next call, its object, and the m_user_count it has loaded.
Idle == [pc |-> "idle", fd |-> None, count |-> 0]
InList(c) == \E i \in DOMAIN backlog : backlog[i] = c
Open(c) == \E fd \in Fds : sock[fd] = c

\* A worker has closed a descriptor and is not done with its object.
Closing == \E w \in Workers : worker[w].pc \in {"clear", "count", "modfd"}

Init ==
    /\ backlog = <<>> /\ edge = FALSE
    /\ unread = {} /\ hup = {} /\ acts = 0
    /\ sock = [fd \in Fds |-> None]
    /\ interest = [fd \in Fds |-> "absent"] /\ gone = {}
    /\ events = [fd \in Fds |-> "none"] /\ listenEv = FALSE
    /\ m_sockfd = [fd \in Fds |-> None]
    /\ rbuf = [fd \in Fds |-> None] /\ wbuf = [fd \in Fds |-> None]
    /\ m_user_count = 0
    /\ queue = <<>> /\ worker = [w \in Workers |-> Idle]
    /\ refused = {} /\ clash = FALSE
-----------------------------------------------------------------------------
(* The clients.                                                            *)

Connect(c) ==
    /\ ~InList(c) /\ ~Open(c) /\ c \notin gone
    /\ backlog' = Append(backlog, c) /\ edge' = TRUE
    /\ UNCHANGED <<unread, hup, acts, fdVars, batchVars, objVars,
                   m_user_count, queue, worker, refused, clash>>

Send(c) ==
    /\ InList(c) \/ Open(c)
    /\ c \notin hup
    /\ acts < MaxActs /\ acts' = acts + 1
    /\ unread' = unread \cup {c}
    /\ UNCHANGED <<backlog, edge, hup, fdVars, batchVars, objVars,
                   m_user_count, queue, worker, refused, clash>>

Hangup(c) ==
    /\ InList(c) \/ Open(c)
    /\ c \notin hup
    /\ acts < MaxActs /\ acts' = acts + 1
    /\ hup' = hup \cup {c}
    /\ UNCHANGED <<backlog, edge, unread, fdVars, batchVars, objVars,
                   m_user_count, queue, worker, refused, clash>>
-----------------------------------------------------------------------------
(* epoll, and the functions of http_conn.cpp.                              *)

\* Mutant: without EPOLLONESHOT.
OneshotOffNever(fd) == interest[fd]

\* EPOLLONESHOT: a reported descriptor is off until modfd.
OneshotOff(fd) == IF events'[fd] = "none" THEN interest[fd] ELSE "off"

\* epoll_wait: the events of all that is ready.  Whether a socket can be
\* written to is up to the client.
Ready(fd, writable) ==
    IF interest[fd] \in {"absent", "off"} THEN "none"
    ELSE IF sock[fd] \in hup THEN "hup"
    ELSE IF interest[fd] = "IN" THEN IF sock[fd] \in unread THEN "in" ELSE "none"
    ELSE IF fd \in writable THEN "out" ELSE "none"

BatchDone == ~listenEv /\ \A fd \in Fds : events[fd] = "none"

epoll_wait ==
    /\ BatchDone
    /\ \E writable \in SUBSET {fd \in Fds : interest[fd] = "OUT"} :
          events' = [fd \in Fds |-> Ready(fd, writable)]
    /\ listenEv' = edge /\ edge' = FALSE
    /\ listenEv' \/ \E fd \in Fds : events'[fd] # "none"
    /\ interest' = [fd \in Fds |-> OneshotOff(fd)]
    /\ UNCHANGED <<backlog, unread, hup, acts, sock, gone, objVars,
                   m_user_count, queue, worker, refused, clash>>

\* modfd: fails for descriptors that are not in the table, -1 among them.
modfd(fd, ev) ==
    interest' = [f \in Fds |-> IF f = fd /\ interest[f] # "absent"
                               THEN ev ELSE interest[f]]

\* The kernel's side of removefd: epoll_ctl(DEL) and close.
removefd(fd) ==
    /\ sock' = [sock EXCEPT ![fd] = None]
    /\ interest' = [interest EXCEPT ![fd] = "absent"]
    /\ gone' = gone \cup ({sock[fd]} \ {None})

\* close_conn as main calls it.
close_conn(fd) ==
    IF m_sockfd[fd] # None
    THEN /\ removefd(m_sockfd[fd])
         /\ m_sockfd' = [m_sockfd EXCEPT ![fd] = None]
         /\ m_user_count' = m_user_count - 1
         /\ clash' = (clash \/ Closing)
    ELSE UNCHANGED <<fdVars, m_sockfd, m_user_count, clash>>

\* Mutant: init() leaves the write buffer as it is.
initKeepsReply(fd) ==
    rbuf' = [rbuf EXCEPT ![fd] = None] /\ UNCHANGED wbuf

\* init(): both buffers are empty.
init(fd) ==
    rbuf' = [rbuf EXCEPT ![fd] = None] /\ wbuf' = [wbuf EXCEPT ![fd] = None]
-----------------------------------------------------------------------------
(* main: one action per branch of the loop over the batch.                 *)

\* The batch has an event ev of fd.
Handling(fd, ev) ==
    /\ events[fd] = ev
    /\ events' = [events EXCEPT ![fd] = "none"]
    /\ UNCHANGED <<listenEv, backlog, edge, hup, acts>>

\* One accept for one event of listenfd: it may fail, for want of descriptors
\* too.  m_user_count >= MAX_FD: show_error closes it.
HandleListen ==
    /\ listenEv /\ listenEv' = FALSE
    /\ \/ /\ backlog = <<>> \/ \A fd \in Fds : sock[fd] # None
          /\ UNCHANGED <<backlog, fdVars, objVars, m_user_count, clash>>
       \/ \E fd \in Fds :
             /\ backlog # <<>> /\ sock[fd] = None
             /\ backlog' = Tail(backlog)
             /\ IF m_user_count >= MAX_FD
                THEN /\ gone' = gone \cup {Head(backlog)}
                     /\ UNCHANGED <<sock, interest, objVars, m_user_count, clash>>
                ELSE /\ sock' = [sock EXCEPT ![fd] = Head(backlog)]
                     /\ interest' = [interest EXCEPT ![fd] = "IN"]
                     /\ m_sockfd' = [m_sockfd EXCEPT ![fd] = fd]
                     /\ m_user_count' = m_user_count + 1
                     /\ init(fd)
                     /\ clash' = (clash \/ Closing)
                     /\ UNCHANGED gone
    /\ UNCHANGED <<edge, unread, hup, acts, events, queue, worker, refused>>

HandleHup(fd) ==
    /\ Handling(fd, "hup")
    /\ close_conn(fd)
    /\ UNCHANGED <<unread, rbuf, wbuf, queue, worker, refused>>

\* append, which compares with >; main ignores its result.
append(fd) ==
    IF Len(queue) > MAX_REQUESTS
    THEN refused' = refused \cup {sock[fd]} /\ UNCHANGED queue
    ELSE queue' = Append(queue, fd) /\ UNCHANGED refused

\* EPOLLIN: read takes what has arrived, then append.
HandleRead(fd) ==
    /\ Handling(fd, "in")
    /\ m_sockfd[fd] # None /\ sock[fd] \notin hup
    /\ rbuf' = [rbuf EXCEPT ![fd] = sock[fd]]
    /\ unread' = unread \ {sock[fd]}
    /\ append(fd)
    /\ UNCHANGED <<fdVars, m_sockfd, wbuf, m_user_count, worker, clash>>

\* read fails: the end of the stream, a full buffer, an error, recv(-1).
HandleReadFails(fd) ==
    /\ Handling(fd, "in")
    /\ close_conn(fd)
    /\ UNCHANGED <<unread, rbuf, wbuf, queue, worker, refused>>

\* EPOLLOUT with nothing to write: m_write_idx is 0.
WriteNothing(fd) ==
    /\ Handling(fd, "out") /\ wbuf[fd] = None
    /\ modfd(m_sockfd[fd], "IN") /\ init(fd)
    /\ UNCHANGED <<unread, sock, gone, m_sockfd, m_user_count, queue, worker,
                   refused, clash>>

\* EAGAIN.
WriteBlocks(fd) ==
    /\ Handling(fd, "out") /\ wbuf[fd] # None
    /\ modfd(m_sockfd[fd], "OUT")
    /\ UNCHANGED <<unread, sock, gone, objVars, m_user_count, queue, worker,
                   refused, clash>>

\* The reply counts as sent and the connection is kept alive.
WriteDone(fd) ==
    /\ Handling(fd, "out") /\ wbuf[fd] # None
    /\ modfd(m_sockfd[fd], "IN") /\ init(fd)
    /\ UNCHANGED <<unread, sock, gone, m_sockfd, m_user_count, queue, worker,
                   refused, clash>>

\* It is not kept alive, or writev failed.
WriteCloses(fd) ==
    /\ Handling(fd, "out") /\ wbuf[fd] # None
    /\ close_conn(fd)
    /\ UNCHANGED <<unread, rbuf, wbuf, queue, worker, refused>>

main ==
    \/ epoll_wait \/ HandleListen
    \/ \E fd \in Fds :
          \/ HandleHup(fd) \/ HandleRead(fd) \/ HandleReadFails(fd)
          \/ WriteNothing(fd) \/ WriteBlocks(fd) \/ WriteDone(fd)
          \/ WriteCloses(fd)
-----------------------------------------------------------------------------
(* A worker thread: threadpool::run and http_conn::process.                *)

Goes(w, pc, to) ==
    /\ worker[w].pc = pc
    /\ worker' = [worker EXCEPT ![w] = IF to = "idle" THEN Idle
                                       ELSE [@ EXCEPT !.pc = to]]
    /\ UNCHANGED <<netVars, batchVars, refused>>

Take(w) ==
    /\ worker[w].pc = "idle" /\ queue # <<>>
    /\ worker' = [worker EXCEPT ![w] = [pc |-> "process", fd |-> Head(queue),
                                        count |-> 0]]
    /\ queue' = Tail(queue)
    /\ UNCHANGED <<netVars, fdVars, batchVars, objVars, m_user_count, refused,
                   clash>>

\* Mutant: process returns without modfd.
ReadMoreForgets(w) ==
    /\ Goes(w, "process", "idle")
    /\ UNCHANGED <<fdVars, objVars, m_user_count, queue, clash>>

\* process_read returned NO_REQUEST.
ReadMore(w) ==
    /\ Goes(w, "process", "idle")
    /\ modfd(m_sockfd[worker[w].fd], "IN")
    /\ UNCHANGED <<sock, gone, objVars, m_user_count, queue, clash>>

\* process_write has made the reply.
Reply(w) ==
    /\ Goes(w, "process", "armOut")
    /\ wbuf' = [wbuf EXCEPT ![worker[w].fd] = rbuf[worker[w].fd]]
    /\ UNCHANGED <<fdVars, m_sockfd, rbuf, m_user_count, queue, clash>>

\* process_write fails (an empty file, say): close_conn, which is removefd, ...
ReplyFails(w) ==
    /\ Goes(w, "process", IF m_sockfd[worker[w].fd] # None THEN "clear"
                                                           ELSE "modfd")
    /\ IF m_sockfd[worker[w].fd] # None
       THEN removefd(m_sockfd[worker[w].fd]) /\ clash' = (clash \/ Closing)
       ELSE UNCHANGED <<fdVars, clash>>
    /\ UNCHANGED <<objVars, m_user_count, queue>>

\* ... m_sockfd = -1 and the load of m_user_count ...
ClearSockfd(w) ==
    /\ worker[w].pc = "clear"
    /\ m_sockfd' = [m_sockfd EXCEPT ![worker[w].fd] = None]
    /\ worker' = [worker EXCEPT ![w] = [pc |-> "count", fd |-> @.fd,
                                        count |-> m_user_count]]
    /\ UNCHANGED <<netVars, batchVars, fdVars, rbuf, wbuf, m_user_count, queue,
                   refused, clash>>

\* ... and its store.  m_user_count is a plain int that main and the other
\* workers update too: when it has changed since the load, either update may
\* be lost, or none.
StoreCount(w) ==
    /\ worker[w].pc = "count"
    /\ m_user_count' \in {worker[w].count - 1, m_user_count - 1} \cup
                         ({m_user_count} \ {worker[w].count})
    /\ worker' = [worker EXCEPT ![w] = [pc |-> "modfd", fd |-> @.fd, count |-> 0]]
    /\ UNCHANGED <<netVars, batchVars, fdVars, objVars, queue, refused, clash>>

\* The modfd process ends with, after close_conn too.
ArmOut(w) ==
    /\ Goes(w, "armOut", "idle") \/ Goes(w, "modfd", "idle")
    /\ modfd(m_sockfd[worker[w].fd], "OUT")
    /\ UNCHANGED <<sock, gone, objVars, m_user_count, queue, clash>>

Work(w) ==
    \/ Take(w) \/ ReadMore(w) \/ Reply(w) \/ ReplyFails(w) \/ ClearSockfd(w)
    \/ StoreCount(w) \/ ArmOut(w)

Next ==
    \/ \E c \in Conns : Connect(c) \/ Send(c) \/ Hangup(c)
    \/ main
    \/ \E w \in Workers : Work(w)

Spec == Init /\ [][Next]_vars

\* The threads are scheduled.  Nothing is assumed of the clients.
FairSpec ==
    /\ Spec
    /\ WF_vars(main)
    /\ WF_vars(\E w \in Workers : Take(w))
    /\ \A w \in Workers : WF_vars(Work(w) /\ worker[w].pc # "idle")
-----------------------------------------------------------------------------
(* Properties.                                                             *)

TypeOK ==
    /\ backlog \in Seq(Conns) /\ edge \in BOOLEAN
    /\ unread \subseteq Conns /\ hup \subseteq Conns
    /\ acts \in 0..MaxActs
    /\ sock \in [Fds -> Conns \cup {None}]
    /\ interest \in [Fds -> {"absent", "off", "IN", "OUT"}]
    /\ gone \subseteq Conns
    /\ events \in [Fds -> {"none", "hup", "in", "out"}] /\ listenEv \in BOOLEAN
    /\ m_sockfd \in [Fds -> Fds \cup {None}]
    /\ rbuf \in [Fds -> Conns \cup {None}] /\ wbuf \in [Fds -> Conns \cup {None}]
    /\ m_user_count \in Int
    /\ queue \in Seq(Fds)
    /\ worker \in [Workers -> [pc : {"idle", "process", "armOut", "clear",
                                     "count", "modfd"},
                               fd : Fds \cup {None}, count : Int]]
    /\ refused \subseteq Conns \cup {None} /\ clash \in BOOLEAN

\* Who has the connection at fd: the pool, as often as it is queued or being
\* processed; main, if an event of it is left in the batch; epoll, if armed.
InPool(fd) == Cardinality({i \in DOMAIN queue : queue[i] = fd})
              + Cardinality({w \in Workers : worker[w].fd = fd})
InBatch(fd) == IF events[fd] # "none" THEN 1 ELSE 0
Armed(fd) == IF interest[fd] \in {"IN", "OUT"} THEN 1 ELSE 0

\* modfd: "one socket is handled by one thread at any time".  Until a descriptor
\* is opened or closed beside a worker's close_conn, every open connection is in
\* exactly one hand, never in two and never in none: there is no timer that would
\* find a forgotten one.  The one exception is a request append refused.
OneHolder ==
    clash \/ \A fd \in Fds : sock[fd] # None /\ sock[fd] \notin refused =>
                                InPool(fd) + InBatch(fd) + Armed(fd) = 1

\* Until then, sockets, objects and m_user_count agree: the object at a
\* descriptor has only what belongs to the connection there, no request and no
\* reply of an earlier one, and whenever no worker is inside close_conn the open
\* connections are counted exactly.
TablesAgree ==
    \/ clash
    \/ /\ \A fd \in Fds : sock[fd] # None =>
              /\ m_sockfd[fd] = fd
              /\ {rbuf[fd], wbuf[fd]} \subseteq {None, sock[fd]}
       /\ \/ \E w \in Workers : worker[w].pc \in {"clear", "count"}
          \/ m_user_count = Cardinality({fd \in Fds : sock[fd] # None})

\* What a client sends is read, or its connection is closed, or the client does
\* not take a reply; unless append refused an earlier request of it.
Waiting(c) == \E fd \in Fds : sock[fd] = c /\ interest[fd] = "OUT"
Served ==
    \A c \in Conns : c \in unread /\ Open(c) ~>
        c \notin unread \/ c \in gone \/ Waiting(c) \/ c \in refused \/ clash
=============================================================================
