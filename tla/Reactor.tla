------------------------------ MODULE Reactor ------------------------------
(***************************************************************************)
(* The life of client connections in SimpleWebServer: the epoll loop of    *)
(* src/main.cpp, the timers of inc/heap_timer.h, the http_conn objects of  *)
(* src/http/http_conn.cpp and the worker threads that run                  *)
(* http_conn::process on them.                                             *)
(*                                                                         *)
(* Everything in this server is indexed by file descriptor: users[fd] is   *)
(* the http_conn object, users_timer[fd] its client_data.  A descriptor is *)
(* reused as soon as it is closed, so the model keeps the descriptor and   *)
(* the connection (a member of Conns, which connects once) apart.  The     *)
(* timer that accept creates for connection c is also named c.             *)
(*                                                                         *)
(* Bytes, file contents and wall-clock time are abstracted: the buffers    *)
(* hold the connection whose request or reply is in them, parsing and      *)
(* routing have an arbitrary result, and util_timer::expire is kept as the *)
(* number of TIMESLOTs left (ttl).                                         *)
(***************************************************************************)
EXTENDS Integers, Sequences, FiniteSets

CONSTANTS Fds,          \* descriptors that accept can return
          Conns,        \* client connections
          Workers,      \* threads of the pool
          None,         \* no connection, no timer, descriptor -1
          MAX_FD,       \* the limit main compares m_user_count with
          MAX_REQUESTS, \* m_max_requests of the thread pool
          LIFE,         \* timeout of an idle connection, 3 TIMESLOTs
          MaxSends      \* bound: segments a client sends

ASSUME ReactorAssumption ==
    /\ IsFiniteSet(Fds) /\ IsFiniteSet(Workers)
    /\ None \notin Fds \cup Conns
    /\ MAX_FD \in Nat /\ MAX_REQUESTS \in Nat /\ MaxSends \in Nat
    /\ LIFE \in Nat \ {0}

VARIABLES
    \* the kernel's view
    backlog,      \* connections the listening socket has queued
    edge,         \* an edge of listenfd epoll_wait has not reported yet
    sock,         \* sock[fd]: the connection open at fd, or None
    interest,     \* interest[fd]: epoll registration of fd
    \* the clients
    arrived,      \* clients that have connected
    unread,       \* clients with bytes in their socket's receive queue
    sends,        \* segments each client has sent
    hup,          \* clients that have closed their end
    \* signals
    alarm,        \* alarm(TIMESLOT) is pending
    sigpipe,      \* signals sig_handler wrote to the pipe
    \* the main thread
    mpc,          \* where the main loop is
    events,       \* events[fd]: event of the current batch, or "none"
    listenEv,     \* the batch holds an event of listenfd
    pipeEv,       \* the batch holds an event of the pipe
    timeout,      \* main's flag of the same name
    stop_server,  \* main's flag of the same name
    \* timers
    heap,         \* timers in HeapTimer::m_pq
    freed,        \* timers tick has deleted
    ttl,          \* expire, as TIMESLOTs left
    user_data,    \* the descriptor the timer's callback closes
    timer,        \* users_timer[fd].timer
    \* http_conn
    m_sockfd,     \* users[fd].m_sockfd, None for -1
    rbuf,         \* whose bytes are in m_read_buf
    wbuf,         \* whose reply is being sent (bytes_to_send > 0)
    m_user_count, \* http_conn::m_user_count
    \* the thread pool
    queue,        \* m_workqueue
    worker,       \* what each worker thread is doing
    \* history: no action reads it, the properties name it
    skipped,      \* the accept loop after the last edge left connections over
    orphans,      \* timers whose connection was closed and not they with it
    reused,       \* descriptors accepted again while in somebody's hand
    miscounted    \* an update of m_user_count was lost or made twice

kernelVars == <<backlog, edge, skipped, sock, interest>>
clientVars == <<arrived, unread, sends, hup>>
signalVars == <<alarm, sigpipe>>
batchVars  == <<events, listenEv, pipeEv>>
loopVars   == <<mpc, batchVars, timeout, stop_server>>
timerVars  == <<heap, freed, ttl, user_data, timer, orphans>>
objVars    == <<m_sockfd, rbuf, wbuf, reused>>
countVars  == <<m_user_count, miscounted>>
poolVars   == <<queue, worker>>
vars == <<kernelVars, clientVars, signalVars, loopVars, timerVars, objVars,
          countVars, poolVars>>

Idle == [pc |-> "idle", fd |-> None, req |-> None, ev |-> "IN", count |-> 0]
Serve(fd) == [pc |-> "read", fd |-> fd, req |-> None, ev |-> "IN", count |-> 0]

Init ==
    /\ backlog = <<>> /\ edge = FALSE
    /\ sock = [fd \in Fds |-> None]
    /\ interest = [fd \in Fds |-> "absent"]
    /\ arrived = {} /\ unread = {} /\ hup = {}
    /\ sends = [c \in Conns |-> 0]
    /\ alarm = TRUE /\ sigpipe = {}
    /\ mpc = "wait"
    /\ events = [fd \in Fds |-> "none"]
    /\ listenEv = FALSE /\ pipeEv = FALSE
    /\ timeout = FALSE /\ stop_server = FALSE
    /\ heap = {} /\ freed = {}
    /\ ttl = [c \in Conns |-> 0]
    /\ user_data = [c \in Conns |-> None]
    /\ timer = [fd \in Fds |-> None]
    /\ m_sockfd = [fd \in Fds |-> None]
    /\ rbuf = [fd \in Fds |-> None]
    /\ wbuf = [fd \in Fds |-> None]
    /\ m_user_count = 0
    /\ queue = <<>>
    /\ worker = [w \in Workers |-> Idle]
    /\ skipped = FALSE /\ orphans = {} /\ reused = {} /\ miscounted = FALSE

Open(c) == \E fd \in Fds : sock[fd] = c
Running == mpc # "done"
-----------------------------------------------------------------------------
(* The clients: connect, send a segment, close.  They are not the server's *)
(* code; src/main.cpp meets them through accept, recv and EPOLLRDHUP.       *)

Connect(c) ==
    /\ c \notin arrived /\ Running
    /\ arrived' = arrived \cup {c}
    /\ backlog' = Append(backlog, c)
    /\ edge' = TRUE
    /\ UNCHANGED <<skipped, sock, interest, unread, sends, hup, signalVars,
                   loopVars, timerVars, objVars, countVars, poolVars>>

Send(c) ==
    /\ Open(c) \/ \E i \in DOMAIN backlog : backlog[i] = c
    /\ c \notin hup /\ sends[c] < MaxSends
    /\ unread' = unread \cup {c}
    /\ sends' = [sends EXCEPT ![c] = @ + 1]
    /\ UNCHANGED <<kernelVars, arrived, hup, signalVars, loopVars, timerVars,
                   objVars, countVars, poolVars>>

Hangup(c) ==
    /\ Open(c) \/ \E i \in DOMAIN backlog : backlog[i] = c
    /\ c \notin hup
    /\ hup' = hup \cup {c}
    /\ UNCHANGED <<kernelVars, arrived, unread, sends, signalVars, loopVars,
                   timerVars, objVars, countVars, poolVars>>
-----------------------------------------------------------------------------
(* Time and signals.                                                       *)

\* One TIMESLOT passes.  tick samples time(NULL) once, so no time passes
\* inside it.
Elapse ==
    /\ Running /\ mpc # "tick"
    /\ \E c \in Conns : ttl[c] > 0
    /\ ttl' = [c \in Conns |-> IF ttl[c] > 0 THEN ttl[c] - 1 ELSE 0]
    /\ UNCHANGED <<kernelVars, clientVars, signalVars, loopVars, heap, freed,
                   user_data, timer, orphans, objVars, countVars, poolVars>>

\* sig_handler writes the signal number to the pipe.
SigAlarm ==
    /\ Running /\ alarm
    /\ alarm' = FALSE
    /\ sigpipe' = sigpipe \cup {"SIGALRM"}
    /\ UNCHANGED <<kernelVars, clientVars, loopVars, timerVars, objVars,
                   countVars, poolVars>>

SigTerm ==
    /\ Running /\ ~stop_server /\ "SIGTERM" \notin sigpipe
    /\ sigpipe' = sigpipe \cup {"SIGTERM"}
    /\ UNCHANGED <<kernelVars, clientVars, alarm, loopVars, timerVars,
                   objVars, countVars, poolVars>>
-----------------------------------------------------------------------------
(* Helpers shared by the handlers of the main loop.                        *)

\* modfd: re-arms the one-shot registration; epoll_ctl fails, and changes
\* nothing, when m_sockfd is -1 or the descriptor is not registered.
modfd(fd, ev) ==
    interest' = IF m_sockfd[fd] # None /\ interest[fd] # "absent"
                THEN [interest EXCEPT ![fd] = ev]
                ELSE interest

\* epoll_ctl(DEL) and close: whatever is open at fd is closed, and the kernel
\* forgets what it had received.
removefd(fd) ==
    /\ interest' = [interest EXCEPT ![fd] = "absent"]
    /\ sock' = [sock EXCEPT ![fd] = None]
    /\ unread' = unread \ {sock[fd]} /\ hup' = hup \ {sock[fd]}

\* Mutant: the callback forgets m_user_count--.
cb_funcKeepsCount(fd) ==
    /\ removefd(fd)
    /\ UNCHANGED countVars

\* cb_func: the timer callback closes the descriptor of its client_data.  It
\* leaves users[fd].m_sockfd as it is.  A worker may have closed it before.
cb_func(fd) ==
    /\ removefd(fd)
    /\ m_user_count' = m_user_count - 1
    /\ miscounted' = (miscounted \/ sock[fd] = None)

\* Mutant: users_timer[fd].timer is not set.
new_timerUnlinked(fd, c) ==
    /\ ttl' = [ttl EXCEPT ![c] = LIFE]
    /\ user_data' = [user_data EXCEPT ![c] = fd]
    /\ heap' = heap \cup {c}
    /\ UNCHANGED <<timer, freed, orphans>>

\* The timer main makes for a new connection; add_timer puts it in the heap.
new_timer(fd, c) ==
    /\ ttl' = [ttl EXCEPT ![c] = LIFE]
    /\ user_data' = [user_data EXCEPT ![c] = fd]
    /\ timer' = [timer EXCEPT ![fd] = c]
    /\ heap' = heap \cup {c}
    /\ UNCHANGED <<freed, orphans>>

\* del_timer takes the timer out of the heap and does not delete it.  Nobody
\* reads its expire any more.
del_timer(t) ==
    /\ heap' = heap \ {t}
    /\ ttl' = [ttl EXCEPT ![t] = 0]
    /\ UNCHANGED <<freed, user_data, timer, orphans>>

\* Mutant: adjust_timer takes the timer out and does not add it again.
adjust_timerDeletes(t) ==
    /\ ttl' = [ttl EXCEPT ![t] = LIFE]
    /\ heap' = heap \ {t}
    /\ UNCHANGED <<freed, user_data, timer, orphans>>

\* timer->expire = cur + 3 * TIMESLOT; adjust_timer = del_timer; add_timer.
adjust_timer(t) ==
    /\ ttl' = [ttl EXCEPT ![t] = LIFE]
    /\ heap' = heap \cup {t}
    /\ UNCHANGED <<freed, user_data, timer, orphans>>

\* threadpool::append drops the request when the queue holds more than
\* MAX_REQUESTS; main ignores the result.
append(fd) ==
    queue' = IF Len(queue) > MAX_REQUESTS THEN queue ELSE Append(queue, fd)

\* Mutant: init does not clear bytes_to_send.
initKeepsReply(fd) ==
    /\ rbuf' = [rbuf EXCEPT ![fd] = None]
    /\ UNCHANGED wbuf

\* http_conn::init() empties the buffers.
init(fd) ==
    /\ rbuf' = [rbuf EXCEPT ![fd] = None]
    /\ wbuf' = [wbuf EXCEPT ![fd] = None]

\* The event of fd is taken from the batch.
Handling(fd, ev) ==
    /\ mpc = "batch" /\ events[fd] = ev
    /\ events' = [events EXCEPT ![fd] = "none"]
    /\ UNCHANGED <<listenEv, pipeEv, mpc, timeout, stop_server>>

\* Mutant: the connection is closed and its timer stays in the heap.
CloseKeepsTimer(fd) ==
    /\ cb_func(fd)
    /\ UNCHANGED timerVars

\* timer->cb_func(&users_timer[sockfd]); timer_lst.del_timer(timer).
CloseByMain(fd) ==
    /\ cb_func(fd)
    /\ del_timer(timer[fd])
-----------------------------------------------------------------------------
(* The main loop.                                                          *)

\* The event epoll reports for fd, when its socket can be written or not.
\* EPOLLRDHUP is part of every mask and is tested first.
ReportedEvent(fd, writable) ==
    CASE interest[fd] \notin {"IN", "OUT"} -> "none"
      [] interest[fd] \in {"IN", "OUT"} /\ sock[fd] \in hup -> "HUP"
      [] interest[fd] = "IN" /\ sock[fd] \in unread \ hup -> "IN"
      [] interest[fd] = "OUT" /\ sock[fd] \notin hup /\ writable -> "OUT"
      [] OTHER -> "none"

\* Mutant: a registration without EPOLLONESHOT.
OneShotMissing(fd) == interest[fd]

\* EPOLLONESHOT: a reported descriptor is disabled until modfd.
OneShot(fd) == IF events'[fd] # "none" THEN "disabled" ELSE interest[fd]

epoll_wait ==
    /\ mpc = "wait"
    /\ \E writable \in SUBSET {fd \in Fds : interest[fd] = "OUT"} :
          events' = [fd \in Fds |-> ReportedEvent(fd, fd \in writable)]
    /\ edge \/ sigpipe # {} \/ \E fd \in Fds : events'[fd] # "none"
    /\ interest' = [fd \in Fds |-> OneShot(fd)]
    /\ listenEv' = edge /\ edge' = FALSE
    /\ skipped' = (skipped /\ ~edge)
    /\ pipeEv' = (sigpipe # {})
    /\ mpc' = "batch"
    /\ UNCHANGED <<backlog, sock, clientVars, signalVars, timeout,
                   stop_server, timerVars, objVars, countVars, poolVars>>

\* The event of listenfd starts the accept loop.
HandleListen ==
    /\ mpc = "batch" /\ listenEv
    /\ listenEv' = FALSE
    /\ mpc' = "accept"
    /\ UNCHANGED <<kernelVars, clientVars, signalVars, events, pipeEv,
                   timeout, stop_server, timerVars, objVars, countVars,
                   poolVars>>

\* The descriptors some worker serves and those in the queue.
InPool == {worker[w].fd : w \in {v \in Workers : worker[v].pc # "idle"}}
          \cup {queue[i] : i \in DOMAIN queue}

\* Mutant: one accept for each event, no loop.
acceptOnce(fd) ==
    /\ mpc = "accept" /\ backlog # <<>> /\ sock[fd] = None
    /\ m_user_count < MAX_FD
    /\ sock' = [sock EXCEPT ![fd] = Head(backlog)]
    /\ interest' = [interest EXCEPT ![fd] = "IN"]
    /\ new_timer(fd, Head(backlog))
    /\ backlog' = Tail(backlog)
    /\ m_sockfd' = [m_sockfd EXCEPT ![fd] = fd]
    /\ init(fd)
    /\ m_user_count' = m_user_count + 1
    /\ mpc' = "batch"
    /\ UNCHANGED <<edge, skipped, miscounted, reused, clientVars, signalVars,
                   batchVars, timeout, stop_server, poolVars>>

\* One turn of the accept loop that succeeds: users[fd].init, then a new
\* timer.  accept may return any descriptor that is not open: workers open
\* and close files meanwhile.
accept(fd) ==
    /\ mpc = "accept" /\ backlog # <<>> /\ sock[fd] = None
    /\ m_user_count < MAX_FD
    /\ sock' = [sock EXCEPT ![fd] = Head(backlog)]
    /\ interest' = [interest EXCEPT ![fd] = "IN"]
    /\ new_timer(fd, Head(backlog))
    /\ backlog' = Tail(backlog)
    /\ m_sockfd' = [m_sockfd EXCEPT ![fd] = fd]
    /\ init(fd)
    /\ m_user_count' = m_user_count + 1
    /\ reused' = IF fd \in InPool \/ events[fd] # "none" THEN reused \cup {fd}
                                                      ELSE reused \ {fd}
    /\ UNCHANGED <<edge, skipped, miscounted, clientVars, signalVars,
                   loopVars, poolVars>>

\* accept returns -1: nobody is left (EAGAIN), the connection stays in the
\* backlog (EMFILE, ENFILE, ENOMEM) or has been aborted.
AcceptError ==
    \/ UNCHANGED backlog
    \/ backlog # <<>> /\ backlog' = Tail(backlog)

\* accept returns a descriptor and show_error closes it.
show_error ==
    /\ backlog # <<>> /\ \E fd \in Fds : sock[fd] = None
    /\ m_user_count >= MAX_FD
    /\ backlog' = Tail(backlog)

\* The accept loop ends at any error of accept and at a refusal, with or
\* without connections left in the backlog.
AcceptEnds ==
    /\ mpc = "accept"
    /\ AcceptError \/ show_error
    /\ skipped' = (backlog' # <<>>)
    /\ mpc' = "batch"
    /\ UNCHANGED <<edge, sock, interest, clientVars, signalVars, batchVars,
                   timeout, stop_server, timerVars, objVars, countVars,
                   poolVars>>

\* EPOLLRDHUP, EPOLLHUP or EPOLLERR.
HandleHup(fd) ==
    /\ Handling(fd, "HUP")
    /\ CloseByMain(fd)
    /\ UNCHANGED <<backlog, edge, skipped, arrived, sends, signalVars,
                   objVars, poolVars>>

\* Mutant: only one of the signals in the pipe is looked at.
HandlePipeFirst ==
    /\ mpc = "batch" /\ pipeEv
    /\ pipeEv' = FALSE
    /\ timeout' = (timeout \/ "SIGALRM" \in sigpipe)
    /\ stop_server' = (stop_server \/ "SIGALRM" \notin sigpipe)
    /\ sigpipe' = {}
    /\ UNCHANGED <<kernelVars, clientVars, alarm, mpc, events, listenEv,
                   timerVars, objVars, countVars, poolVars>>

\* The pipe: every byte of it is one signal.
HandlePipe ==
    /\ mpc = "batch" /\ pipeEv
    /\ pipeEv' = FALSE
    /\ timeout' = (timeout \/ "SIGALRM" \in sigpipe)
    /\ stop_server' = (stop_server \/ "SIGTERM" \in sigpipe)
    /\ sigpipe' = {}
    /\ UNCHANGED <<kernelVars, clientVars, alarm, mpc, events, listenEv,
                   timerVars, objVars, countVars, poolVars>>

\* EPOLLIN, read_once returns TRUE: whatever has arrived is in m_read_buf (a
\* read of nothing, EAGAIN, is TRUE as well).  The request goes to the pool
\* and the timer starts again.
ReadSucceeds(fd) ==
    /\ Handling(fd, "IN")
    /\ m_sockfd[fd] # None /\ sock[fd] \notin hup \cup {None}
    /\ rbuf' = IF sock[fd] \in unread THEN [rbuf EXCEPT ![fd] = sock[fd]]
                                      ELSE rbuf
    /\ unread' = unread \ {sock[fd]}
    /\ append(fd)
    /\ adjust_timer(timer[fd])
    /\ UNCHANGED <<kernelVars, arrived, sends, hup, signalVars, m_sockfd,
                   reused, wbuf, countVars, worker>>

\* EPOLLIN, read_once returns FALSE: end of file, an error, a full buffer.
\* Bytes may have been read before that.
ReadFails(fd) ==
    /\ Handling(fd, "IN")
    /\ rbuf' \in {rbuf} \cup {[rbuf EXCEPT ![fd] = c] :
                                  c \in {sock[fd]} \cap unread}
    /\ CloseByMain(fd)
    /\ UNCHANGED <<backlog, edge, skipped, arrived, sends, signalVars,
                   m_sockfd, reused, wbuf, poolVars>>

\* EPOLLOUT, write returns TRUE with nothing left to send: there was nothing,
\* or all is sent on a connection that is kept alive.  Both call init.
WriteDone(fd) ==
    /\ Handling(fd, "OUT")
    /\ wbuf[fd] = None \/ (m_sockfd[fd] # None /\ sock[fd] # None)
    /\ modfd(fd, "IN")
    /\ init(fd)
    /\ adjust_timer(timer[fd])
    /\ UNCHANGED <<backlog, edge, skipped, sock, clientVars, signalVars,
                   m_sockfd, reused, countVars, poolVars>>

\* EPOLLOUT, write returns TRUE at EAGAIN: a part is sent, the rest waits.
WriteBlocks(fd) ==
    /\ Handling(fd, "OUT")
    /\ wbuf[fd] # None /\ m_sockfd[fd] # None /\ sock[fd] # None
    /\ modfd(fd, "OUT")
    /\ adjust_timer(timer[fd])
    /\ UNCHANGED <<backlog, edge, skipped, sock, clientVars, signalVars,
                   objVars, countVars, poolVars>>

\* EPOLLOUT, write returns FALSE: an error, with the reply still pending, or
\* all sent on a connection that is not kept alive.
WriteFails(fd) ==
    /\ Handling(fd, "OUT")
    /\ wbuf[fd] # None
    /\ wbuf' \in {wbuf, [wbuf EXCEPT ![fd] = None]}
    /\ CloseByMain(fd)
    /\ UNCHANGED <<backlog, edge, skipped, arrived, sends, signalVars,
                   m_sockfd, reused, rbuf, poolVars>>

\* Mutant: the timers are handled as soon as the signal is read.
BatchDoneAtSignal == mpc = "batch" /\ ~listenEv /\ ~pipeEv

BatchDone == mpc = "batch" /\ ~listenEv /\ ~pipeEv
             /\ \A fd \in Fds : events[fd] = "none"

LoopTop == IF stop_server THEN "exit" ELSE "wait"

\* After the last event of the batch: timer_handler if a SIGALRM was read.
EndBatch ==
    /\ BatchDone
    /\ mpc' = IF timeout THEN "tick" ELSE LoopTop
    /\ UNCHANGED <<kernelVars, clientVars, signalVars, batchVars, timeout,
                   stop_server, timerVars, objVars, countVars, poolVars>>

\* HeapTimer::tick: one expired timer is popped, its callback runs, and it is
\* deleted.
tick(c) ==
    /\ mpc = "tick" /\ c \in heap /\ ttl[c] = 0
    /\ heap' = heap \ {c}
    /\ freed' = freed \cup {c}
    /\ cb_func(user_data[c])
    /\ orphans' = orphans \cup ({sock[user_data[c]]} \ {c, None})
    /\ UNCHANGED <<backlog, edge, skipped, arrived, sends, signalVars,
                   loopVars, ttl, user_data, timer, objVars, poolVars>>

\* Mutant: timer_handler does not call alarm.
TickEndsNoAlarm ==
    /\ mpc = "tick" /\ \A c \in heap : ttl[c] > 0
    /\ timeout' = FALSE
    /\ mpc' = LoopTop
    /\ UNCHANGED <<kernelVars, clientVars, signalVars, batchVars, stop_server,
                   timerVars, objVars, countVars, poolVars>>

\* timer_handler re-arms the alarm.
TickEnds ==
    /\ mpc = "tick" /\ \A c \in heap : ttl[c] > 0
    /\ alarm' = TRUE
    /\ timeout' = FALSE
    /\ mpc' = LoopTop
    /\ UNCHANGED <<kernelVars, clientVars, sigpipe, batchVars, stop_server,
                   timerVars, objVars, countVars, poolVars>>

\* After the loop: the descriptors are closed and users is deleted.
Cleanup ==
    /\ mpc = "exit"
    /\ mpc' = "freed"
    /\ interest' = [fd \in Fds |-> "absent"]
    /\ UNCHANGED <<backlog, edge, skipped, sock, clientVars, signalVars,
                   batchVars, timeout, stop_server, timerVars, objVars,
                   countVars, poolVars>>

\* main returns: the process ends, with its detached threads.
Return ==
    /\ mpc = "freed"
    /\ mpc' = "done"
    /\ sock' = [fd \in Fds |-> None]
    /\ backlog' = <<>> /\ edge' = FALSE
    /\ UNCHANGED <<skipped, interest, clientVars, signalVars, batchVars, timeout,
                   stop_server, timerVars, objVars, countVars, poolVars>>
-----------------------------------------------------------------------------
(* A worker thread: threadpool::run around http_conn::process.             *)

At(w, pc) == Running /\ worker[w].pc = pc

Take(w) ==
    /\ At(w, "idle") /\ queue # <<>>
    /\ worker' = [worker EXCEPT ![w] = Serve(Head(queue))]
    /\ queue' = Tail(queue)
    /\ UNCHANGED <<kernelVars, clientVars, signalVars, loopVars, timerVars,
                   objVars, countVars>>

\* process_read: the request is not complete (and cannot be when the buffer
\* is empty), or it is the one in m_read_buf.
process_read(w) ==
    LET fd == worker[w].fd IN
    /\ At(w, "read")
    /\ \/ worker' = [worker EXCEPT ![w].pc = "modfd", ![w].ev = "IN"]
       \/ /\ rbuf[fd] # None
          /\ worker' = [worker EXCEPT ![w].pc = "write", ![w].req = rbuf[fd]]
    /\ UNCHANGED <<kernelVars, clientVars, signalVars, loopVars, timerVars,
                   objVars, countVars, queue>>

\* process_write: a reply to the request is ready, or none can be made (the
\* resource does not exist, the file is empty, the header does not fit).
process_write(w) ==
    LET fd == worker[w].fd IN
    /\ At(w, "write")
    /\ \/ /\ wbuf' = [wbuf EXCEPT ![fd] = worker[w].req]
          /\ worker' = [worker EXCEPT ![w].pc = "modfd", ![w].ev = "OUT"]
       \/ /\ worker' = [worker EXCEPT ![w].pc = "close", ![w].ev = "OUT"]
          /\ UNCHANGED wbuf
    /\ UNCHANGED <<kernelVars, clientVars, signalVars, loopVars, timerVars,
                   m_sockfd, reused, rbuf, countVars, queue>>

\* close_conn: removefd, while the timer stays in the heap ...
close_conn(w) ==
    LET fd == worker[w].fd IN
    /\ At(w, "close")
    /\ IF m_sockfd[fd] # None
       THEN /\ removefd(fd)
            /\ orphans' = orphans \cup ({sock[fd]} \ {None})
            /\ miscounted' = (miscounted \/ sock[fd] = None)
            /\ worker' = [worker EXCEPT ![w].pc = "clear"]
       ELSE /\ worker' = [worker EXCEPT ![w].pc = "modfd"]
            /\ UNCHANGED <<sock, interest, unread, hup, orphans, miscounted>>
    /\ UNCHANGED <<backlog, edge, skipped, arrived, sends, signalVars,
                   loopVars, heap, freed, ttl, user_data, timer, objVars,
                   m_user_count, queue>>

\* ... then m_sockfd = -1, and the load of m_user_count-- ...
ClearSockfd(w) ==
    /\ At(w, "clear")
    /\ m_sockfd' = [m_sockfd EXCEPT ![worker[w].fd] = None]
    /\ worker' = [worker EXCEPT ![w].pc = "count", ![w].count = m_user_count]
    /\ UNCHANGED <<kernelVars, clientVars, signalVars, loopVars, timerVars,
                   rbuf, wbuf, reused, countVars, queue>>

\* ... and its store.  m_user_count is a plain int that main updates too:
\* when it has changed since the load, either update may be the lost one.
StoreCount(w) ==
    /\ At(w, "count")
    /\ m_user_count' \in {worker[w].count - 1} \cup
                         ({m_user_count} \ {worker[w].count})
    /\ miscounted' = (miscounted \/ m_user_count # worker[w].count)
    /\ worker' = [worker EXCEPT ![w].pc = "modfd", ![w].count = 0]
    /\ UNCHANGED <<kernelVars, clientVars, signalVars, loopVars, timerVars,
                   objVars, queue>>

\* The modfd process ends with, after close_conn too.
Rearm(w) ==
    /\ At(w, "modfd")
    /\ modfd(worker[w].fd, worker[w].ev)
    /\ worker' = [worker EXCEPT ![w] = Idle]
    /\ UNCHANGED <<backlog, edge, skipped, sock, clientVars, signalVars,
                   loopVars, timerVars, objVars, countVars, queue>>
-----------------------------------------------------------------------------
Client(c) == Connect(c) \/ Send(c) \/ Hangup(c)

Main ==
    \/ epoll_wait \/ HandleListen \/ AcceptEnds \/ HandlePipe
    \/ EndBatch \/ TickEnds \/ Cleanup \/ Return
    \/ \E fd \in Fds : \/ accept(fd) \/ HandleHup(fd)
                       \/ ReadSucceeds(fd) \/ ReadFails(fd)
                       \/ WriteDone(fd) \/ WriteBlocks(fd)
                       \/ WriteFails(fd)
    \/ \E c \in Conns : tick(c)

Work(w) ==
    \/ Take(w) \/ process_read(w) \/ process_write(w) \/ close_conn(w)
    \/ ClearSockfd(w) \/ StoreCount(w) \/ Rearm(w)

Next ==
    \/ \E c \in Conns : Client(c)
    \/ Elapse \/ SigAlarm \/ SigTerm
    \/ Main
    \/ \E w \in Workers : Work(w)

Spec == Init /\ [][Next]_vars

\* The threads are scheduled, time passes and the alarm goes off.  A reply is
\* finite, so write cannot block on it for ever while the socket keeps becoming
\* writable.  Nothing is assumed of the clients, of SIGTERM, or of a socket
\* becoming writable.
FairSpec ==
    /\ Spec
    /\ WF_vars(Main) /\ SF_vars(Elapse) /\ WF_vars(SigAlarm)
    /\ \A w \in Workers : WF_vars(Work(w))
    /\ \A fd \in Fds : SF_vars(WriteDone(fd) \/ WriteFails(fd))
-----------------------------------------------------------------------------
(* What the code guarantees whatever the workers do and however slow they  *)
(* are.  Where it does not, the property names the history that made the   *)
(* difference.                                                             *)

WorkerState == [pc : {"idle", "read", "write", "close", "clear", "count",
                      "modfd"},
                fd : Fds \cup {None}, req : Conns \cup {None},
                ev : {"IN", "OUT"}, count : Int]

\* Every variable has its type.
TypeOK ==
    /\ backlog \in Seq(Conns) /\ edge \in BOOLEAN
    /\ sock \in [Fds -> Conns \cup {None}]
    /\ interest \in [Fds -> {"absent", "disabled", "IN", "OUT"}]
    /\ arrived \subseteq Conns /\ unread \subseteq Conns /\ hup \subseteq Conns
    /\ sends \in [Conns -> Nat]
    /\ alarm \in BOOLEAN /\ sigpipe \subseteq {"SIGALRM", "SIGTERM"}
    /\ mpc \in {"wait", "batch", "accept", "tick", "exit", "freed", "done"}
    /\ events \in [Fds -> {"none", "HUP", "IN", "OUT"}]
    /\ listenEv \in BOOLEAN /\ pipeEv \in BOOLEAN
    /\ timeout \in BOOLEAN /\ stop_server \in BOOLEAN
    /\ heap \subseteq Conns /\ freed \subseteq Conns
    /\ ttl \in [Conns -> Nat]
    /\ user_data \in [Conns -> Fds \cup {None}]
    /\ timer \in [Fds -> Conns \cup {None}]
    /\ m_sockfd \in [Fds -> Fds \cup {None}]
    /\ rbuf \in [Fds -> Conns \cup {None}]
    /\ wbuf \in [Fds -> Conns \cup {None}]
    /\ m_user_count \in Int
    /\ queue \in Seq(Fds)
    /\ worker \in [Workers -> WorkerState]
    /\ \A w \in Workers : worker[w].pc # "idle" => worker[w].fd \in Fds
    /\ skipped \in BOOLEAN /\ orphans \subseteq Conns
    /\ reused \subseteq Fds /\ miscounted \in BOOLEAN

\* Whenever the batch still holds an event of fd, users_timer[fd].timer is a
\* timer that is in the heap and was not deleted: the handlers call
\* timer->cb_func without a test, and tick deletes timers.
EventHasTimer ==
    \A fd \in Fds : events[fd] # "none" => timer[fd] \in heap \ freed

\* Every open connection is covered by a timer: the one users_timer[fd] names
\* is in the heap and its callback closes fd.
OpenHasTimer ==
    \A fd \in Fds : sock[fd] # None => /\ timer[fd] \in heap
                                       /\ user_data[timer[fd]] = fd

\* An open connection whose client stops sending (every client does, after
\* MaxSends segments) is closed in the end, whatever the workers did to it.
Reaped == \A fd \in Fds : sock[fd] # None ~> sock[fd] = None

\* SIGTERM ends the process.
Stops == "SIGTERM" \in sigpipe ~> mpc = "done"

\* listenfd is edge-triggered: unless an edge is pending, or main has one in its
\* batch or is in the accept loop, nobody is in the backlog, where only another
\* client would get him out; unless an error of accept or a refusal broke the
\* loop off.  One accept for each edge would not do.
Accepted ==
    ~edge /\ ~listenEv /\ mpc # "accept" => backlog = <<>> \/ skipped

\* Until main returns, m_user_count is the number of open connections and of
\* those that a worker has closed and not yet counted; unless an update was lost
\* between a worker's load and store, or a close came when its descriptor was
\* closed already.
Closing == {w \in Workers : worker[w].pc \in {"clear", "count"}}
UserCountExact ==
    Running /\ ~miscounted =>
        m_user_count = Cardinality({fd \in Fds : sock[fd] # None})
                       + Cardinality(Closing)

\* EPOLLONESHOT: at most one of main and the workers has the connection at fd,
\* counting what epoll may still report, the current batch, and the queue;
\* unless fd was accepted while one of them had it from its last connection.
Serving(fd) == {w \in Workers : worker[w].fd = fd}
Holders(fd) ==
    Cardinality(Serving(fd))
    + Cardinality({i \in DOMAIN queue : queue[i] = fd})
    + (IF interest[fd] \in {"IN", "OUT"} THEN 1 ELSE 0)
    + (IF events[fd] # "none" THEN 1 ELSE 0)
OneHolder == \A fd \in Fds : fd \notin reused => Holders(fd) <= 1

\* A reply that is waiting at fd answers a request of the connection open there,
\* with the same exception.
ReplyToAsker ==
    \A fd \in Fds \ reused :
        wbuf[fd] # None /\ sock[fd] # None => wbuf[fd] = sock[fd]

\* tick closes inactive connections only: the one open at the timer's fd has
\* been idle for LIFE slots itself; unless the timer outlived its connection,
\* which a worker, or another such timer, had closed.
TickClosesInactive ==
    [][\A c \in Conns \ orphans :
          c \in freed' \ freed =>
              LET owner == sock[user_data[c]]
              IN  owner # None => ttl[owner] = 0]_vars
-----------------------------------------------------------------------------
(* What the comments in the code claim without these exceptions; each is   *)
(* violated.                                                               *)

\* main.cpp: one thread at a time has a connection, without exception.
OneThread == \A fd \in Fds : Cardinality(Serving(fd)) <= 1

\* main.cpp: the callback of a timer closes inactive connections.
ClosesInactive ==
    [][\A c \in Conns :
          c \in freed' \ freed =>
              LET owner == sock[user_data[c]]
              IN  owner # None => ttl[owner] = 0]_vars

\* http_conn.cpp: a closed connection is one client less.
ClientsCounted ==
    Running /\ Closing = {} =>
        m_user_count = Cardinality({fd \in Fds : sock[fd] # None})
=============================================================================
