--------------------------- MODULE ReactorProofs ---------------------------
(***************************************************************************)
(* Proofs about Reactor, for any number of descriptors, connections and    *)
(* workers and any bounds, however slow the workers are and whatever they  *)
(* close: type correctness; the main loop never follows a dangling timer   *)
(* pointer and never loses the timer of an open connection; one thread per *)
(* connection, the user count, replies and tick, up to the events that     *)
(* their properties except.                                                *)
(***************************************************************************)
EXTENDS Reactor, FiniteSetTheorems, SequenceTheorems, TLAPS

\* What TypeOK says of the workers.
WorkerOK(f) ==
    /\ f \in [Workers -> WorkerState]
    /\ \A w \in Workers : f[w].pc # "idle" => f[w].fd \in Fds

\* The updates a worker makes to its own record keep the record's type.
LEMMA WorkerUpdates ==
    ASSUME WorkerOK(worker), NEW w \in Workers
    PROVE  /\ WorkerOK([worker EXCEPT ![w] = Idle])
           /\ \A fd \in Fds : WorkerOK([worker EXCEPT ![w] = Serve(fd)])
           /\ worker[w].fd \in Fds =>
              /\ \A pc \in {"clear", "modfd"} :
                     WorkerOK([worker EXCEPT ![w].pc = pc])
              /\ \A pc \in {"close", "modfd"}, ev \in {"IN", "OUT"} :
                     WorkerOK([worker EXCEPT ![w].pc = pc, ![w].ev = ev])
              /\ \A req \in Conns :
                     WorkerOK([worker EXCEPT ![w].pc = "write", ![w].req = req])
              /\ \A pc \in {"count", "modfd"}, n \in Int :
                     WorkerOK([worker EXCEPT ![w].pc = pc, ![w].count = n])
<1>1. /\ worker \in [Workers -> WorkerState] /\ worker[w] \in WorkerState
      /\ worker[w].fd \in Fds \cup {None} /\ worker[w].req \in Conns \cup {None}
      /\ worker[w].ev \in {"IN", "OUT"} /\ worker[w].count \in Int
  BY DEF WorkerOK, WorkerState
<1>2. \A r \in WorkerState :
          (r.pc # "idle" => r.fd \in Fds) => WorkerOK([worker EXCEPT ![w] = r])
  BY DEF WorkerOK
<1>3. WorkerOK([worker EXCEPT ![w] = Idle])
  <2>1. Idle \in WorkerState /\ Idle.pc = "idle"
    BY DEF Idle, WorkerState
  <2> QED
    BY <2>1, <1>2
<1>4. ASSUME NEW fd \in Fds
      PROVE  WorkerOK([worker EXCEPT ![w] = Serve(fd)])
  <2>1. Serve(fd) \in WorkerState /\ Serve(fd).fd \in Fds
    BY DEF Serve, WorkerState
  <2> QED
    BY <2>1, <1>2
<1>5. ASSUME worker[w].fd \in Fds, NEW pc \in {"clear", "modfd"}
      PROVE  WorkerOK([worker EXCEPT ![w].pc = pc])
  <2> DEFINE r == [worker[w] EXCEPT !.pc = pc]
  <2>1. r \in WorkerState /\ r.fd \in Fds
    BY <1>5, <1>1 DEF WorkerState
  <2>2. [worker EXCEPT ![w] = r] = [worker EXCEPT ![w].pc = pc]
    BY <1>1
  <2> QED
    BY <2>1, <2>2, <1>2
<1>6. ASSUME worker[w].fd \in Fds, NEW pc \in {"close", "modfd"},
             NEW ev \in {"IN", "OUT"}
      PROVE  WorkerOK([worker EXCEPT ![w].pc = pc, ![w].ev = ev])
  <2> DEFINE r == [worker[w] EXCEPT !.pc = pc, !.ev = ev]
  <2>1. r \in WorkerState /\ r.fd \in Fds
    BY <1>6, <1>1 DEF WorkerState
  <2>2. [worker EXCEPT ![w] = r] = [worker EXCEPT ![w].pc = pc, ![w].ev = ev]
    BY <1>1
  <2> QED
    BY <2>1, <2>2, <1>2
<1>7. ASSUME worker[w].fd \in Fds, NEW req \in Conns
      PROVE  WorkerOK([worker EXCEPT ![w].pc = "write", ![w].req = req])
  <2> DEFINE r == [worker[w] EXCEPT !.pc = "write", !.req = req]
  <2>1. r \in WorkerState /\ r.fd \in Fds
    BY <1>7, <1>1 DEF WorkerState
  <2>2. [worker EXCEPT ![w] = r] = [worker EXCEPT ![w].pc = "write", ![w].req = req]
    BY <1>1
  <2> QED
    BY <2>1, <2>2, <1>2
<1>8. ASSUME worker[w].fd \in Fds, NEW pc \in {"count", "modfd"}, NEW n \in Int
      PROVE  WorkerOK([worker EXCEPT ![w].pc = pc, ![w].count = n])
  <2> DEFINE r == [worker[w] EXCEPT !.pc = pc, !.count = n]
  <2>1. r \in WorkerState /\ r.fd \in Fds
    BY <1>8, <1>1 DEF WorkerState
  <2>2. [worker EXCEPT ![w] = r] = [worker EXCEPT ![w].pc = pc, ![w].count = n]
    BY <1>1
  <2> QED
    BY <2>1, <2>2, <1>2
<1> QED
  BY <1>3, <1>4, <1>5, <1>6, <1>7, <1>8

\* The worker threads preserve the types.
LEMMA WorkType ==
    ASSUME TypeOK, NEW w \in Workers, Work(w) PROVE TypeOK'
<1> USE DEF kernelVars, clientVars, signalVars, loopVars, batchVars,
            timerVars, objVars, countVars, poolVars
<1>t. WorkerOK(worker)
  BY DEF TypeOK, WorkerOK
<1>f. /\ worker[w].pc # "idle" => worker[w].fd \in Fds
      /\ worker[w].count \in Int /\ worker[w].ev \in {"IN", "OUT"}
      /\ worker[w].req \in Conns \cup {None}
  BY <1>t DEF WorkerOK, WorkerState
<1>o. WorkerOK(worker') <=> (worker \in [Workers -> WorkerState] 
          /\ \A v \in Workers : worker[v].pc # "idle" => worker[v].fd \in Fds)'
  BY DEF WorkerOK
<1>1. CASE Take(w)
  <2>1. Head(queue) \in Fds /\ queue' \in Seq(Fds)
    BY <1>1 DEF TypeOK, Take
  <2>2. worker' = [worker EXCEPT ![w] = Serve(Head(queue))]
    BY <1>1 DEF Take
  <2>3. WorkerOK(worker')
    BY <2>1, <2>2, <1>t, WorkerUpdates
  <2> QED
    BY <1>1, <2>1, <2>3, <1>o DEF TypeOK, Take
<1>2. CASE process_read(w)
  <2>0. worker[w].fd \in Fds
    BY <1>2, <1>f DEF process_read, At
  <2>1. \/ worker' = [worker EXCEPT ![w].pc = "modfd", ![w].ev = "IN"]
        \/ worker' = [worker EXCEPT ![w].pc = "write",
                                    ![w].req = rbuf[worker[w].fd]]
           /\ rbuf[worker[w].fd] # None
    BY <1>2 DEF process_read
  <2>2. rbuf[worker[w].fd] \in Conns \cup {None}
    BY <2>0 DEF TypeOK
  <2>3. /\ WorkerOK([worker EXCEPT ![w].pc = "modfd", ![w].ev = "IN"])
        /\ \A req \in Conns :
               WorkerOK([worker EXCEPT ![w].pc = "write", ![w].req = req])
    BY <2>0, <1>t, WorkerUpdates
  <2>4. WorkerOK(worker')
    BY ONLY <2>1, <2>2, <2>3
  <2> QED
    BY <1>2, <2>4, <1>o DEF TypeOK, process_read
<1>3. CASE process_write(w)
  <2>0. worker[w].fd \in Fds
    BY <1>3, <1>f DEF process_write, At
  <2>1. \/ worker' = [worker EXCEPT ![w].pc = "modfd", ![w].ev = "OUT"]
        \/ worker' = [worker EXCEPT ![w].pc = "close", ![w].ev = "OUT"]
    BY <1>3 DEF process_write
  <2>2. wbuf' \in [Fds -> Conns \cup {None}]
    BY <1>3, <1>f DEF TypeOK, process_write
  <2>3. WorkerOK(worker')
    BY <2>0, <2>1, <1>t, WorkerUpdates
  <2> QED
    BY <1>3, <2>2, <2>3, <1>o DEF TypeOK, process_write
<1>4. CASE close_conn(w)
  <2>0. worker[w].fd \in Fds
    BY <1>4, <1>f DEF close_conn, At
  <2>1. \/ worker' = [worker EXCEPT ![w].pc = "clear"]
        \/ worker' = [worker EXCEPT ![w].pc = "modfd"]
    BY <1>4 DEF close_conn
  <2>2. /\ sock' \in [Fds -> Conns \cup {None}]
        /\ interest' \in [Fds -> {"absent", "disabled", "IN", "OUT"}]
        /\ unread' \subseteq Conns /\ hup' \subseteq Conns
    BY <1>4 DEF TypeOK, close_conn, removefd
  <2>4. orphans' \subseteq Conns /\ miscounted' \in BOOLEAN
    <3>1. sock[worker[w].fd] \in Conns \cup {None} /\ orphans \subseteq Conns
          /\ miscounted \in BOOLEAN
      BY <2>0 DEF TypeOK
    <3>2. /\ orphans' \in {orphans, orphans \cup ({sock[worker[w].fd]} \ {None})}
          /\ \/ miscounted' = miscounted
             \/ miscounted' = (miscounted \/ sock[worker[w].fd] = None)
      BY <1>4 DEF close_conn
    <3> QED
      BY ONLY <3>1, <3>2
  <2>3. WorkerOK(worker')
    BY <2>0, <2>1, <1>t, WorkerUpdates
  <2> QED
    BY <1>4, <2>2, <2>3, <2>4, <1>o DEF TypeOK, close_conn
<1>5. CASE ClearSockfd(w)
  <2>0. worker[w].fd \in Fds
    BY <1>5, <1>f DEF ClearSockfd, At
  <2>1. worker' = [worker EXCEPT ![w].pc = "count", ![w].count = m_user_count]
    BY <1>5 DEF ClearSockfd
  <2>2. m_user_count \in Int
    BY DEF TypeOK
  <2>3. WorkerOK(worker')
    BY <2>0, <2>1, <2>2, <1>t, WorkerUpdates
  <2>4. m_sockfd' \in [Fds -> Fds \cup {None}]
    BY <1>5, <2>0 DEF TypeOK, ClearSockfd
  <2> QED
    BY <1>5, <2>3, <2>4, <1>o DEF TypeOK, ClearSockfd
<1>6. CASE StoreCount(w)
  <2>0. worker[w].fd \in Fds
    BY <1>6, <1>f DEF StoreCount, At
  <2>1. worker' = [worker EXCEPT ![w].pc = "modfd", ![w].count = 0]
    BY <1>6 DEF StoreCount
  <2>2. m_user_count' \in Int /\ miscounted' \in BOOLEAN
    BY <1>6, <1>f DEF TypeOK, StoreCount
  <2>4. \A n \in Int :
            WorkerOK([worker EXCEPT ![w].pc = "modfd", ![w].count = n])
    BY <2>0, <1>t, WorkerUpdates
  <2>5. WorkerOK([worker EXCEPT ![w].pc = "modfd", ![w].count = 0])
    BY <2>4
  <2>3. WorkerOK(worker')
    BY <2>1, <2>5
  <2> QED
    BY <1>6, <2>2, <2>3, <1>o DEF TypeOK, StoreCount
<1>7. CASE Rearm(w)
  <2>1. worker' = [worker EXCEPT ![w] = Idle]
    BY <1>7 DEF Rearm
  <2>2. interest' \in [Fds -> {"absent", "disabled", "IN", "OUT"}]
    BY <1>7, <1>f DEF TypeOK, Rearm, modfd
  <2>3. WorkerOK(worker')
    BY <2>1, <1>t, WorkerUpdates
  <2> QED
    BY <1>7, <2>2, <2>3, <1>o DEF TypeOK, Rearm
<1> QED
  BY <1>1, <1>2, <1>3, <1>4, <1>5, <1>6, <1>7 DEF Work

\* So do the clients, the signals and the passing of time.
LEMMA EnvType ==
    ASSUME TypeOK,
           (\E c \in Conns : Client(c)) \/ Elapse \/ SigAlarm \/ SigTerm
    PROVE  TypeOK'
<1> USE DEF kernelVars, clientVars, signalVars, loopVars, batchVars,
            timerVars, objVars, countVars, poolVars
<1>1. ASSUME NEW c \in Conns, Connect(c) PROVE TypeOK'
  BY <1>1 DEF TypeOK, Connect
<1>2. ASSUME NEW c \in Conns, Send(c) PROVE TypeOK'
  BY <1>2 DEF TypeOK, Send
<1>3. ASSUME NEW c \in Conns, Hangup(c) PROVE TypeOK'
  BY <1>3 DEF TypeOK, Hangup
<1>4. CASE Elapse
  BY <1>4 DEF TypeOK, Elapse
<1>5. CASE SigAlarm
  BY <1>5 DEF TypeOK, SigAlarm
<1>6. CASE SigTerm
  BY <1>6 DEF TypeOK, SigTerm
<1> QED
  BY <1>1, <1>2, <1>3, <1>4, <1>5, <1>6 DEF Client

\* What epoll may report.
LEMMA ReportedEventType ==
    ASSUME NEW fd \in Fds, NEW x
    PROVE
        /\ ReportedEvent(fd, x) \in {"none", "HUP", "IN", "OUT"}
        /\ ReportedEvent(fd, x) # "none" => interest[fd] \in {"IN", "OUT"}
  BY DEF ReportedEvent

\* Closing a descriptor.
LEMMA CloseType ==
    ASSUME TypeOK, NEW fd, cb_func(fd)
    PROVE  /\ sock' \in [Fds -> Conns \cup {None}]
           /\ interest' \in [Fds -> {"absent", "disabled", "IN", "OUT"}]
           /\ m_user_count' \in Int /\ miscounted' \in BOOLEAN
           /\ unread' \subseteq Conns /\ hup' \subseteq Conns
<1>1. sock' = [sock EXCEPT ![fd] = None]
      /\ interest' = [interest EXCEPT ![fd] = "absent"]
      /\ m_user_count' = m_user_count - 1
      /\ unread' = unread \ {sock[fd]} /\ hup' = hup \ {sock[fd]}
  BY DEF cb_func, removefd
<1>2. /\ sock \in [Fds -> Conns \cup {None}]
      /\ interest \in [Fds -> {"absent", "disabled", "IN", "OUT"}]
      /\ m_user_count \in Int
      /\ unread \subseteq Conns /\ hup \subseteq Conns
  BY DEF TypeOK
<1>3. sock' \in [Fds -> Conns \cup {None}]
  BY <1>1, <1>2
<1>4. interest' \in [Fds -> {"absent", "disabled", "IN", "OUT"}]
  BY <1>1, <1>2
<1>5. m_user_count' \in Int
  BY <1>1, <1>2
<1>6. unread' \subseteq Conns /\ hup' \subseteq Conns
  BY <1>1, <1>2
<1>7. miscounted' \in BOOLEAN
  BY DEF cb_func, TypeOK
<1> QED
  BY <1>3, <1>4, <1>5, <1>6, <1>7

\* The main loop preserves the types, as long as the timers it moves exist.
LEMMA MainType ==
    ASSUME TypeOK, EventHasTimer, \A c \in heap : user_data[c] \in Fds, Main
    PROVE  TypeOK'
<1> USE ReactorAssumption
    DEF kernelVars, clientVars, signalVars, loopVars, batchVars,
        timerVars, objVars, countVars, poolVars
<1>1. CASE epoll_wait
  <2>1. PICK W \in SUBSET {fd \in Fds : interest[fd] = "OUT"} :
            events' = [fd \in Fds |-> ReportedEvent(fd, fd \in W)]
    BY <1>1 DEF epoll_wait
  <2>2. events' \in [Fds -> {"none", "HUP", "IN", "OUT"}]
    BY <2>1, ReportedEventType
  <2>3. interest' \in [Fds -> {"absent", "disabled", "IN", "OUT"}]
    BY <1>1 DEF TypeOK, epoll_wait, OneShot
  <2>4. listenEv' \in BOOLEAN /\ pipeEv' \in BOOLEAN /\ skipped' \in BOOLEAN
    BY <1>1 DEF TypeOK, epoll_wait
  <2> QED
    BY <1>1, <2>2, <2>3, <2>4 DEF TypeOK, epoll_wait
<1>2. CASE HandleListen
  BY <1>2 DEF TypeOK, HandleListen
<1>3. CASE AcceptEnds
  <2>1. backlog' \in Seq(Conns)
    <3>1. backlog \in Seq(Conns)
      BY DEF TypeOK
    <3>2. backlog' = backlog \/ (backlog # <<>> /\ backlog' = Tail(backlog))
      BY <1>3 DEF AcceptEnds, AcceptError, show_error
    <3> QED
      BY <3>1, <3>2
  <2>2. skipped' \in BOOLEAN
    BY <1>3 DEF AcceptEnds
  <2> QED
    BY <1>3, <2>1, <2>2 DEF TypeOK, AcceptEnds
<1>4. CASE HandlePipe
  <2>1. timeout' \in BOOLEAN /\ stop_server' \in BOOLEAN
    BY <1>4 DEF TypeOK, HandlePipe
  <2> QED
    BY <1>4, <2>1 DEF TypeOK, HandlePipe
<1>5. CASE EndBatch
  BY <1>5 DEF TypeOK, EndBatch, LoopTop
<1>6. CASE TickEnds
  BY <1>6 DEF TypeOK, TickEnds, LoopTop
<1>7. CASE Cleanup
  BY <1>7 DEF TypeOK, Cleanup
<1>8. CASE Return
  <2>1. backlog' \in Seq(Conns)
    BY <1>8 DEF Return
  <2> QED
    BY <1>8, <2>1 DEF TypeOK, Return
<1>9. ASSUME NEW fd \in Fds, accept(fd) PROVE TypeOK'
  <2>1. Head(backlog) \in Conns /\ Tail(backlog) \in Seq(Conns)
    BY <1>9 DEF accept, new_timer, TypeOK
  <2>2. /\ heap' \subseteq Conns /\ freed' \subseteq Conns
        /\ ttl' \in [Conns -> Nat]
        /\ user_data' \in [Conns -> Fds \cup {None}]
        /\ timer' \in [Fds -> Conns \cup {None}]
    BY <1>9, <2>1, ReactorAssumption DEF TypeOK, accept, new_timer
  <2>3. /\ sock' \in [Fds -> Conns \cup {None}]
        /\ interest' \in [Fds -> {"absent", "disabled", "IN", "OUT"}]
        /\ m_sockfd' \in [Fds -> Fds \cup {None}]
        /\ rbuf' \in [Fds -> Conns \cup {None}]
        /\ wbuf' \in [Fds -> Conns \cup {None}]
    BY <1>9, <2>1 DEF TypeOK, accept, init
  <2>4. reused' \subseteq Fds /\ orphans' \subseteq Conns
    BY <1>9 DEF TypeOK, accept, new_timer
  <2>5. m_user_count' \in Int
    BY <1>9 DEF TypeOK, accept
  <2> QED
    BY <1>9, <2>1, <2>2, <2>3, <2>4, <2>5, SMTT(30) DEF TypeOK, accept
<1>10. ASSUME NEW fd \in Fds, HandleHup(fd) PROVE TypeOK'
  BY <1>10, CloseType DEF TypeOK, HandleHup, Handling, CloseByMain, del_timer
<1>11. ASSUME NEW fd \in Fds, ReadSucceeds(fd) PROVE TypeOK'
  <2>1. queue' \in Seq(Fds)
    BY <1>11 DEF TypeOK, ReadSucceeds, append
  <2>2. rbuf' \in [Fds -> Conns \cup {None}]
    BY <1>11 DEF TypeOK, ReadSucceeds
  <2>3. ttl' \in [Conns -> Nat] /\ heap' \subseteq Conns
    BY <1>11 DEF TypeOK, EventHasTimer, ReadSucceeds, adjust_timer, Handling
  <2> QED
    BY <1>11, <2>1, <2>2, <2>3
    DEF TypeOK, ReadSucceeds, Handling, adjust_timer
<1>12. ASSUME NEW fd \in Fds, ReadFails(fd) PROVE TypeOK'
  <2>1. rbuf' \in [Fds -> Conns \cup {None}]
    <3>1. \/ rbuf' = rbuf
          \/ \E c \in {sock[fd]} \cap unread :
                 rbuf' = [rbuf EXCEPT ![fd] = c]
      BY <1>12 DEF ReadFails
    <3> QED
      BY <3>1 DEF TypeOK
  <2> QED
    BY <1>12, <2>1, CloseType
    DEF TypeOK, ReadFails, Handling, CloseByMain, del_timer
<1>13. ASSUME NEW fd \in Fds, WriteDone(fd) PROVE TypeOK'
  <2>1. interest' \in [Fds -> {"absent", "disabled", "IN", "OUT"}]
    BY <1>13 DEF TypeOK, WriteDone, modfd
  <2>2. ttl' \in [Conns -> Nat] /\ heap' \subseteq Conns
    BY <1>13 DEF TypeOK, EventHasTimer, WriteDone, adjust_timer, Handling
  <2> QED
    BY <1>13, <2>1, <2>2
    DEF TypeOK, WriteDone, Handling, adjust_timer, init
<1>14. ASSUME NEW fd \in Fds, WriteBlocks(fd) PROVE TypeOK'
  <2>1. interest' \in [Fds -> {"absent", "disabled", "IN", "OUT"}]
    BY <1>14 DEF TypeOK, WriteBlocks, modfd
  <2>2. ttl' \in [Conns -> Nat] /\ heap' \subseteq Conns
    BY <1>14 DEF TypeOK, EventHasTimer, WriteBlocks, adjust_timer, Handling
  <2> QED
    BY <1>14, <2>1, <2>2 DEF TypeOK, WriteBlocks, Handling, adjust_timer
<1>15. ASSUME NEW fd \in Fds, WriteFails(fd) PROVE TypeOK'
  <2>1. wbuf' \in [Fds -> Conns \cup {None}]
    BY <1>15 DEF TypeOK, WriteFails
  <2> QED
    BY <1>15, <2>1, CloseType
    DEF TypeOK, WriteFails, Handling, CloseByMain, del_timer
<1>16. ASSUME NEW c \in Conns, tick(c) PROVE TypeOK'
  <2>1. orphans' \subseteq Conns
    <3>1. user_data[c] \in Fds => sock[user_data[c]] \in Conns \cup {None}
      BY DEF TypeOK
    <3>2. user_data[c] \in Fds
      BY <1>16 DEF tick
    <3> QED
      BY <1>16, <3>1, <3>2 DEF TypeOK, tick
  <2> QED
    BY <1>16, <2>1, CloseType DEF TypeOK, tick
<1> QED
  BY <1>1, <1>2, <1>3, <1>4, <1>5, <1>6, <1>7, <1>8, <1>9, <1>10, <1>11,
     <1>12, <1>13, <1>14, <1>15, <1>16 DEF Main
-----------------------------------------------------------------------------
(* The timers.  EventHasTimer is not inductive: that the timer of a         *)
(* reported descriptor is in the heap rests on every registered descriptor  *)
(* having its timer there, on two descriptors never sharing a timer, on a   *)
(* connection in the backlog having none yet, and on tick running only when *)
(* the batch has been handled to the end.                                   *)

\* A registered descriptor is covered by its own timer.
RegisteredHasTimer ==
    \A fd \in Fds : interest[fd] # "absent" => timer[fd] \in heap

\* Every timer closes the descriptor whose client_data names it.
TimerOfFd ==
    \A fd \in Fds : timer[fd] # None => user_data[timer[fd]] = fd

\* Timers in the heap are alive, have a descriptor and belong to clients
\* that connected.
HeapAlive ==
    /\ heap \cap freed = {}
    /\ heap \cup freed \subseteq arrived
    /\ \A c \in heap : user_data[c] \in Fds
    /\ \A fd \in Fds : timer[fd] # None => timer[fd] \in arrived

\* A client waits in the backlog at most once, and has no timer yet.
BacklogFresh ==
    /\ \A i \in 1..Len(backlog) :
          /\ backlog[i] \in arrived /\ backlog[i] \notin heap \cup freed
          /\ \A fd \in Fds : timer[fd] # backlog[i]
    /\ \A i, j \in 1..Len(backlog) : backlog[i] = backlog[j] => i = j

\* Outside the handling of a batch there are no events left.
BatchOver ==
    mpc \notin {"batch", "accept"} => \A fd \in Fds : events[fd] = "none"

\* The invariant of the timers, inductive together with TypeOK.
TimerInv ==
    /\ EventHasTimer /\ OpenHasTimer
    /\ RegisteredHasTimer /\ TimerOfFd /\ HeapAlive /\ BacklogFresh /\ BatchOver

\* Steps that touch neither timers, nor the batch, nor the descriptors, and at
\* most re-arm or disable descriptors that are registered.
LEMMA TimerFrame ==
    ASSUME TypeOK, TimerInv,
           UNCHANGED <<backlog, sock, arrived, mpc, events, heap, freed,
                       user_data, timer>>,
           \A fd \in Fds : interest'[fd] # "absent" => interest[fd] # "absent"
    PROVE  TimerInv'
  BY DEF TimerInv, EventHasTimer, OpenHasTimer, RegisteredHasTimer, TimerOfFd,
         HeapAlive, BacklogFresh, BatchOver

\* Steps that close descriptor fd, take timer t of fd out of the heap, and
\* leave no event of fd in the batch.
LEMMA TimerClosed ==
    ASSUME TypeOK, TimerInv, NEW fd \in Fds, NEW t \in heap,
           user_data[t] = fd, removefd(fd),
           heap' = heap \ {t}, freed' \in {freed, freed \cup {t}},
           UNCHANGED <<backlog, arrived, mpc, user_data, timer>>,
           events' = [events EXCEPT ![fd] = "none"]
    PROVE  TimerInv'
<1> USE DEF TimerInv
<1>1. \A g \in Fds : timer[g] # None /\ g # fd => timer[g] # t
  BY DEF TimerOfFd
<1>2. \A g \in Fds : timer[g] \in heap => timer[g] # None
  BY ReactorAssumption DEF TypeOK
<1>3. \A g \in Fds : g # fd => /\ interest'[g] = interest[g]
                               /\ sock'[g] = sock[g] /\ events'[g] = events[g]
  BY DEF removefd, TypeOK
<1>4. interest'[fd] = "absent" /\ sock'[fd] = None /\ events'[fd] = "none"
  BY DEF removefd, TypeOK
<1>5. EventHasTimer'
  BY <1>1, <1>2, <1>3, <1>4 DEF EventHasTimer
<1>6. OpenHasTimer'
  BY <1>1, <1>2, <1>3, <1>4 DEF OpenHasTimer
<1>7. RegisteredHasTimer'
  BY <1>1, <1>2, <1>3, <1>4 DEF RegisteredHasTimer
<1>8. TimerOfFd' /\ HeapAlive' /\ BacklogFresh'
  BY DEF TimerOfFd, HeapAlive, BacklogFresh
<1>9. BatchOver'
  BY DEF BatchOver, TypeOK
<1> QED
  BY <1>5, <1>6, <1>7, <1>8, <1>9

\* Neither the clients nor the workers disturb the timers.
LEMMA TimerEnv ==
    ASSUME TypeOK, TimerInv,
           \/ \E c \in Conns : Client(c)
           \/ Elapse \/ SigAlarm \/ SigTerm
    PROVE  TimerInv'
<1> USE DEF kernelVars, clientVars, signalVars, loopVars, batchVars, timerVars,
            objVars, countVars, poolVars
<1>1. ASSUME NEW c \in Conns, Connect(c) PROVE TimerInv'
  <2>1. BacklogFresh'
    <3>1. /\ backlog \in Seq(Conns) /\ backlog' = Append(backlog, c)
          /\ c \notin arrived /\ arrived' = arrived \cup {c}
          /\ heap' = heap /\ freed' = freed /\ timer' = timer
      BY <1>1 DEF TypeOK, Connect
    <3>2. c \notin heap \cup freed /\ \A fd \in Fds : timer[fd] # c
      BY <3>1, ReactorAssumption DEF TimerInv, HeapAlive
    <3>3. /\ Len(backlog') = Len(backlog) + 1
          /\ backlog'[Len(backlog) + 1] = c
          /\ \A i \in 1..Len(backlog) : backlog'[i] = backlog[i]
      BY <3>1
    <3> QED
      BY <3>1, <3>2, <3>3 DEF TimerInv, BacklogFresh
  <2> QED
    BY <1>1, <2>1 DEF Connect, TimerInv, EventHasTimer, OpenHasTimer,
       RegisteredHasTimer, TimerOfFd, HeapAlive, BatchOver
<1>2. ASSUME NEW c \in Conns, Send(c) \/ Hangup(c) PROVE TimerInv'
  BY <1>2, TimerFrame DEF Send, Hangup
<1>3. CASE Elapse \/ SigAlarm \/ SigTerm
  BY <1>3, TimerFrame DEF Elapse, SigAlarm, SigTerm
<1> QED
  BY <1>1, <1>2, <1>3 DEF Client

\* The workers re-arm or close descriptors, and leave the timers alone.
LEMMA TimerWork ==
    ASSUME TypeOK, TimerInv, NEW w \in Workers, Work(w) PROVE TimerInv'
<1> USE DEF kernelVars, clientVars, signalVars, loopVars, batchVars, timerVars,
            objVars, countVars, poolVars
<1>1. CASE Take(w) \/ process_read(w) \/ process_write(w) \/ ClearSockfd(w)
           \/ StoreCount(w)
  BY <1>1, TimerFrame DEF Take, process_read, process_write, ClearSockfd,
                          StoreCount
<1>2. CASE Rearm(w)
  <2>1. \A fd \in Fds : interest'[fd] # "absent" => interest[fd] # "absent"
    BY <1>2 DEF Rearm, modfd, TypeOK
  <2> QED
    BY <1>2, <2>1, TimerFrame DEF Rearm
<1>3. CASE close_conn(w)
  <2>1. CASE m_sockfd[worker[w].fd] = None
    BY <1>3, <2>1, TimerFrame DEF close_conn
  <2>2. CASE m_sockfd[worker[w].fd] # None
    <3>1. \A fd \in Fds : /\ interest'[fd] # "absent" => interest[fd] # "absent"
                          /\ sock'[fd] # None => sock'[fd] = sock[fd]
      BY <1>3, <2>2 DEF close_conn, removefd, TypeOK
    <3>2. UNCHANGED <<backlog, arrived, mpc, events, heap, freed, user_data,
                      timer>>
      BY <1>3 DEF close_conn
    <3> QED
      BY <3>1, <3>2 DEF TimerInv, EventHasTimer, OpenHasTimer,
         RegisteredHasTimer, TimerOfFd, HeapAlive, BacklogFresh, BatchOver
  <2> QED
    BY <2>1, <2>2
<1> QED
  BY <1>1, <1>2, <1>3 DEF Work

\* The main loop: accept covers the new descriptor, the handlers and tick
\* remove a timer together with its descriptor.
LEMMA TimerMain == ASSUME TypeOK, TimerInv, Main PROVE TimerInv'
<1> USE DEF kernelVars, clientVars, signalVars, loopVars, batchVars, timerVars,
            objVars, countVars, poolVars
<1>1. CASE epoll_wait
  <2>1. PICK W \in SUBSET {fd \in Fds : interest[fd] = "OUT"} :
            events' = [fd \in Fds |-> ReportedEvent(fd, fd \in W)]
    BY <1>1 DEF epoll_wait
  <2>2. \A fd \in Fds : events'[fd] # "none" => interest[fd] # "absent"
    BY <2>1, ReportedEventType
  <2>3. \A fd \in Fds : interest'[fd] # "absent" => interest[fd] # "absent"
    BY <1>1, <2>2 DEF epoll_wait, OneShot
  <2>4. mpc' = "batch" /\ UNCHANGED <<backlog, sock, arrived, heap, freed,
                                      user_data, timer>>
    BY <1>1 DEF epoll_wait
  <2>5. EventHasTimer'
    BY <2>2, <2>4
    DEF TimerInv, EventHasTimer, RegisteredHasTimer, HeapAlive
  <2> QED
    BY <2>3, <2>4, <2>5 DEF TimerInv, OpenHasTimer,
       RegisteredHasTimer, TimerOfFd, HeapAlive, BacklogFresh, BatchOver
<1>2. CASE HandleListen \/ EndBatch
  BY <1>2 DEF HandleListen, EndBatch, BatchDone, LoopTop,
     TimerInv, EventHasTimer, OpenHasTimer,
     RegisteredHasTimer, TimerOfFd, HeapAlive, BacklogFresh, BatchOver
<1>3. CASE AcceptEnds
  <2>1. BacklogFresh'
    <3>1. /\ backlog \in Seq(Conns)
          /\ backlog' = backlog \/ (backlog # <<>> /\ backlog' = Tail(backlog))
          /\ UNCHANGED <<arrived, heap, freed, timer>>
      BY <1>3 DEF TypeOK, AcceptEnds, AcceptError, show_error
    <3>2. CASE backlog' = backlog
      BY <3>1, <3>2 DEF TimerInv, BacklogFresh
    <3>3. CASE backlog # <<>> /\ backlog' = Tail(backlog)
      <4>1. /\ Len(backlog') = Len(backlog) - 1
            /\ \A i \in 1..Len(backlog') : /\ backlog'[i] = backlog[i + 1]
                                           /\ i + 1 \in 1..Len(backlog)
        BY <3>1, <3>3
      <4>2. Len(backlog) \in Nat /\ Len(backlog') \in Nat
        BY <3>1, <3>3
      <4>3. \A i, j \in 1..Len(backlog') : backlog'[i] = backlog'[j] => i = j
        <5> TAKE i, j \in 1..Len(backlog')
        <5>1. backlog[i + 1] = backlog[j + 1] => i + 1 = j + 1
          BY <4>1 DEF TimerInv, BacklogFresh
        <5> QED
          BY <4>1, <4>2, <5>1
      <4>4. \A i \in 1..Len(backlog') :
                /\ backlog'[i] \in arrived' /\ backlog'[i] \notin heap' \cup freed'
                /\ \A fd \in Fds : timer'[fd] # backlog'[i]
        BY <3>1, <4>1, SMTT(30) DEF TimerInv, BacklogFresh
      <4> QED
        BY <4>3, <4>4 DEF BacklogFresh
    <3> QED
      BY <3>1, <3>2, <3>3
  <2> QED
    BY <1>3, <2>1 DEF AcceptEnds, TimerInv, EventHasTimer, OpenHasTimer,
       RegisteredHasTimer, TimerOfFd, HeapAlive, BatchOver
<1>4. CASE HandlePipe
  BY <1>4, TimerFrame DEF HandlePipe
<1>5. CASE TickEnds
  BY <1>5 DEF TickEnds, LoopTop, TimerInv, EventHasTimer, OpenHasTimer,
     RegisteredHasTimer, TimerOfFd, HeapAlive, BacklogFresh, BatchOver
<1>6. CASE Cleanup \/ Return
  <2>1. /\ mpc \notin {"batch", "accept"}
        /\ UNCHANGED <<arrived, events, heap, freed, user_data, timer>>
        /\ \A fd \in Fds : /\ interest'[fd] # "absent" => interest[fd] # "absent"
                           /\ sock'[fd] # None => sock'[fd] = sock[fd]
        /\ backlog' \in {backlog, <<>>}
    BY <1>6 DEF Cleanup, Return
  <2>2. BacklogFresh'
    BY <2>1 DEF TimerInv, BacklogFresh
  <2> QED
    BY <2>1, <2>2 DEF TimerInv, EventHasTimer, OpenHasTimer,
       RegisteredHasTimer, TimerOfFd, HeapAlive, BatchOver
<1>7. ASSUME NEW fd \in Fds, accept(fd) PROVE TimerInv'
  <2> DEFINE c == Head(backlog)
  <2>1. /\ backlog \in Seq(Conns) /\ backlog # <<>>
        /\ backlog' = Tail(backlog) /\ c = backlog[1] /\ c \in Conns
        /\ heap' = heap \cup {c} /\ UNCHANGED <<freed, arrived, events, mpc>>
    BY <1>7 DEF TypeOK, accept, new_timer
  <2>2. /\ 1 \in 1..Len(backlog) /\ Len(backlog') = Len(backlog) - 1
        /\ \A i \in 1..Len(backlog') : /\ backlog'[i] = backlog[i + 1]
                                       /\ i + 1 \in 1..Len(backlog) /\ i + 1 # 1
    BY <2>1
  <2>3. c \in arrived \ (heap \cup freed) /\ \A g \in Fds : timer[g] # c
    BY <2>1, <2>2 DEF TimerInv, BacklogFresh
  <2>4. /\ timer'[fd] = c /\ user_data'[c] = fd
        /\ \A g \in Fds : g # fd => timer'[g] = timer[g]
        /\ \A d \in Conns : d # c => user_data'[d] = user_data[d]
    BY <1>7, <2>1 DEF TypeOK, accept, new_timer
  <2>5. \A g \in Fds : g # fd => sock'[g] = sock[g] /\ interest'[g] = interest[g]
    BY <1>7 DEF TypeOK, accept, new_timer
  <2>6. heap \subseteq Conns /\ \A g \in Fds : timer[g] \in Conns \cup {None}
    BY DEF TypeOK
  <2> HIDE DEF c
  <2>7. BacklogFresh'
    BY <2>1, <2>2, <2>3, <2>4 DEF TimerInv, BacklogFresh
  <2>8. HeapAlive' /\ BatchOver'
    <3>1. \A d \in heap' : user_data'[d] \in Fds
      BY <2>1, <2>4, <2>6 DEF TimerInv, HeapAlive
    <3>2. heap' \cap freed' = {} /\ heap' \cup freed' \subseteq arrived'
      BY <2>1, <2>3 DEF TimerInv, HeapAlive
    <3>3. \A g \in Fds : timer'[g] # None => timer'[g] \in arrived'
      BY <2>1, <2>3, <2>4 DEF TimerInv, HeapAlive
    <3> QED
      BY <2>1, <3>1, <3>2, <3>3 DEF TimerInv, HeapAlive, BatchOver
  <2>9. TimerOfFd'
    <3> SUFFICES ASSUME NEW g \in Fds, timer'[g] # None
                 PROVE  user_data'[timer'[g]] = g
      BY DEF TimerOfFd
    <3>1. CASE g = fd
      BY <3>1, <2>4
    <3>2. CASE g # fd
      BY <3>2, <2>3, <2>4, <2>6 DEF TimerInv, TimerOfFd
    <3> QED
      BY <3>1, <3>2
  <2>11. RegisteredHasTimer'
    BY <2>1, <2>4, <2>5 DEF TimerInv, RegisteredHasTimer
  <2>12. OpenHasTimer'
    BY <2>1, <2>4, <2>5, <2>9, <2>6, ReactorAssumption
    DEF TimerInv, TimerOfFd, OpenHasTimer
  <2>10. EventHasTimer'
    BY <2>1, <2>3, <2>4 DEF TimerInv, EventHasTimer
  <2> QED
    BY <2>7, <2>8, <2>9, <2>10, <2>11, <2>12 DEF TimerInv
<1>8. ASSUME NEW fd \in Fds,
             HandleHup(fd) \/ ReadFails(fd) \/ WriteFails(fd)
      PROVE  TimerInv'
  <2>1. events[fd] # "none" /\ events' = [events EXCEPT ![fd] = "none"]
    BY <1>8 DEF HandleHup, ReadFails, WriteFails, Handling
  <2>2. timer[fd] \in heap /\ user_data[timer[fd]] = fd
    BY <2>1, ReactorAssumption DEF TimerInv, EventHasTimer, TimerOfFd, TypeOK
  <2>3. removefd(fd) /\ heap' = heap \ {timer[fd]}
        /\ UNCHANGED <<backlog, arrived, mpc, freed, user_data, timer>>
    BY <1>8 DEF HandleHup, ReadFails, WriteFails, Handling, CloseByMain,
                cb_func, del_timer
  <2> QED
    BY <2>1, <2>2, <2>3, TimerClosed
<1>9. ASSUME NEW fd \in Fds,
             ReadSucceeds(fd) \/ WriteDone(fd) \/ WriteBlocks(fd)
      PROVE  TimerInv'
  <2>1. events[fd] # "none" /\ events' = [events EXCEPT ![fd] = "none"]
        /\ UNCHANGED <<backlog, sock, arrived, mpc, freed, user_data, timer>>
        /\ heap' = heap \cup {timer[fd]}
    BY <1>9 DEF ReadSucceeds, WriteDone, WriteBlocks, Handling, adjust_timer
  <2>2. heap' = heap
    BY <2>1 DEF TimerInv, EventHasTimer
  <2>3. \A g \in Fds : interest'[g] # "absent" => interest[g] # "absent"
    BY <1>9 DEF ReadSucceeds, WriteDone, WriteBlocks, modfd, TypeOK
  <2>4. \A g \in Fds : events'[g] # "none" => events[g] # "none"
    BY <2>1 DEF TypeOK
  <2> HIDE DEF modfd
  <2> QED
    BY <2>1, <2>2, <2>3, <2>4 DEF TimerInv, EventHasTimer, OpenHasTimer,
       RegisteredHasTimer, TimerOfFd, HeapAlive, BacklogFresh, BatchOver
<1>10. ASSUME NEW c \in Conns, tick(c) PROVE TimerInv'
  <2>1. /\ c \in heap /\ mpc = "tick" /\ heap' = heap \ {c}
        /\ freed' = freed \cup {c} /\ removefd(user_data[c])
        /\ UNCHANGED <<backlog, arrived, mpc, events, user_data, timer>>
    BY <1>10 DEF tick, cb_func
  <2>2. user_data[c] \in Fds
    BY <2>1 DEF TimerInv, HeapAlive
  <2>3. events' = [events EXCEPT ![user_data[c]] = "none"]
    BY <2>1, <2>2 DEF TimerInv, BatchOver, TypeOK
  <2> QED
    BY <2>1, <2>2, <2>3, TimerClosed
<1> QED
  BY <1>1, <1>2, <1>3, <1>4, <1>5, <1>6, <1>7, <1>8, <1>9, <1>10 DEF Main

\* There is no timer, no event and no open descriptor in the beginning.
LEMMA TimerInitially == Init => TypeOK /\ TimerInv
<1> SUFFICES ASSUME Init PROVE TypeOK /\ TimerInv
  OBVIOUS
<1>1. worker \in [Workers -> WorkerState]
      /\ \A w \in Workers : worker[w].pc = "idle"
  BY DEF Init, Idle, WorkerState
<1>4. backlog \in Seq(Conns) /\ queue \in Seq(Fds)
  BY DEF Init
<1>5. /\ sock \in [Fds -> Conns \cup {None}]
      /\ interest \in [Fds -> {"absent", "disabled", "IN", "OUT"}]
      /\ events \in [Fds -> {"none", "HUP", "IN", "OUT"}]
  BY DEF Init
<1>6. /\ sends \in [Conns -> Nat] /\ ttl \in [Conns -> Nat]
      /\ user_data \in [Conns -> Fds \cup {None}]
      /\ timer \in [Fds -> Conns \cup {None}]
      /\ m_sockfd \in [Fds -> Fds \cup {None}]
      /\ rbuf \in [Fds -> Conns \cup {None}]
      /\ wbuf \in [Fds -> Conns \cup {None}]
  BY DEF Init
<1>7. /\ edge \in BOOLEAN /\ alarm \in BOOLEAN
      /\ listenEv \in BOOLEAN /\ pipeEv \in BOOLEAN
      /\ timeout \in BOOLEAN /\ stop_server \in BOOLEAN
  BY DEF Init
<1>8. /\ arrived \subseteq Conns /\ unread \subseteq Conns /\ hup \subseteq Conns
      /\ sigpipe \subseteq {"SIGALRM", "SIGTERM"} /\ mpc = "wait"
      /\ heap \subseteq Conns /\ freed \subseteq Conns /\ m_user_count \in Int
  BY DEF Init
<1>9. /\ skipped \in BOOLEAN /\ miscounted \in BOOLEAN
      /\ orphans \subseteq Conns /\ reused \subseteq Fds
  BY DEF Init
<1>2. TypeOK
  BY <1>1, <1>4, <1>5, <1>6, <1>7, <1>8, <1>9 DEF TypeOK
<1>3. TimerInv
  BY ReactorAssumption
  DEF Init, TimerInv, EventHasTimer, OpenHasTimer, RegisteredHasTimer,
      TimerOfFd, HeapAlive, BacklogFresh, BatchOver
<1> QED
  BY <1>2, <1>3

\* Types and timers together are preserved by every step.
LEMMA TimerInductive == TypeOK /\ TimerInv /\ [Next]_vars => TypeOK' /\ TimerInv'
<1> SUFFICES ASSUME TypeOK, TimerInv, [Next]_vars PROVE TypeOK' /\ TimerInv'
  OBVIOUS
<1>1. CASE UNCHANGED vars
  <2> USE <1>1 DEF vars, kernelVars, clientVars, signalVars, loopVars,
                   batchVars, timerVars, objVars, countVars, poolVars
  <2>1. TypeOK'
    BY DEF TypeOK
  <2>2. TimerInv'
    BY TimerFrame
  <2> QED
    BY <2>1, <2>2
<1>2. CASE (\E c \in Conns : Client(c)) \/ Elapse \/ SigAlarm \/ SigTerm
  BY <1>2, EnvType, TimerEnv
<1>3. CASE Main
  <2>1. EventHasTimer /\ \A c \in heap : user_data[c] \in Fds
    BY DEF TimerInv, HeapAlive
  <2> QED
    BY <1>3, <2>1, MainType, TimerMain
<1>4. ASSUME NEW w \in Workers, Work(w) PROVE TypeOK' /\ TimerInv'
  BY <1>4, WorkType, TimerWork
<1> QED
  BY <1>1, <1>2, <1>3, <1>4 DEF Next

\* Every reachable state of the server has the types of TypeOK.  That the heap
\* holds timers only needs the timer invariant: adjust_timer adds whatever
\* users_timer[sockfd].timer points to.
THEOREM ReactorTypeOK == Spec => []TypeOK
<1>1. Init => TypeOK /\ TimerInv
  BY TimerInitially
<1>2. TypeOK /\ TimerInv /\ [Next]_vars => (TypeOK /\ TimerInv)'
  BY TimerInductive
<1> QED
  BY <1>1, <1>2, PTL DEF Spec

\* The handlers of the main loop never follow a dangling or missing timer
\* pointer, for every number of connections, descriptors and workers, with
\* workers that close connections behind main's back and are arbitrarily slow.
THEOREM EventTimerSafe == Spec => []EventHasTimer
<1>1. Init => TypeOK /\ TimerInv
  BY TimerInitially
<1>2. TypeOK /\ TimerInv /\ [Next]_vars => (TypeOK /\ TimerInv)'
  BY TimerInductive
<1>3. TimerInv => EventHasTimer
  BY DEF TimerInv
<1> QED
  BY <1>1, <1>2, <1>3, PTL DEF Spec

\* No open connection is ever without a timer that will close it.
THEOREM OpenTimerSafe == Spec => []OpenHasTimer
<1>1. Init => TypeOK /\ TimerInv
  BY TimerInitially
<1>2. TypeOK /\ TimerInv /\ [Next]_vars => (TypeOK /\ TimerInv)'
  BY TimerInductive
<1>3. TimerInv => OpenHasTimer
  BY DEF TimerInv
<1> QED
  BY <1>1, <1>2, <1>3, PTL DEF Spec
-----------------------------------------------------------------------------
(* Whose the timers are.                                                    *)

\* The timer of an open descriptor is the one of the connection open there, and
\* every timer in the heap is such a timer or an orphan.
OwnTimer ==
    /\ \A fd \in Fds : sock[fd] # None => timer[fd] = sock[fd]
    /\ Running => \A c \in heap \ orphans : sock[user_data[c]] = c

\* The types in the form in which the steps below use them.
Typed ==
    /\ sock \in [Fds -> Conns \cup {None}]
    /\ interest \in [Fds -> {"absent", "disabled", "IN", "OUT"}]
    /\ events \in [Fds -> {"none", "HUP", "IN", "OUT"}]
    /\ timer \in [Fds -> Conns \cup {None}] /\ heap \subseteq Conns
    /\ ttl \in [Conns -> Nat] /\ user_data \in [Conns -> Fds \cup {None}]
    /\ rbuf \in [Fds -> Conns \cup {None}] /\ wbuf \in [Fds -> Conns \cup {None}]
    /\ \A i \in DOMAIN queue : queue[i] \in Fds
    /\ \A w \in Workers : worker[w].fd \in Fds \cup {None}
    /\ m_user_count \in Int
    /\ None \notin Fds /\ None \notin Conns

\* They follow from TypeOK.
LEMMA TypedState == ASSUME TypeOK PROVE Typed
<1>1. \A w \in Workers : worker[w].fd \in Fds \cup {None}
  BY DEF TypeOK, WorkerState
<1>2. \A i \in DOMAIN queue : queue[i] \in Fds
  <2>1. queue \in Seq(Fds)
    BY DEF TypeOK
  <2> QED
    BY <2>1
<1> QED
  BY <1>1, <1>2, ReactorAssumption DEF Typed, TypeOK

\* The connection that accept takes from the backlog has no timer yet.
LEMMA AcceptsFresh ==
    ASSUME TypeOK, TimerInv, NEW fd \in Fds, accept(fd)
    PROVE  /\ Head(backlog) \in Conns /\ Head(backlog) \notin heap
           /\ \A g \in Fds : timer[g] # Head(backlog)
<1>1. backlog \in Seq(Conns) /\ backlog # <<>>
  BY DEF TypeOK, accept
<1>2. /\ 1 \in 1..Len(backlog) /\ Head(backlog) = backlog[1]
      /\ Head(backlog) \in Conns
  BY <1>1
<1> QED
  BY <1>2 DEF TimerInv, BacklogFresh

\* A step that touches neither timers nor open descriptors.
LEMMA OwnElsewhere ==
    ASSUME OwnTimer, UNCHANGED <<sock, timer, heap, user_data, orphans>>,
           mpc = "done" => mpc' = "done"
    PROVE  OwnTimer'
  BY DEF OwnTimer, Running

\* A new connection gets a new timer.
LEMMA OwnAccept ==
    ASSUME TypeOK, TimerInv, OwnTimer, NEW fd \in Fds, accept(fd)
    PROVE  OwnTimer'
<1>t. Typed
  BY TypedState
<1> USE <1>t DEF Typed
<1> DEFINE c == Head(backlog)
<1>c. c \in Conns /\ c \notin heap /\ \A g \in Fds : timer[g] # c
  BY AcceptsFresh
<1>e. /\ sock[fd] = None /\ mpc = "accept" /\ mpc' = mpc
      /\ sock' = [sock EXCEPT ![fd] = c]
      /\ user_data' = [user_data EXCEPT ![c] = fd]
      /\ timer' = [timer EXCEPT ![fd] = c] /\ heap' = heap \cup {c}
      /\ orphans' = orphans
  BY DEF accept, new_timer, loopVars
<1> HIDE DEF c
<1>1. \A g \in Fds : sock'[g] # None => timer'[g] = sock'[g]
  BY <1>e DEF OwnTimer
<1>2. ASSUME NEW d \in heap' \ orphans' PROVE sock'[user_data'[d]] = d
  <2>1. CASE d = c
    BY <1>c, <1>e, <2>1
  <2>2. CASE d # c
    <3>1. /\ d \in heap \ orphans /\ d \in Conns
          /\ user_data'[d] = user_data[d]
      BY <1>e, <1>2, <2>2
    <3>2. sock[user_data[d]] = d
      BY <1>e, <3>1 DEF OwnTimer, Running
    <3>3. user_data[d] \in Fds /\ user_data[d] # fd
      BY <1>e, <3>1, <3>2 DEF TimerInv, HeapAlive
    <3> QED
      BY <1>e, <3>1, <3>2, <3>3
  <2> QED
    BY <2>1, <2>2
<1> QED
  BY <1>1, <1>2 DEF OwnTimer

\* A descriptor is closed; the timer of the connection that was open there
\* leaves the heap or becomes an orphan.
LEMMA OwnClose ==
    ASSUME Typed, TimerInv, OwnTimer, NEW fd \in Fds, Running, removefd(fd),
           heap' \subseteq heap, orphans \subseteq orphans',
           sock[fd] # None => sock[fd] \notin heap' \ orphans',
           UNCHANGED <<user_data, timer>>
    PROVE  OwnTimer'
<1> USE DEF Typed
<1>e. sock' = [sock EXCEPT ![fd] = None]
  BY DEF removefd
<1>1. \A g \in Fds : sock'[g] # None => timer'[g] = sock'[g]
  BY <1>e DEF OwnTimer
<1>2. ASSUME NEW d \in heap' \ orphans' PROVE sock'[user_data'[d]] = d
  <2>1. d \in heap \ orphans /\ d \in Conns /\ user_data[d] \in Fds
    BY <1>2 DEF TimerInv, HeapAlive
  <2>2. sock[user_data[d]] = d
    BY <2>1 DEF OwnTimer
  <2>3. user_data[d] # fd
    BY <1>2, <2>1, <2>2
  <2> QED
    BY <1>e, <2>1, <2>2, <2>3
<1> QED
  BY <1>1, <1>2 DEF OwnTimer

\* Every step keeps the owners of the timers.
LEMMA OwnStep ==
    ASSUME TypeOK, TimerInv, OwnTimer, Next PROVE OwnTimer'
<1> USE DEF kernelVars, clientVars, signalVars, loopVars, batchVars, timerVars,
            objVars, countVars, poolVars
<1>t. Typed
  BY TypedState
<1>1. ASSUME (\E c \in Conns : Client(c)) \/ Elapse \/ SigAlarm \/ SigTerm
      PROVE  OwnTimer'
  BY <1>1, OwnElsewhere
  DEF Client, Connect, Send, Hangup, Elapse, SigAlarm, SigTerm
<1>2. ASSUME epoll_wait \/ HandleListen \/ AcceptEnds \/ HandlePipe \/ Cleanup
      PROVE  OwnTimer'
  BY <1>2, OwnElsewhere
  DEF epoll_wait, HandleListen, AcceptEnds, HandlePipe, Cleanup
<1>3. ASSUME EndBatch \/ TickEnds PROVE OwnTimer'
  BY <1>3, OwnElsewhere DEF EndBatch, BatchDone, TickEnds
<1>4. ASSUME Return PROVE OwnTimer'
  BY <1>4 DEF Return, OwnTimer, Running
<1>5. ASSUME NEW fd \in Fds, HandleHup(fd) \/ ReadFails(fd) \/ WriteFails(fd)
      PROVE  OwnTimer'
  <2>1. /\ mpc = "batch" /\ removefd(fd) /\ heap' = heap \ {timer[fd]}
        /\ UNCHANGED <<user_data, timer, orphans>>
    BY <1>5 DEF HandleHup, ReadFails, WriteFails, Handling, CloseByMain,
       cb_func, del_timer
  <2>2. Running /\ (sock[fd] # None => timer[fd] = sock[fd])
    BY <2>1 DEF Running, OwnTimer
  <2> QED
    BY <1>t, <2>1, <2>2, OwnClose
<1>6. ASSUME NEW fd \in Fds,
             ReadSucceeds(fd) \/ WriteDone(fd) \/ WriteBlocks(fd)
      PROVE  OwnTimer'
  <2>1. /\ events[fd] # "none" /\ heap' = heap \cup {timer[fd]}
        /\ UNCHANGED <<sock, timer, user_data, orphans, mpc>>
    BY <1>6 DEF ReadSucceeds, WriteDone, WriteBlocks, Handling, adjust_timer
  <2>2. heap' = heap
    BY <2>1 DEF TimerInv, EventHasTimer
  <2> QED
    BY <2>1, <2>2, OwnElsewhere
<1>7. ASSUME NEW c \in Conns, tick(c) PROVE OwnTimer'
  <2>1. /\ mpc = "tick" /\ c \in heap /\ removefd(user_data[c])
        /\ heap' = heap \ {c}
        /\ orphans' = orphans \cup ({sock[user_data[c]]} \ {c, None})
        /\ UNCHANGED <<user_data, timer>>
    BY <1>7 DEF tick, cb_func
  <2>2. user_data[c] \in Fds /\ Running
    BY <2>1 DEF TimerInv, HeapAlive, Running
  <2> QED
    BY <1>t, <2>1, <2>2, OwnClose
<1>8. ASSUME NEW w \in Workers, close_conn(w) PROVE OwnTimer'
  <2>1. CASE m_sockfd[worker[w].fd] = None
    BY <1>8, <2>1, OwnElsewhere DEF close_conn
  <2>2. CASE m_sockfd[worker[w].fd] # None
    <3>1. /\ removefd(worker[w].fd) /\ Running /\ worker[w].pc = "close"
          /\ orphans' = orphans \cup ({sock[worker[w].fd]} \ {None})
          /\ UNCHANGED <<heap, user_data, timer>>
      BY <1>8, <2>2 DEF close_conn, At
    <3>2. worker[w].fd \in Fds
      BY <3>1 DEF TypeOK
    <3> QED
      BY <1>t, <3>1, <3>2, OwnClose
  <2> QED
    BY <2>1, <2>2
<1>9. ASSUME NEW w \in Workers, Work(w) PROVE OwnTimer'
  BY <1>8, <1>9, OwnElsewhere DEF Work, Take, process_read, process_write,
     ClearSockfd, StoreCount, Rearm
<1>10. ASSUME Main PROVE OwnTimer'
  BY <1>10, <1>2, <1>3, <1>4, <1>5, <1>6, <1>7, OwnAccept DEF Main
<1> QED
  BY <1>1, <1>9, <1>10 DEF Next
-----------------------------------------------------------------------------
(* The steps of a worker.                                                   *)

\* Worker w goes on to p with descriptor f and request r.
Moves(w, p, f, r) ==
    /\ worker'[w].pc = p /\ worker'[w].fd = f /\ worker'[w].req = r
    /\ \A v \in Workers : v # w => worker'[v] = worker[v]

\* What each step does to the worker's record.
LEMMA WorkMoves ==
    ASSUME TypeOK, NEW w \in Workers
    PROVE  /\ Take(w) => Moves(w, "read", Head(queue), None)
           /\ process_read(w) =>
                 \/ Moves(w, "modfd", worker[w].fd, worker[w].req)
                 \/ /\ rbuf[worker[w].fd] # None
                    /\ Moves(w, "write", worker[w].fd, rbuf[worker[w].fd])
           /\ process_write(w) =>
                 /\ \E p \in {"modfd", "close"} :
                       Moves(w, p, worker[w].fd, worker[w].req)
                 /\ \/ wbuf' = wbuf
                    \/ wbuf' = [wbuf EXCEPT ![worker[w].fd] = worker[w].req]
           /\ close_conn(w) =>
                 IF m_sockfd[worker[w].fd] # None
                 THEN Moves(w, "clear", worker[w].fd, worker[w].req)
                 ELSE Moves(w, "modfd", worker[w].fd, worker[w].req)
           /\ ClearSockfd(w) => Moves(w, "count", worker[w].fd, worker[w].req)
           /\ StoreCount(w) => Moves(w, "modfd", worker[w].fd, worker[w].req)
           /\ Rearm(w) => Moves(w, "idle", None, None)
<1>0. worker \in [Workers -> WorkerState] /\ worker[w] \in WorkerState
  BY DEF TypeOK
<1>1. ASSUME NEW r, worker' = [worker EXCEPT ![w] = r]
      PROVE  Moves(w, r.pc, r.fd, r.req)
  BY <1>0, <1>1 DEF Moves
<1>2. ASSUME Take(w) PROVE Moves(w, "read", Head(queue), None)
  BY <1>0, <1>2 DEF Take, Serve, Moves
<1>3. ASSUME Rearm(w) PROVE Moves(w, "idle", None, None)
  BY <1>0, <1>3 DEF Rearm, Idle, Moves
<1>4. ASSUME NEW p, NEW e, worker' = [worker EXCEPT ![w].pc = p, ![w].ev = e]
      PROVE  Moves(w, p, worker[w].fd, worker[w].req)
  <2> DEFINE r == [worker[w] EXCEPT !.pc = p, !.ev = e]
  <2>1. r.pc = p /\ r.fd = worker[w].fd /\ r.req = worker[w].req
    BY <1>0 DEF WorkerState
  <2>2. worker' = [worker EXCEPT ![w] = r]
    BY <1>0, <1>4
  <2> QED
    BY <1>0, <2>1, <2>2 DEF Moves
<1>5. ASSUME NEW q, worker' = [worker EXCEPT ![w].pc = "write", ![w].req = q]
      PROVE  Moves(w, "write", worker[w].fd, q)
  <2> DEFINE r == [worker[w] EXCEPT !.pc = "write", !.req = q]
  <2>1. r.pc = "write" /\ r.fd = worker[w].fd /\ r.req = q
    BY <1>0 DEF WorkerState
  <2>2. worker' = [worker EXCEPT ![w] = r]
    BY <1>0, <1>5
  <2> QED
    BY <1>0, <2>1, <2>2 DEF Moves
<1>6. ASSUME NEW p, NEW n, worker' = [worker EXCEPT ![w].pc = p, ![w].count = n]
      PROVE  Moves(w, p, worker[w].fd, worker[w].req)
  <2> DEFINE r == [worker[w] EXCEPT !.pc = p, !.count = n]
  <2>1. r.pc = p /\ r.fd = worker[w].fd /\ r.req = worker[w].req
    BY <1>0 DEF WorkerState
  <2>2. worker' = [worker EXCEPT ![w] = r]
    BY <1>0, <1>6
  <2> QED
    BY <1>0, <2>1, <2>2 DEF Moves
<1>7. ASSUME NEW p, worker' = [worker EXCEPT ![w].pc = p]
      PROVE  Moves(w, p, worker[w].fd, worker[w].req)
  <2> DEFINE r == [worker[w] EXCEPT !.pc = p]
  <2>1. r.pc = p /\ r.fd = worker[w].fd /\ r.req = worker[w].req
    BY <1>0 DEF WorkerState
  <2>2. worker' = [worker EXCEPT ![w] = r]
    BY <1>0, <1>7
  <2> QED
    BY <1>0, <2>1, <2>2 DEF Moves
<1>8. ASSUME process_read(w)
      PROVE  \/ Moves(w, "modfd", worker[w].fd, worker[w].req)
             \/ /\ rbuf[worker[w].fd] # None
                /\ Moves(w, "write", worker[w].fd, rbuf[worker[w].fd])
  BY <1>4, <1>5, <1>8 DEF process_read
<1>9. ASSUME process_write(w)
      PROVE  /\ \E p \in {"modfd", "close"} :
                   Moves(w, p, worker[w].fd, worker[w].req)
             /\ \/ wbuf' = wbuf
                \/ wbuf' = [wbuf EXCEPT ![worker[w].fd] = worker[w].req]
  BY <1>4, <1>9 DEF process_write
<1>10. ASSUME close_conn(w)
       PROVE  IF m_sockfd[worker[w].fd] # None
              THEN Moves(w, "clear", worker[w].fd, worker[w].req)
              ELSE Moves(w, "modfd", worker[w].fd, worker[w].req)
  BY <1>7, <1>10 DEF close_conn
<1>11. ASSUME ClearSockfd(w)
       PROVE  Moves(w, "count", worker[w].fd, worker[w].req)
  BY <1>6, <1>11 DEF ClearSockfd
<1>12. ASSUME StoreCount(w)
       PROVE  Moves(w, "modfd", worker[w].fd, worker[w].req)
  BY <1>6, <1>12 DEF StoreCount
<1> QED
  BY <1>2, <1>3, <1>8, <1>9, <1>10, <1>11, <1>12
-----------------------------------------------------------------------------
(* Whose the descriptors are.                                               *)

\* An idle worker has no descriptor, the others have one.
Hands == \A w \in Workers : worker[w].fd = None <=> worker[w].pc = "idle"

\* A descriptor that is not open is not registered, and none is registered once
\* main has left the loop.
ClosedQuiet ==
    /\ \A fd \in Fds : sock[fd] = None => interest[fd] = "absent"
    /\ mpc \in {"freed", "done"} => \A fd \in Fds : interest[fd] = "absent"

\* No descriptor is in two hands, unless it was reused.
NotInTwo ==
    /\ \A i, j \in DOMAIN queue :
          queue[i] \notin reused /\ queue[i] = queue[j] => i = j
    /\ \A v, w \in Workers :
          worker[v].fd = worker[w].fd /\ v # w =>
              worker[v].fd \in reused \cup {None}
    /\ \A i \in DOMAIN queue : queue[i] \notin reused =>
          /\ \A w \in Workers : worker[w].fd # queue[i]
          /\ events[queue[i]] = "none"
          /\ interest[queue[i]] \notin {"IN", "OUT"}
    /\ \A w \in Workers : worker[w].fd \notin reused \cup {None} =>
          /\ events[worker[w].fd] = "none"
          /\ interest[worker[w].fd] \notin {"IN", "OUT"}
    /\ \A fd \in Fds \ reused :
          events[fd] # "none" => interest[fd] \notin {"IN", "OUT"}

\* The buffers of an open descriptor, and the request a worker has parsed,
\* belong to the connection open there, unless it was reused.
OwnBytes ==
    /\ \A fd \in Fds \ reused :
          sock[fd] # None => {rbuf[fd], wbuf[fd]} \subseteq {None, sock[fd]}
    /\ \A w \in Workers :
          /\ worker[w].pc = "write" /\ worker[w].fd \in Fds \ reused
          /\ sock[worker[w].fd] # None
          => worker[w].req = sock[worker[w].fd]

\* The invariant, inductive together with TypeOK and TimerInv.
Calm == Hands /\ ClosedQuiet /\ NotInTwo /\ OwnBytes

\* No worker takes or gives up a descriptor or parses a request.
SameHands ==
    \A w \in Workers :
        /\ worker'[w].fd = worker[w].fd
        /\ worker'[w].pc = "idle" <=> worker[w].pc = "idle"
        /\ worker'[w].pc = "write" =>
               worker[w].pc = "write" /\ worker'[w].req = worker[w].req

\* A step that touches none of what Calm is about, inside the loop.
LEMMA CalmElsewhere ==
    ASSUME Calm, SameHands,
           UNCHANGED <<sock, interest, events, rbuf, wbuf, queue, reused>>,
           mpc' = mpc \/ (Running /\ mpc' \notin {"freed", "done"})
    PROVE  Calm'
<1>1. Hands' /\ NotInTwo'
  BY DEF Calm, Hands, NotInTwo, SameHands
<1>2. ClosedQuiet'
  BY DEF Calm, ClosedQuiet
<1>3. OwnBytes'
  BY DEF Calm, OwnBytes, SameHands
<1> QED
  BY <1>1, <1>2, <1>3 DEF Calm

\* epoll_wait moves descriptors from epoll to the batch.
LEMMA CalmWait == ASSUME Typed, Calm, BatchOver, epoll_wait PROVE Calm'
<1> USE DEF Typed
<1>e. /\ UNCHANGED <<sock, rbuf, wbuf, queue, worker, reused>>
      /\ mpc = "wait" /\ mpc' = "batch"
  BY DEF epoll_wait, objVars, poolVars
<1>1. PICK W \in SUBSET {fd \in Fds : interest[fd] = "OUT"} :
          events' = [fd \in Fds |-> ReportedEvent(fd, fd \in W)]
  BY DEF epoll_wait
<1>2. interest' = [fd \in Fds |-> OneShot(fd)]
  BY DEF epoll_wait
<1>3. \A fd \in Fds :
          /\ events[fd] = "none"
          /\ events'[fd] # "none" => /\ interest[fd] \in {"IN", "OUT"}
                                     /\ interest'[fd] = "disabled"
          /\ events'[fd] = "none" => interest'[fd] = interest[fd]
  BY <1>e, <1>1, <1>2, ReportedEventType DEF OneShot, BatchOver
<1>4. Hands' /\ OwnBytes'
  BY <1>e DEF Calm, Hands, OwnBytes
<1>5. ClosedQuiet'
  BY <1>e, <1>3 DEF Calm, ClosedQuiet
<1>7. NotInTwo'
  BY <1>e, <1>3 DEF Calm, NotInTwo
<1> QED
  BY <1>4, <1>5, <1>7 DEF Calm

\* accept: the new descriptor was in nobody's hand, or is noted as reused.
LEMMA CalmAccept ==
    ASSUME TypeOK, TimerInv, Calm, NEW fd \in Fds, accept(fd) PROVE Calm'
<1>t. Typed
  BY TypedState
<1> USE <1>t DEF Typed
<1> DEFINE c == Head(backlog)
<1>c. c \in Conns
  BY AcceptsFresh
<1>e. /\ mpc = "accept" /\ sock' = [sock EXCEPT ![fd] = c]
      /\ interest' = [interest EXCEPT ![fd] = "IN"]
      /\ rbuf' = [rbuf EXCEPT ![fd] = None] /\ wbuf' = [wbuf EXCEPT ![fd] = None]
      /\ UNCHANGED <<mpc, events, queue, worker>>
  BY DEF accept, init, loopVars, batchVars, poolVars
<1> HIDE DEF c
<1>r. \A g \in Fds : g # fd => (g \in reused' <=> g \in reused)
  BY DEF accept
<1>p. fd \notin reused' => /\ \A i \in DOMAIN queue : queue[i] # fd
                           /\ \A w \in Workers : worker[w].fd # fd
                           /\ events[fd] = "none"
  <2>1. fd \notin reused' => fd \notin InPool /\ events[fd] = "none"
    BY DEF accept
  <2> QED
    BY <2>1 DEF InPool, Calm, Hands
<1>1. Hands'
  BY <1>e DEF Calm, Hands
<1>2. ClosedQuiet'
  BY <1>c, <1>e DEF Calm, ClosedQuiet
<1>n. NotInTwo
  BY DEF Calm
<1>3. NotInTwo'
  <2>1. \A i, j \in DOMAIN queue' :
            queue'[i] \notin reused' /\ queue'[i] = queue'[j] => i = j
    BY <1>e, <1>p, <1>r, <1>n DEF NotInTwo
  <2>2. \A v, w \in Workers :
            worker'[v].fd = worker'[w].fd /\ v # w =>
                worker'[v].fd \in reused' \cup {None}
    BY <1>e, <1>p, <1>r, <1>n DEF NotInTwo
  <2>3. \A i \in DOMAIN queue' : queue'[i] \notin reused' =>
            /\ \A w \in Workers : worker'[w].fd # queue'[i]
            /\ events'[queue'[i]] = "none"
            /\ interest'[queue'[i]] \notin {"IN", "OUT"}
    BY <1>e, <1>p, <1>r, <1>n DEF NotInTwo
  <2>4. \A w \in Workers : worker'[w].fd \notin reused' \cup {None} =>
            /\ events'[worker'[w].fd] = "none"
            /\ interest'[worker'[w].fd] \notin {"IN", "OUT"}
    BY <1>e, <1>p, <1>r, <1>n DEF NotInTwo
  <2>5. \A f \in Fds \ reused' :
            events'[f] # "none" => interest'[f] \notin {"IN", "OUT"}
    BY <1>e, <1>p, <1>r, <1>n DEF NotInTwo
  <2> QED
    BY <2>1, <2>2, <2>3, <2>4, <2>5 DEF NotInTwo
<1>4. OwnBytes'
  <2>1. \A g \in Fds \ reused' :
            sock'[g] # None => {rbuf'[g], wbuf'[g]} \subseteq {None, sock'[g]}
    BY <1>e, <1>r DEF Calm, OwnBytes
  <2>2. ASSUME NEW w \in Workers, worker'[w].pc = "write",
               worker'[w].fd \in Fds \ reused', sock'[worker'[w].fd] # None
        PROVE  worker'[w].req = sock'[worker'[w].fd]
    BY <1>e, <1>p, <1>r, <2>2 DEF Calm, OwnBytes
  <2> QED
    BY <2>1, <2>2 DEF OwnBytes
<1> QED
  BY <1>1, <1>2, <1>3, <1>4 DEF Calm

\* A descriptor is closed, by whomever.
LEMMA CalmClose ==
    ASSUME Typed, Calm, NEW fd \in Fds, removefd(fd), SameHands,
           \A g \in Fds : events'[g] \in {"none", events[g]},
           \A g \in Fds : g # fd => rbuf'[g] = rbuf[g] /\ wbuf'[g] = wbuf[g],
           UNCHANGED <<mpc, queue, reused>>
    PROVE  Calm'
<1> USE DEF Typed
<1>e. /\ interest' = [interest EXCEPT ![fd] = "absent"]
      /\ sock' = [sock EXCEPT ![fd] = None]
  BY DEF removefd
<1>1. Hands'
  BY DEF Calm, Hands, SameHands
<1>2. ClosedQuiet'
  BY <1>e DEF Calm, ClosedQuiet
<1>i. \A g \in Fds : interest'[g] \in {"absent", interest[g]}
  BY <1>e
<1>3. NotInTwo'
  BY <1>i DEF Calm, NotInTwo, SameHands
<1>4. OwnBytes'
  BY <1>e DEF Calm, OwnBytes, SameHands
<1> QED
  BY <1>1, <1>2, <1>3, <1>4 DEF Calm

\* The handlers of a hang-up and of a failed read or write.
LEMMA CalmHandlerCloses ==
    ASSUME Typed, Calm, NEW fd \in Fds,
           HandleHup(fd) \/ ReadFails(fd) \/ WriteFails(fd)
    PROVE  Calm'
<1> USE DEF Typed
<1>e. /\ events' = [events EXCEPT ![fd] = "none"] /\ removefd(fd)
      /\ UNCHANGED <<mpc, queue, worker, reused>>
  BY DEF HandleHup, ReadFails, WriteFails, Handling, CloseByMain, cb_func,
         poolVars, objVars
<1>5. \A g \in Fds : g # fd => rbuf'[g] = rbuf[g]
  <2>1. \/ rbuf' = rbuf
        \/ \E c \in {sock[fd]} \cap unread : rbuf' = [rbuf EXCEPT ![fd] = c]
    BY DEF HandleHup, ReadFails, WriteFails, objVars
  <2> QED
    BY <2>1
<1>6. \A g \in Fds : g # fd => wbuf'[g] = wbuf[g]
  BY DEF HandleHup, ReadFails, WriteFails, objVars
<1>7. SameHands /\ \A g \in Fds : events'[g] \in {"none", events[g]}
  BY <1>e DEF SameHands
<1> QED
  BY <1>e, <1>5, <1>6, <1>7, CalmClose

\* EPOLLIN: from main's hand to the queue, or to nobody's if append refuses.
LEMMA CalmRead ==
    ASSUME TypeOK, Calm, NEW fd \in Fds, ReadSucceeds(fd) PROVE Calm'
<1>t. Typed
  BY TypedState
<1> USE <1>t DEF Typed
<1>e. /\ events[fd] # "none" /\ events' = [events EXCEPT ![fd] = "none"]
      /\ sock[fd] # None
      /\ rbuf' = rbuf \/ rbuf' = [rbuf EXCEPT ![fd] = sock[fd]]
      /\ UNCHANGED <<mpc, sock, interest, wbuf, worker, reused>>
  BY DEF ReadSucceeds, Handling, kernelVars
<1>2. fd \notin reused => /\ \A i \in DOMAIN queue : queue[i] # fd
                          /\ \A w \in Workers : worker[w].fd # fd
                          /\ interest[fd] \notin {"IN", "OUT"}
  BY <1>e DEF Calm, NotInTwo
<1>3. Hands' /\ ClosedQuiet'
  BY <1>e DEF Calm, Hands, ClosedQuiet
<1>5. OwnBytes'
  BY <1>e DEF Calm, OwnBytes
<1>6. ASSUME UNCHANGED queue PROVE NotInTwo'
  BY <1>e, <1>6 DEF Calm, NotInTwo
<1>7. ASSUME queue' = Append(queue, fd) PROVE NotInTwo'
  <2>q. PICK n : /\ n \notin DOMAIN queue /\ DOMAIN queue' = DOMAIN queue \cup {n}
                 /\ queue'[n] = fd
                 /\ \A i \in DOMAIN queue : queue'[i] = queue[i]
    <3>1. queue \in Seq(Fds)
      BY DEF TypeOK
    <3>2. /\ DOMAIN queue = 1 .. Len(queue) /\ Len(queue) \in Nat
          /\ DOMAIN queue' = 1 .. Len(queue) + 1
          /\ queue'[Len(queue) + 1] = fd
          /\ \A i \in 1 .. Len(queue) : queue'[i] = queue[i]
      BY <1>7, <3>1, AppendProperties, LenProperties
    <3>3. /\ Len(queue) + 1 \notin DOMAIN queue
          /\ DOMAIN queue' = DOMAIN queue \cup {Len(queue) + 1}
      BY ONLY <3>2
    <3> QED
      BY ONLY <3>2, <3>3
  <2>1. \A i, j \in DOMAIN queue' :
            queue'[i] \notin reused' /\ queue'[i] = queue'[j] => i = j
    BY <1>e, <1>2, <2>q DEF Calm, NotInTwo
  <2>2. \A i \in DOMAIN queue' : queue'[i] \notin reused' =>
            /\ \A w \in Workers : worker'[w].fd # queue'[i]
            /\ events'[queue'[i]] = "none"
            /\ interest'[queue'[i]] \notin {"IN", "OUT"}
    BY <1>e, <1>2, <2>q DEF Calm, NotInTwo
  <2>3. /\ \A v, w \in Workers : worker'[v].fd = worker'[w].fd /\ v # w =>
                                    worker'[v].fd \in reused' \cup {None}
        /\ \A w \in Workers : worker'[w].fd \notin reused' \cup {None} =>
                             /\ events'[worker'[w].fd] = "none"
                             /\ interest'[worker'[w].fd] \notin {"IN", "OUT"}
        /\ \A f \in Fds \ reused' :
              events'[f] # "none" => interest'[f] \notin {"IN", "OUT"}
    BY <1>e DEF Calm, NotInTwo
  <2> QED
    BY <2>1, <2>2, <2>3 DEF NotInTwo
<1> QED
  BY <1>3, <1>5, <1>6, <1>7 DEF Calm, ReadSucceeds, append

\* modfd puts a registered descriptor back into epoll's hand, or does nothing.
Rearmed(fd) ==
    \/ interest' = interest
    \/ /\ interest[fd] # "absent"
       /\ \E ev \in {"IN", "OUT"} : interest' = [interest EXCEPT ![fd] = ev]

\* EPOLLOUT, when the connection stays open: from main's hand back to epoll.
LEMMA CalmWrite ==
    ASSUME Typed, Calm, NEW fd \in Fds, WriteDone(fd) \/ WriteBlocks(fd)
    PROVE  Calm'
<1> USE DEF Typed
<1>e. /\ events[fd] # "none" /\ events' = [events EXCEPT ![fd] = "none"]
      /\ UNCHANGED <<mpc, sock, queue, worker, reused>> /\ mpc = "batch"
  BY DEF WriteDone, WriteBlocks, Handling, poolVars, objVars
<1>b. \A g \in Fds : /\ rbuf'[g] \in {None, rbuf[g]}
                     /\ wbuf'[g] \in {None, wbuf[g]}
  BY DEF WriteDone, WriteBlocks, init, objVars
<1>i. Rearmed(fd)
  BY DEF WriteDone, WriteBlocks, modfd, Rearmed
<1>2. fd \notin reused => /\ \A i \in DOMAIN queue : queue[i] # fd
                          /\ \A w \in Workers : worker[w].fd # fd
  BY <1>e DEF Calm, NotInTwo
<1>3. Hands'
  BY <1>e DEF Calm, Hands
<1>4. ClosedQuiet'
  BY <1>e, <1>i DEF Calm, ClosedQuiet, Rearmed
<1>5. OwnBytes'
  <2>1. \A g \in Fds \ reused' :
            sock'[g] # None => {rbuf'[g], wbuf'[g]} \subseteq {None, sock'[g]}
    BY <1>e, <1>b DEF Calm, OwnBytes
  <2> QED
    BY <1>e, <2>1 DEF Calm, OwnBytes
<1>7. NotInTwo'
  BY <1>e, <1>i, <1>2 DEF Calm, NotInTwo, Rearmed
<1> QED
  BY <1>3, <1>4, <1>5, <1>7 DEF Calm

\* A worker takes a descriptor from the queue.
LEMMA CalmTake ==
    ASSUME TypeOK, Calm, NEW w \in Workers, Take(w) PROVE Calm'
<1>t. Typed
  BY TypedState
<1> USE <1>t DEF Typed
<1>e. /\ queue # <<>> /\ queue' = Tail(queue)
      /\ UNCHANGED <<mpc, sock, interest, events, rbuf, wbuf, reused>>
  BY DEF Take, kernelVars, loopVars, batchVars, objVars
<1>m. Moves(w, "read", Head(queue), None)
  BY WorkMoves
<1>q. /\ 1 \in DOMAIN queue /\ Head(queue) = queue[1]
      /\ \A i \in DOMAIN queue' : /\ i + 1 \in DOMAIN queue /\ i + 1 # 1
                                  /\ queue'[i] = queue[i + 1]
      /\ \A i, j \in DOMAIN queue' : i + 1 = j + 1 => i = j
  <2>1. queue \in Seq(Fds)
    BY DEF TypeOK
  <2>2. /\ DOMAIN queue = 1 .. Len(queue) /\ Len(queue) \in Nat /\ Len(queue) # 0
        /\ Head(queue) = queue[1]
        /\ DOMAIN queue' = 1 .. Len(queue) - 1
        /\ \A i \in 1 .. Len(queue) - 1 : queue'[i] = queue[i + 1]
    BY <1>e, <2>1, HeadTailProperties, EmptySeq, LenProperties
  <2> QED
    BY ONLY <2>2
<1>n. NotInTwo
  BY DEF Calm
<1>h. /\ queue[1] \in Fds /\ None \notin Fds
      /\ queue[1] \notin reused =>
         /\ \A i \in DOMAIN queue : i # 1 => queue[i] # queue[1]
         /\ \A v \in Workers : worker[v].fd # queue[1]
         /\ events[queue[1]] = "none" /\ interest[queue[1]] \notin {"IN", "OUT"}
  BY <1>q, <1>n DEF NotInTwo
<1>w. /\ worker'[w].pc = "read" /\ worker'[w].fd = queue[1]
      /\ \A v \in Workers : v # w => worker'[v] = worker[v]
  BY <1>m, <1>q DEF Moves
<1>1. Hands'
  BY <1>w, <1>h DEF Calm, Hands
<1>2. ClosedQuiet'
  BY <1>e DEF Calm, ClosedQuiet
<1>4. NotInTwo'
  <2>1. \A i, j \in DOMAIN queue' :
            queue'[i] \notin reused' /\ queue'[i] = queue'[j] => i = j
    BY ONLY <1>e, <1>q, <1>n DEF NotInTwo
  <2>2. \A v, x \in Workers : worker'[v].fd = worker'[x].fd /\ v # x =>
                                 worker'[v].fd \in reused' \cup {None}
    BY ONLY <1>e, <1>w, <1>h, <1>n DEF NotInTwo
  <2>3. \A i \in DOMAIN queue' : queue'[i] \notin reused' =>
            /\ \A v \in Workers : worker'[v].fd # queue'[i]
            /\ events'[queue'[i]] = "none"
            /\ interest'[queue'[i]] \notin {"IN", "OUT"}
    BY ONLY <1>e, <1>w, <1>q, <1>h, <1>n DEF NotInTwo
  <2>4. \A v \in Workers : worker'[v].fd \notin reused' \cup {None} =>
            /\ events'[worker'[v].fd] = "none"
            /\ interest'[worker'[v].fd] \notin {"IN", "OUT"}
    BY ONLY <1>e, <1>w, <1>h, <1>n DEF NotInTwo
  <2>5. \A f \in Fds \ reused' :
            events'[f] # "none" => interest'[f] \notin {"IN", "OUT"}
    BY ONLY <1>e, <1>n DEF NotInTwo
  <2> QED
    BY ONLY <2>1, <2>2, <2>3, <2>4, <2>5 DEF NotInTwo
<1>5. OwnBytes'
  <2>1. OwnBytes
    BY DEF Calm
  <2> QED
    BY ONLY <1>e, <1>w, <2>1 DEF OwnBytes
<1> QED
  BY <1>1, <1>2, <1>4, <1>5 DEF Calm

\* process_read and process_write: the worker keeps its descriptor, and what it
\* parses and answers is a request of the connection open there.
LEMMA CalmProcess ==
    ASSUME TypeOK, Calm, NEW w \in Workers, process_read(w) \/ process_write(w)
    PROVE  Calm'
<1>t. Typed
  BY TypedState
<1> USE <1>t DEF Typed
<1> DEFINE fd == worker[w].fd
<1>e. /\ worker[w].pc \in {"read", "write"}
      /\ UNCHANGED <<mpc, sock, interest, events, rbuf, queue, reused>>
  BY DEF process_read, process_write, At, kernelVars, loopVars, batchVars,
         objVars
<1>0. fd \in Fds
  BY <1>e DEF TypeOK
<1>b. fd \notin reused /\ sock[fd] # None /\ rbuf[fd] # None => rbuf[fd] = sock[fd]
  BY <1>0 DEF Calm, OwnBytes
<1>w. /\ worker'[w].pc \in {"modfd", "close", "write"} /\ worker'[w].fd = fd
      /\ worker'[w].pc = "write" /\ fd \notin reused /\ sock[fd] # None
            => worker'[w].req = sock[fd]
      /\ \A v \in Workers : v # w => worker'[v] = worker[v]
  <2>1. CASE process_read(w)
    BY <2>1, <1>b, WorkMoves DEF Moves
  <2>2. CASE process_write(w)
    BY <2>2, WorkMoves DEF Moves
  <2> QED
    BY <2>1, <2>2
<1>v. wbuf' = wbuf \/ (/\ wbuf' = [wbuf EXCEPT ![fd] = worker[w].req]
                       /\ worker[w].pc = "write")
  <2>1. CASE process_read(w)
    BY <2>1 DEF process_read, objVars
  <2>2. CASE process_write(w)
    BY <2>2, WorkMoves DEF process_write, At
  <2> QED
    BY <2>1, <2>2
<1>f. \A v \in Workers : worker'[v].fd = worker[v].fd
  BY <1>w
<1>r. fd \notin reused /\ sock[fd] # None /\ worker[w].pc = "write" =>
          worker[w].req = sock[fd]
  BY <1>0 DEF Calm, OwnBytes
<1>1. Hands'
  BY <1>e, <1>0, <1>w DEF Calm, Hands
<1>d. worker[w].fd = fd
  OBVIOUS
<1> HIDE DEF fd
<1>2. ClosedQuiet'
  BY <1>e DEF Calm, ClosedQuiet
<1>4. NotInTwo'
  BY <1>e, <1>f DEF Calm, NotInTwo
<1>5. OwnBytes'
  <2>1. \A g \in Fds \ reused' :
            sock'[g] # None => {rbuf'[g], wbuf'[g]} \subseteq {None, sock'[g]}
    BY <1>e, <1>v, <1>r DEF Calm, OwnBytes
  <2>2. ASSUME NEW v \in Workers, worker'[v].pc = "write",
               worker'[v].fd \in Fds \ reused', sock'[worker'[v].fd] # None
        PROVE  worker'[v].req = sock'[worker'[v].fd]
    BY <1>e, <1>w, <2>2 DEF Calm, OwnBytes
  <2> QED
    BY <2>1, <2>2 DEF OwnBytes
<1> QED
  BY <1>1, <1>2, <1>4, <1>5 DEF Calm

\* close_conn: the worker closes its descriptor and still has it in its hand.
LEMMA CalmCloses ==
    ASSUME TypeOK, Calm, NEW w \in Workers,
           close_conn(w) \/ ClearSockfd(w) \/ StoreCount(w)
    PROVE  Calm'
<1>t. Typed
  BY TypedState
<1>e. /\ UNCHANGED <<mpc, events, rbuf, wbuf, queue, reused>>
      /\ worker[w].pc \in {"close", "clear", "count"}
  BY DEF close_conn, ClearSockfd, StoreCount, At, kernelVars, loopVars,
         batchVars, objVars
<1>f. worker[w].fd \in Fds
  BY <1>e DEF TypeOK
<1>h. SameHands
  <2>1. \E p \in {"clear", "count", "modfd"} :
            Moves(w, p, worker[w].fd, worker[w].req)
    BY WorkMoves
  <2> QED
    BY <1>e, <2>1 DEF SameHands, Moves
<1>1. CASE UNCHANGED <<sock, interest>>
  BY <1>e, <1>h, <1>1, CalmElsewhere
<1>2. CASE removefd(worker[w].fd)
  BY <1>e, <1>f, <1>h, <1>t, <1>2, CalmClose
<1> QED
  BY <1>1, <1>2 DEF close_conn, ClearSockfd, StoreCount, kernelVars

\* modfd at the end of process: from the worker's hand back to epoll.
LEMMA CalmRearm ==
    ASSUME TypeOK, Calm, NEW w \in Workers, Rearm(w) PROVE Calm'
<1>t. Typed
  BY TypedState
<1> USE <1>t DEF Typed
<1> DEFINE fd == worker[w].fd
<1>e. /\ worker[w].pc = "modfd"
      /\ UNCHANGED <<mpc, sock, events, rbuf, wbuf, queue, reused>>
  BY DEF Rearm, At, loopVars, batchVars, objVars
<1>0. fd \in Fds
  BY <1>e DEF TypeOK
<1>i. Rearmed(fd)
  <2>1. worker[w].ev \in {"IN", "OUT"}
    BY DEF TypeOK, WorkerState
  <2> QED
    BY <2>1 DEF Rearm, modfd, Rearmed
<1>w. /\ worker'[w].pc = "idle" /\ worker'[w].fd = None
      /\ \A v \in Workers : v # w => worker'[v] = worker[v]
  BY WorkMoves DEF Moves
<1>n. NotInTwo
  BY DEF Calm
<1>p. fd \notin reused => /\ \A i \in DOMAIN queue : queue[i] # fd
                          /\ \A v \in Workers : v # w => worker[v].fd # fd
                          /\ events[fd] = "none"
  BY <1>0, <1>n DEF NotInTwo
<1> HIDE DEF fd
<1>1. Hands'
  BY <1>w DEF Calm, Hands
<1>q. mpc \in {"freed", "done"} => interest' = interest
  BY <1>i, <1>0 DEF Calm, ClosedQuiet, Rearmed
<1>3. ClosedQuiet'
  BY <1>e, <1>i, <1>0, <1>q DEF Calm, ClosedQuiet, Rearmed
<1>5. NotInTwo'
  <2>1. \A v, x \in Workers : worker'[v].fd = worker'[x].fd /\ v # x =>
                                 worker'[v].fd \in reused' \cup {None}
    BY <1>e, <1>w, <1>n DEF NotInTwo
  <2>2. \A i \in DOMAIN queue' : queue'[i] \notin reused' =>
            /\ \A v \in Workers : worker'[v].fd # queue'[i]
            /\ events'[queue'[i]] = "none"
            /\ interest'[queue'[i]] \notin {"IN", "OUT"}
    BY <1>e, <1>i, <1>p, <1>w, <1>n DEF NotInTwo, Rearmed
  <2>3. \A v \in Workers : worker'[v].fd \notin reused' \cup {None} =>
            /\ events'[worker'[v].fd] = "none"
            /\ interest'[worker'[v].fd] \notin {"IN", "OUT"}
    BY <1>e, <1>i, <1>p, <1>w, <1>n DEF NotInTwo, Rearmed
  <2>4. \A f \in Fds \ reused' :
            events'[f] # "none" => interest'[f] \notin {"IN", "OUT"}
    BY <1>e, <1>i, <1>p, <1>n DEF NotInTwo, Rearmed
  <2> QED
    BY <1>e, <1>n, <2>1, <2>2, <2>3, <2>4 DEF NotInTwo
<1>6. OwnBytes'
  BY <1>e, <1>w DEF Calm, OwnBytes
<1> QED
  BY <1>1, <1>3, <1>5, <1>6 DEF Calm

\* The end of main.
LEMMA CalmLeave == ASSUME Typed, Calm, Cleanup \/ Return PROVE Calm'
<1> USE DEF Typed
<1>1. CASE Cleanup
  <2>e. /\ mpc' = "freed" /\ interest' = [fd \in Fds |-> "absent"]
        /\ UNCHANGED <<sock, events, rbuf, wbuf, queue, worker, reused>>
    BY <1>1 DEF Cleanup, batchVars, objVars, poolVars
  <2>1. Hands' /\ ClosedQuiet' /\ OwnBytes'
    BY <2>e DEF Calm, Hands, ClosedQuiet, OwnBytes
  <2>3. NotInTwo'
    BY <2>e DEF Calm, NotInTwo
  <2> QED
    BY <2>1, <2>3 DEF Calm
<1>2. CASE Return
  <2>e. /\ mpc = "freed" /\ mpc' = "done" /\ \A fd \in Fds : sock'[fd] = None
        /\ UNCHANGED <<interest, events, queue, worker, reused>>
    BY <1>2 DEF Return, batchVars, poolVars, objVars
  <2>3. Hands' /\ ClosedQuiet' /\ OwnBytes'
    BY <2>e DEF Calm, Hands, ClosedQuiet, OwnBytes
  <2>5. NotInTwo'
    BY <2>e DEF Calm, NotInTwo
  <2> QED
    BY <2>3, <2>5 DEF Calm
<1> QED
  BY <1>1, <1>2

\* Every step keeps Calm.
LEMMA CalmStep == ASSUME TypeOK, TimerInv, Calm, Next PROVE Calm'
<1> USE DEF kernelVars, clientVars, signalVars, loopVars, batchVars, timerVars,
            objVars, countVars, poolVars
<1>t. Typed
  BY TypedState
<1>1. ASSUME (\E c \in Conns : Client(c)) \/ Elapse \/ SigAlarm \/ SigTerm
      PROVE  Calm'
  BY <1>1, CalmElsewhere
  DEF Client, Connect, Send, Hangup, Elapse, SigAlarm, SigTerm, SameHands
<1>3. ASSUME HandleListen \/ AcceptEnds \/ HandlePipe PROVE Calm'
  BY <1>3, CalmElsewhere
  DEF HandleListen, AcceptEnds, HandlePipe, Running, SameHands
<1>4. ASSUME EndBatch \/ TickEnds PROVE Calm'
  BY <1>4, CalmElsewhere
  DEF EndBatch, BatchDone, TickEnds, LoopTop, Running, SameHands
<1>5. ASSUME epoll_wait PROVE Calm'
  BY <1>5, <1>t, CalmWait DEF TimerInv
<1>6. ASSUME Cleanup \/ Return PROVE Calm'
  BY <1>6, <1>t, CalmLeave
<1>8. ASSUME NEW fd \in Fds, HandleHup(fd) \/ ReadFails(fd) \/ WriteFails(fd)
      PROVE  Calm'
  BY <1>8, <1>t, CalmHandlerCloses
<1>10. ASSUME NEW fd \in Fds, WriteDone(fd) \/ WriteBlocks(fd) PROVE Calm'
  BY <1>10, <1>t, CalmWrite
<1>11. ASSUME NEW c \in Conns, tick(c) PROVE Calm'
  <2>1. /\ c \in heap /\ removefd(user_data[c])
        /\ UNCHANGED <<mpc, events, rbuf, wbuf, queue, worker, reused>>
    BY <1>11 DEF tick, cb_func
  <2>2. user_data[c] \in Fds
    BY <2>1 DEF TimerInv, HeapAlive
  <2>3. SameHands
    BY <2>1 DEF SameHands
  <2> QED
    BY <1>t, <2>1, <2>2, <2>3, CalmClose
<1>12. ASSUME NEW w \in Workers, Work(w) PROVE Calm'
  BY <1>12, CalmTake, CalmProcess, CalmCloses, CalmRearm DEF Work
<1>13. ASSUME Main PROVE Calm'
  BY <1>13, <1>3, <1>4, <1>5, <1>6, <1>8, <1>10, <1>11, CalmAccept, CalmRead
  DEF Main
<1> QED
  BY <1>1, <1>12, <1>13 DEF Next
-----------------------------------------------------------------------------
(* How many connections there are.                                          *)

\* m_user_count counts the open descriptors and the workers that have closed one
\* and not yet stored the new count.
OpenFds == {fd \in Fds : sock[fd] # None}
CountRight ==
    Running /\ ~miscounted =>
        m_user_count = Cardinality(OpenFds) + Cardinality(Closing)

\* The number of open descriptors.
LEMMA OpenCount ==
    /\ Cardinality(OpenFds) \in Nat
    /\ \A fd \in Fds :
          /\ fd \notin OpenFds => Cardinality(OpenFds \cup {fd})
                                     = Cardinality(OpenFds) + 1
          /\ fd \in OpenFds => Cardinality(OpenFds \ {fd})
                                     = Cardinality(OpenFds) - 1
<1>1. IsFiniteSet(OpenFds)
  BY ReactorAssumption, FS_Subset DEF OpenFds
<1> QED
  BY <1>1, FS_CardinalityType, FS_AddElement, FS_RemoveElement

\* The number of workers inside close_conn.
LEMMA ClosingCount ==
    /\ Cardinality(Closing) \in Nat
    /\ \A w \in Workers :
          /\ w \notin Closing => Cardinality(Closing \cup {w})
                                    = Cardinality(Closing) + 1
          /\ w \in Closing => Cardinality(Closing \ {w})
                                    = Cardinality(Closing) - 1
<1>1. IsFiniteSet(Closing)
  BY ReactorAssumption, FS_Subset DEF Closing
<1> QED
  BY <1>1, FS_CardinalityType, FS_AddElement, FS_RemoveElement

\* A step of main, of a client or of time: nobody enters or leaves close_conn.
LEMMA CountElsewhere ==
    ASSUME CountRight, UNCHANGED <<sock, m_user_count, miscounted>>,
           \A w \in Workers : worker'[w].pc \in {"clear", "count"}
                                 <=> worker[w].pc \in {"clear", "count"},
           mpc = "done" => mpc' = "done"
    PROVE  CountRight'
<1>1. OpenFds' = OpenFds /\ Closing' = Closing
  BY DEF OpenFds, Closing
<1> QED
  BY <1>1 DEF CountRight, Running

\* cb_func takes one away for the descriptor it closes.
LEMMA CountClose ==
    ASSUME Typed, CountRight, NEW fd \in Fds, cb_func(fd),
           UNCHANGED <<worker, mpc>>
    PROVE  CountRight'
<1>e. /\ sock' = [sock EXCEPT ![fd] = None] /\ m_user_count' = m_user_count - 1
      /\ miscounted' = (miscounted \/ sock[fd] = None)
  BY DEF cb_func, removefd
<1>1. CASE sock[fd] = None
  BY <1>e, <1>1 DEF CountRight
<1>2. CASE sock[fd] # None
  <2>1. fd \in OpenFds /\ OpenFds' = OpenFds \ {fd} /\ Closing' = Closing
    BY <1>e, <1>2 DEF OpenFds, Closing, Typed
  <2>2. Cardinality(OpenFds') = Cardinality(OpenFds) - 1
        /\ Cardinality(OpenFds) \in Nat /\ Cardinality(Closing) \in Nat
    BY <2>1, OpenCount, ClosingCount
  <2>3. (Running /\ ~miscounted)' => Running /\ ~miscounted
    BY <1>e, <1>2 DEF Running
  <2> QED
    BY <1>e, <2>1, <2>2, <2>3 DEF CountRight
<1> QED
  BY <1>1, <1>2

\* close_conn: the descriptor is closed, and its decrement is under way.
LEMMA CountCloses ==
    ASSUME TypeOK, CountRight, NEW w \in Workers, close_conn(w)
    PROVE  CountRight'
<1> DEFINE fd == worker[w].fd
<1>e. /\ worker[w].pc = "close" /\ Running
      /\ UNCHANGED <<mpc, m_user_count>>
  BY DEF close_conn, At, loopVars
<1>0. fd \in Fds /\ Typed
  BY <1>e, TypedState DEF TypeOK
<1>1. CASE m_sockfd[fd] = None
  <2>1. UNCHANGED <<sock, miscounted>>
    BY <1>1 DEF close_conn
  <2>2. Moves(w, "modfd", fd, worker[w].req)
    BY <1>1, WorkMoves
  <2> QED
    BY <1>e, <2>1, <2>2, CountElsewhere DEF Moves
<1>2. CASE m_sockfd[fd] # None /\ sock[fd] = None
  BY <1>2 DEF close_conn, CountRight
<1>3. CASE m_sockfd[fd] # None /\ sock[fd] # None
  <2>1. sock' = [sock EXCEPT ![fd] = None] /\ miscounted' = miscounted
    BY <1>3, <1>0 DEF close_conn, removefd, TypeOK
  <2>2. Moves(w, "clear", fd, worker[w].req)
    BY <1>3, WorkMoves
  <2>3. w \notin Closing /\ Closing' = Closing \cup {w}
    BY <1>e, <2>2 DEF Closing, Moves
  <2>4. fd \in OpenFds /\ OpenFds' = OpenFds \ {fd}
    BY <1>0, <1>3, <2>1 DEF OpenFds, Typed
  <2> HIDE DEF fd
  <2>5. /\ Cardinality(OpenFds') = Cardinality(OpenFds) - 1
        /\ Cardinality(Closing') = Cardinality(Closing) + 1
        /\ Cardinality(OpenFds) \in Nat /\ Cardinality(Closing) \in Nat
    BY <1>0, <2>3, <2>4, OpenCount, ClosingCount
  <2> QED
    BY <1>e, <2>1, <2>5 DEF CountRight, Running
<1> QED
  BY <1>1, <1>2, <1>3

\* The store of m_user_count--, when nobody came between it and its load.
LEMMA CountStores ==
    ASSUME TypeOK, CountRight, NEW w \in Workers, StoreCount(w)
    PROVE  CountRight'
<1>e. /\ worker[w].pc = "count" /\ UNCHANGED <<mpc, sock>>
      /\ m_user_count' \in {worker[w].count - 1} \cup
                           ({m_user_count} \ {worker[w].count})
      /\ miscounted' = (miscounted \/ m_user_count # worker[w].count)
  BY DEF StoreCount, At, loopVars, kernelVars
<1>1. Moves(w, "modfd", worker[w].fd, worker[w].req)
  BY WorkMoves
<1>2. w \in Closing /\ Closing' = Closing \ {w} /\ OpenFds' = OpenFds
  BY <1>e, <1>1 DEF Closing, Moves, OpenFds
<1>3. /\ Cardinality(Closing') = Cardinality(Closing) - 1
      /\ Cardinality(OpenFds) \in Nat /\ Cardinality(Closing) \in Nat
  BY <1>2, OpenCount, ClosingCount
<1>4. ~miscounted' => ~miscounted /\ m_user_count' = m_user_count - 1
  BY <1>e
<1> QED
  BY <1>e, <1>2, <1>3, <1>4 DEF CountRight, Running

\* Every step keeps the count.
LEMMA CountStep == ASSUME TypeOK, TimerInv, CountRight, Next PROVE CountRight'
<1> USE DEF kernelVars, clientVars, signalVars, loopVars, batchVars, timerVars,
            objVars, countVars, poolVars
<1>t. Typed
  BY TypedState
<1>1. ASSUME (\E c \in Conns : Client(c)) \/ Elapse \/ SigAlarm \/ SigTerm
      PROVE  CountRight'
  BY <1>1, CountElsewhere
  DEF Client, Connect, Send, Hangup, Elapse, SigAlarm, SigTerm
<1>2. ASSUME epoll_wait \/ HandleListen \/ AcceptEnds \/ HandlePipe \/ Cleanup
      PROVE  CountRight'
  BY <1>2, CountElsewhere
  DEF epoll_wait, HandleListen, AcceptEnds, HandlePipe, Cleanup
<1>3. ASSUME EndBatch \/ TickEnds PROVE CountRight'
  BY <1>3, CountElsewhere DEF EndBatch, BatchDone, TickEnds
<1>4. ASSUME Return PROVE CountRight'
  BY <1>4 DEF Return, CountRight, Running
<1>5. ASSUME NEW fd \in Fds, HandleHup(fd) \/ ReadFails(fd) \/ WriteFails(fd)
      PROVE  CountRight'
  BY <1>5, <1>t, CountClose
  DEF HandleHup, ReadFails, WriteFails, Handling, CloseByMain
<1>6. ASSUME NEW fd \in Fds,
             ReadSucceeds(fd) \/ WriteDone(fd) \/ WriteBlocks(fd)
      PROVE  CountRight'
  BY <1>6, CountElsewhere DEF ReadSucceeds, WriteDone, WriteBlocks, Handling
<1>7. ASSUME NEW c \in Conns, tick(c) PROVE CountRight'
  <2>1. user_data[c] \in Fds
    BY <1>7 DEF tick, TimerInv, HeapAlive
  <2> QED
    BY <1>7, <1>t, <2>1, CountClose DEF tick
<1>8. ASSUME NEW fd \in Fds, accept(fd) PROVE CountRight'
  <2>1. /\ sock[fd] = None /\ sock' = [sock EXCEPT ![fd] = Head(backlog)]
        /\ m_user_count' = m_user_count + 1
        /\ UNCHANGED <<mpc, worker, miscounted>>
    BY <1>8 DEF accept
  <2>2. Head(backlog) \in Conns
    BY <1>8, AcceptsFresh
  <2>3. fd \notin OpenFds /\ OpenFds' = OpenFds \cup {fd} /\ Closing' = Closing
    BY <1>t, <2>1, <2>2 DEF OpenFds, Closing, Typed
  <2>4. /\ Cardinality(OpenFds') = Cardinality(OpenFds) + 1
        /\ Cardinality(OpenFds) \in Nat /\ Cardinality(Closing) \in Nat
    BY <2>3, OpenCount, ClosingCount
  <2> QED
    BY <2>1, <2>3, <2>4 DEF CountRight, Running
<1>9. ASSUME NEW w \in Workers,
             Take(w) \/ process_read(w) \/ process_write(w) \/ ClearSockfd(w)
             \/ Rearm(w)
      PROVE  CountRight'
  <2>1. /\ UNCHANGED <<sock, mpc, m_user_count, miscounted>>
        /\ worker[w].pc = "clear" \/ ~ClearSockfd(w)
        /\ worker[w].pc \notin {"clear", "count"} \/ ClearSockfd(w)
    BY <1>9
    DEF Take, process_read, process_write, ClearSockfd, Rearm, At
  <2>2. \E p, f, r : /\ Moves(w, p, f, r)
                     /\ p \in {"clear", "count"} <=> ClearSockfd(w)
    <3>1. CASE ClearSockfd(w)
      BY <3>1, WorkMoves
    <3>2. CASE ~ClearSockfd(w)
      BY <1>9, <3>2, WorkMoves
    <3> QED
      BY <3>1, <3>2
  <2>3. \A v \in Workers : worker'[v].pc \in {"clear", "count"}
                              <=> worker[v].pc \in {"clear", "count"}
    BY <2>1, <2>2 DEF Moves
  <2> QED
    BY <2>1, <2>3, CountElsewhere
<1>10. ASSUME NEW w \in Workers, Work(w) PROVE CountRight'
  BY <1>9, <1>10, CountCloses, CountStores DEF Work
<1>11. ASSUME Main PROVE CountRight'
  BY <1>11, <1>2, <1>3, <1>4, <1>5, <1>6, <1>7, <1>8 DEF Main
<1> QED
  BY <1>1, <1>10, <1>11 DEF Next
-----------------------------------------------------------------------------
(* The theorems.                                                            *)

\* The whole invariant.
ReactorInv == TypeOK /\ TimerInv /\ OwnTimer /\ Calm /\ CountRight

\* There is nothing in the beginning.
LEMMA NothingInitially == ASSUME Init PROVE OwnTimer /\ Calm /\ CountRight
<1>1. \A w \in Workers : worker[w].pc = "idle" /\ worker[w].fd = None
  BY DEF Init, Idle
<1>2. Hands /\ ClosedQuiet /\ NotInTwo
  BY <1>1 DEF Init, Hands, ClosedQuiet, NotInTwo
<1>3. OwnTimer /\ OwnBytes
  BY <1>1 DEF Init, OwnTimer, OwnBytes
<1>4. CountRight
  <2>1. OpenFds = {} /\ Closing = {}
    BY <1>1 DEF Init, OpenFds, Closing
  <2>2. Cardinality(OpenFds) = 0 /\ Cardinality(Closing) = 0
    BY <2>1, FS_EmptySet
  <2> QED
    BY <2>2 DEF Init, CountRight
<1> QED
  BY <1>2, <1>3, <1>4 DEF Calm

\* It always holds.
LEMMA ReactorInvariant == Spec => []ReactorInv
<1>1. Init => ReactorInv
  BY TimerInitially, NothingInitially DEF ReactorInv
<1>2. ReactorInv /\ [Next]_vars => ReactorInv'
  <2> SUFFICES ASSUME ReactorInv, [Next]_vars PROVE ReactorInv'
    OBVIOUS
  <2>1. TypeOK' /\ TimerInv'
    BY TimerInductive DEF ReactorInv
  <2>2. CASE Next
    BY <2>1, <2>2, OwnStep, CalmStep, CountStep DEF ReactorInv
  <2>3. CASE UNCHANGED vars
    <3> USE <2>3 DEF ReactorInv, vars, kernelVars, loopVars, batchVars,
                     timerVars, objVars, countVars, poolVars
    <3>1. OwnTimer'
      BY OwnElsewhere
    <3>2. Calm'
      BY CalmElsewhere DEF SameHands
    <3>3. CountRight'
      BY CountElsewhere
    <3> QED
      BY <2>1, <3>1, <3>2, <3>3
  <2> QED
    BY <2>2, <2>3
<1> QED
  BY <1>1, <1>2, PTL DEF Spec

\* A set without two different elements has none or one.
LEMMA AtMostOne ==
    ASSUME NEW S, \A x, y \in S : x = y
    PROVE  /\ S = {} => Cardinality(S) = 0
           /\ S # {} => Cardinality(S) = 1
<1>1. S = {} => Cardinality(S) = 0
  BY FS_EmptySet
<1>2. ASSUME S # {} PROVE Cardinality(S) = 1
  <2>1. PICK x : x \in S
    BY <1>2
  <2>2. S = {x}
    BY <2>1
  <2> QED
    BY <2>2, FS_Singleton
<1> QED
  BY <1>1, <1>2

\* A descriptor that is not in two hands has at most one holder.
LEMMA OneHand == ASSUME ReactorInv PROVE OneHolder
<1> SUFFICES ASSUME NEW fd \in Fds, fd \notin reused PROVE Holders(fd) <= 1
  BY DEF OneHolder
<1> DEFINE Q == {i \in DOMAIN queue : queue[i] = fd}
           W == Serving(fd)
<1>t. Typed /\ NotInTwo
  BY TypedState DEF ReactorInv, Calm
<1>1. (\A i, j \in Q : i = j) /\ (\A v, w \in W : v = w)
  BY <1>t DEF Typed, NotInTwo, Serving
<1>2. /\ Q # {} => W = {} /\ events[fd] = "none" /\ interest[fd] \notin {"IN", "OUT"}
      /\ W # {} => Q = {} /\ events[fd] = "none" /\ interest[fd] \notin {"IN", "OUT"}
      /\ events[fd] # "none" => interest[fd] \notin {"IN", "OUT"}
  BY <1>t DEF Typed, NotInTwo, Serving
<1>3. /\ Q = {} => Cardinality(Q) = 0
      /\ Q # {} => Cardinality(Q) = 1
  BY <1>1, AtMostOne
<1>4. /\ W = {} => Cardinality(W) = 0
      /\ W # {} => Cardinality(W) = 1
  BY <1>1, AtMostOne
<1>5. Holders(fd) = Cardinality(W) + Cardinality(Q)
                    + (IF interest[fd] \in {"IN", "OUT"} THEN 1 ELSE 0)
                    + (IF events[fd] # "none" THEN 1 ELSE 0)
  BY DEF Holders
<1> HIDE DEF Q, W
<1> QED
  BY <1>2, <1>3, <1>4, <1>5

\* EPOLLONESHOT works, for any number of descriptors, connections and workers,
\* however slow these are and whatever they close: a descriptor is never with
\* two threads, nor with a thread and in the queue, the batch or epoll, unless
\* accept returned it while its last connection was still in one of these hands.
THEOREM OneThreadPerConnection == Spec => []OneHolder
BY ReactorInvariant, OneHand, PTL

\* m_user_count, which main compares with MAX_FD, is the number of open
\* connections and of those a worker is about to take off, until an update comes
\* between a worker's load and store or a descriptor is closed twice.
THEOREM UsersCounted == Spec => []UserCountExact
<1>1. ReactorInv => UserCountExact
  BY DEF ReactorInv, CountRight, OpenFds, UserCountExact
<1> QED
  BY <1>1, ReactorInvariant, PTL

\* No client is sent the reply to another client's request, although descriptors
\* and http_conn objects are reused, unless its descriptor was accepted while
\* the last connection there was in the pool or in the batch.
THEOREM RepliesToAsker == Spec => []ReplyToAsker
<1>1. ReactorInv => ReplyToAsker
  BY DEF ReactorInv, Calm, OwnBytes, ReplyToAsker
<1> QED
  BY <1>1, ReactorInvariant, PTL

\* The timer that tick pops belongs to the connection it closes, which has been
\* idle for LIFE slots: no connection pays for an earlier one on its descriptor,
\* except for one that a worker, or the timer of such a one, closed.
THEOREM TickSparesActive == Spec => TickClosesInactive
<1>1. ReactorInv /\ [Next]_vars => [\A c \in Conns \ orphans :
          c \in freed' \ freed =>
              LET owner == sock[user_data[c]]
              IN  owner # None => ttl[owner] = 0]_vars
  <2> SUFFICES ASSUME ReactorInv, Next, NEW c \in Conns \ orphans,
                      c \in freed' \ freed
               PROVE  sock[user_data[c]] = c /\ ttl[c] = 0
    OBVIOUS
  <2> USE DEF kernelVars, clientVars, signalVars, loopVars, batchVars, timerVars,
              objVars, countVars, poolVars
  <2>1. PICK d \in Conns : tick(d)
    <3>1. CASE (\E x \in Conns : Client(x)) \/ Elapse \/ SigAlarm \/ SigTerm
      BY <3>1 DEF Client, Connect, Send, Hangup, Elapse, SigAlarm, SigTerm
    <3>2. CASE \E w \in Workers : Work(w)
      BY <3>2 DEF Work, Take, process_read, process_write, close_conn,
         ClearSockfd, StoreCount, Rearm
    <3>3. CASE Main
      BY <3>3 DEF Main, epoll_wait, HandleListen, AcceptEnds, HandlePipe,
         EndBatch, TickEnds, Cleanup, Return, accept, new_timer, HandleHup,
         ReadSucceeds, ReadFails, WriteDone, WriteBlocks, WriteFails,
         adjust_timer, CloseByMain, del_timer
    <3> QED
      BY <3>1, <3>2, <3>3 DEF Next
  <2>2. c = d /\ c \in heap /\ ttl[c] = 0 /\ Running
    BY <2>1 DEF tick, Running
  <2> QED
    BY <2>2 DEF ReactorInv, OwnTimer
<1> QED
  BY <1>1, ReactorInvariant, PTL DEF Spec, TickClosesInactive

\* Whoever is in the backlog has an edge ahead, or main is at it, unless an error
\* of accept or a refusal left him there: the accept loop takes all.
THEOREM BacklogAccepted == Spec => []Accepted
<1> DEFINE Goal == Accepted /\ (listenEv => mpc = "batch")
<1> USE DEF Accepted
<1>1. Init => Goal
  BY DEF Init
<1>2. ASSUME TypeOK, Goal, [Next]_vars PROVE Goal'
  <2>1. ASSUME NEW c \in Conns, Client(c) PROVE Goal'
    BY <1>2, <2>1 DEF Client, Connect, Send, Hangup, kernelVars, loopVars, batchVars
  <2>2. CASE Elapse \/ SigAlarm \/ SigTerm \/ UNCHANGED vars
    BY <1>2, <2>2 DEF Elapse, SigAlarm, SigTerm, vars, kernelVars, loopVars, batchVars
  <2>3. CASE epoll_wait
    <3>1. /\ mpc = "wait" /\ listenEv' = edge /\ skipped' = (skipped /\ ~edge)
          /\ backlog' = backlog /\ mpc' = "batch"
      BY <2>3 DEF epoll_wait
    <3>2. CASE edge
      BY <3>1, <3>2
    <3>3. CASE ~edge
      <4>1. listenEv = FALSE
        BY <1>2, <3>1 DEF TypeOK
      <4> QED
        BY <1>2, <3>1, <3>3, <4>1
    <3> QED
      BY <3>2, <3>3
  <2>11. CASE HandleListen
    BY <1>2, <2>11 DEF HandleListen
  <2>4. CASE AcceptEnds
    BY <1>2, <2>4 DEF AcceptEnds, batchVars, TypeOK
  <2>5. ASSUME NEW fd \in Fds, accept(fd) PROVE Goal'
    BY <1>2, <2>5 DEF accept, loopVars, batchVars
  <2>6. CASE Return
    BY <1>2, <2>6 DEF Return, batchVars
  <2>7. CASE HandlePipe \/ EndBatch \/ TickEnds \/ Cleanup
    BY <1>2, <2>7 DEF HandlePipe, EndBatch, BatchDone, LoopTop, TickEnds, Cleanup,
                      kernelVars, loopVars, batchVars
  <2>8. ASSUME NEW fd \in Fds, \/ HandleHup(fd) \/ ReadSucceeds(fd) \/ ReadFails(fd)
                               \/ WriteDone(fd) \/ WriteBlocks(fd) \/ WriteFails(fd)
        PROVE  Goal'
    BY <1>2, <2>8 DEF HandleHup, ReadSucceeds, ReadFails, WriteDone, WriteBlocks,
                      WriteFails, Handling, kernelVars, loopVars, batchVars
  <2>9. ASSUME NEW c \in Conns, tick(c) PROVE Goal'
    BY <1>2, <2>9 DEF tick, kernelVars, loopVars, batchVars
  <2>10. ASSUME NEW w \in Workers, Work(w) PROVE Goal'
    BY <1>2, <2>10 DEF Work, Take, process_read, process_write, close_conn, ClearSockfd,
                       StoreCount, Rearm, kernelVars, loopVars, batchVars
  <2> QED
    BY <1>2, <2>1, <2>2, <2>3, <2>4, <2>5, <2>6, <2>7, <2>8, <2>9, <2>10, <2>11
       DEF Next, Main
<1>3. TypeOK /\ Goal /\ [Next]_vars => Goal'
  BY <1>2
<1>4. Goal => Accepted
  OBVIOUS
<1> HIDE DEF Goal
<1> QED
  BY <1>1, <1>3, <1>4, ReactorTypeOK, PTL DEF Spec
=============================================================================
