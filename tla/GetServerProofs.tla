-------------------------- MODULE GetServerProofs --------------------------
(***************************************************************************)
(* Proofs about GetServer, for any clients, any finite set of descriptors, *)
(* any number of worker threads and any limits: until a descriptor is      *)
(* opened or closed beside a worker's close_conn, every open connection is *)
(* in exactly one hand, and sockets, objects and m_user_count agree.       *)
(***************************************************************************)
EXTENDS GetServer, FiniteSetTheorems, SequenceTheorems, TLAPS

IsClosing(w) == worker[w].pc \in {"clear", "count", "modfd"}

\* A thread has an object exactly while it runs process.
Objects == \A w \in Workers : worker[w].fd = None <=> worker[w].pc = "idle"

\* A descriptor is in the epoll table while it is open, and its object names
\* it; the object of a closed one is cleared unless a worker is about to.
Tables ==
    \A fd \in Fds :
        /\ sock[fd] = None <=> interest[fd] = "absent"
        /\ sock[fd] # None => /\ m_sockfd[fd] = fd
                              /\ rbuf[fd] \in {None, sock[fd]}
                              /\ wbuf[fd] \in {None, sock[fd]}

\* One worker at most is closing; its descriptor is closed, and stays closed.
OneCloser ==
    /\ \A v, w \in Workers : IsClosing(v) /\ IsClosing(w) => v = w
    /\ \A w \in Workers : IsClosing(w) =>
          /\ sock[worker[w].fd] = None
          /\ worker[w].pc # "clear" => m_sockfd[worker[w].fd] = None

\* Only its closing worker has a closed descriptor.
ClosedFree ==
    \A fd \in Fds : sock[fd] = None =>
        /\ events[fd] = "none"
        /\ \A i \in DOMAIN queue : queue[i] # fd
        /\ \A w \in Workers : worker[w].fd = fd => IsClosing(w)

\* No descriptor is in two hands.
NotInTwo ==
    /\ \A i, j \in DOMAIN queue : queue[i] = queue[j] => i = j
    /\ \A v, w \in Workers : worker[v].fd = worker[w].fd /\ v # w =>
                                worker[v].fd = None
    /\ \A i \in DOMAIN queue : /\ \A w \in Workers : worker[w].fd # queue[i]
                               /\ events[queue[i]] = "none"
                               /\ interest[queue[i]] \notin {"IN", "OUT"}
    /\ \A w \in Workers : worker[w].fd # None =>
                               /\ events[worker[w].fd] = "none"
                               /\ interest[worker[w].fd] \notin {"IN", "OUT"}
    /\ \A fd \in Fds : events[fd] # "none" => interest[fd] \notin {"IN", "OUT"}

\* No open connection is in none, but for those append refused.
NotInNone ==
    \A fd \in Fds : sock[fd] # None /\ sock[fd] \notin refused =>
        \/ \E i \in DOMAIN queue : queue[i] = fd
        \/ \E w \in Workers : worker[w].fd = fd
        \/ events[fd] # "none"
        \/ interest[fd] \in {"IN", "OUT"}

\* m_user_count counts the open connections and the one that a worker has
\* closed and not counted; what that worker has loaded is not stale.
OpenFds == {fd \in Fds : sock[fd] # None}
Uncounted == \E w \in Workers : worker[w].pc \in {"clear", "count"}
CountExact ==
    /\ m_user_count = Cardinality(OpenFds) + (IF Uncounted THEN 1 ELSE 0)
    /\ \A w \in Workers : worker[w].pc = "count" => worker[w].count = m_user_count

\* The inductive invariant.
ServerInv ==
    /\ TypeOK /\ Objects
    /\ clash \/ /\ Tables /\ OneCloser /\ ClosedFree
                /\ NotInTwo /\ NotInNone /\ CountExact

\* The parts of a worker's record.
LEMMA WorkerParts ==
    ASSUME TypeOK, NEW w \in Workers
    PROVE  /\ worker[w].pc \in {"idle", "process", "armOut", "clear", "count",
                                "modfd"}
           /\ worker[w].fd \in Fds \cup {None} /\ worker[w].count \in Int
BY DEF TypeOK

\* Worker w has moved on to call p, with object f and count n.
Moves(w, p, f, n) ==
    /\ worker' \in [Workers -> [pc : {"idle", "process", "armOut", "clear",
                                      "count", "modfd"},
                                fd : Fds \cup {None}, count : Int]]
    /\ worker'[w].pc = p /\ worker'[w].fd = f /\ worker'[w].count = n
    /\ \A v \in Workers \ {w} : worker'[v] = worker[v]

\* A new record is a move.
LEMMA RecordMoves ==
    ASSUME TypeOK, NEW w \in Workers,
           NEW p \in {"idle", "process", "armOut", "clear", "count", "modfd"},
           NEW f \in Fds \cup {None}, NEW n \in Int,
           worker' = [worker EXCEPT ![w] = [pc |-> p, fd |-> f, count |-> n]]
    PROVE  Moves(w, p, f, n)
BY DEF Moves, TypeOK

\* Goes is a move.
LEMMA GoesMoves ==
    ASSUME TypeOK, NEW w \in Workers, NEW p, NEW to, Goes(w, p, to),
           to \in {"idle", "armOut", "clear", "modfd"}
    PROVE  /\ to = "idle" => Moves(w, "idle", None, 0)
           /\ to # "idle" => Moves(w, to, worker[w].fd, worker[w].count)
<1>t. worker \in [Workers -> [pc : {"idle", "process", "armOut", "clear",
                                    "count", "modfd"},
                              fd : Fds \cup {None}, count : Int]]
  BY DEF TypeOK
<1>1. ASSUME to = "idle" PROVE Moves(w, "idle", None, 0)
  <2>1. worker' = [worker EXCEPT ![w] = [pc |-> "idle", fd |-> None, count |-> 0]]
    BY <1>1 DEF Goes, Idle
  <2>2. 0 \in Int /\ None \in Fds \cup {None}
    OBVIOUS
  <2> QED
    BY <2>1, <2>2, RecordMoves
<1>2. ASSUME to # "idle" PROVE Moves(w, to, worker[w].fd, worker[w].count)
  <2>1. worker' = [worker EXCEPT ![w] = [@ EXCEPT !.pc = to]]
    BY <1>2 DEF Goes
  <2>2. [worker[w] EXCEPT !.pc = to]
           = [pc |-> to, fd |-> worker[w].fd, count |-> worker[w].count]
    BY <1>t
  <2>3. worker' = [worker EXCEPT ![w] = [pc |-> to, fd |-> worker[w].fd,
                                         count |-> worker[w].count]]
    BY <2>1, <2>2
  <2> QED
    BY <2>3, WorkerParts, RecordMoves
<1> QED
  BY <1>1, <1>2

\* So are the other steps of a worker.
LEMMA OtherMoves ==
    ASSUME TypeOK, NEW w \in Workers
    PROVE  /\ Take(w) => Moves(w, "process", Head(queue), 0)
           /\ ClearSockfd(w) => Moves(w, "count", worker[w].fd, m_user_count)
           /\ StoreCount(w) => Moves(w, "modfd", worker[w].fd, 0)
<1>t. /\ worker \in [Workers -> [pc : {"idle", "process", "armOut", "clear",
                                       "count", "modfd"},
                                 fd : Fds \cup {None}, count : Int]]
      /\ queue \in Seq(Fds) /\ m_user_count \in Int
  BY DEF TypeOK
<1>z. 0 \in Int
  OBVIOUS
<1>1. ASSUME Take(w) PROVE Moves(w, "process", Head(queue), 0)
  <2>1. Head(queue) \in Fds
    BY <1>1, <1>t, HeadTailProperties DEF Take
  <2>2. worker' = [worker EXCEPT ![w] = [pc |-> "process", fd |-> Head(queue),
                                         count |-> 0]]
    BY <1>1, <1>t DEF Take
  <2> QED
    BY <1>z, <2>1, <2>2, RecordMoves
<1>2. ASSUME ClearSockfd(w) PROVE Moves(w, "count", worker[w].fd, m_user_count)
  <2>1. worker' = [worker EXCEPT ![w] = [pc |-> "count", fd |-> worker[w].fd,
                                         count |-> m_user_count]]
    BY <1>2, <1>t DEF ClearSockfd
  <2> QED
    BY <1>t, <2>1, WorkerParts, RecordMoves
<1>3. ASSUME StoreCount(w) PROVE Moves(w, "modfd", worker[w].fd, 0)
  <2>1. worker' = [worker EXCEPT ![w] = [pc |-> "modfd", fd |-> worker[w].fd,
                                         count |-> 0]]
    BY <1>3, <1>t DEF StoreCount
  <2> QED
    BY <1>z, <2>1, WorkerParts, RecordMoves
<1> QED
  BY <1>1, <1>2, <1>3

\* The types of the descriptors' tables, and of what main and the workers
\* share otherwise.
FdTypes ==
    /\ sock \in [Fds -> Conns \cup {None}]
    /\ interest \in [Fds -> {"absent", "off", "IN", "OUT"}]
    /\ gone \subseteq Conns
    /\ m_sockfd \in [Fds -> Fds \cup {None}]
    /\ rbuf \in [Fds -> Conns \cup {None}] /\ wbuf \in [Fds -> Conns \cup {None}]
    /\ m_user_count \in Int /\ clash \in BOOLEAN
PoolTypes ==
    /\ queue \in Seq(Fds) /\ refused \subseteq Conns \cup {None}
    /\ worker \in [Workers -> [pc : {"idle", "process", "armOut", "clear",
                                     "count", "modfd"},
                               fd : Fds \cup {None}, count : Int]]
NetTypes ==
    /\ backlog \in Seq(Conns) /\ edge \in BOOLEAN
    /\ unread \subseteq Conns /\ hup \subseteq Conns
    /\ acts \in 0..MaxActs
    /\ events \in [Fds -> {"none", "hup", "in", "out"}] /\ listenEv \in BOOLEAN

\* They make up the types.
LEMMA TypesSplit == TypeOK <=> FdTypes /\ PoolTypes /\ NetTypes
BY DEF TypeOK, FdTypes, PoolTypes, NetTypes

\* In the next state too.
LEMMA TypesSplitAfter == FdTypes' /\ PoolTypes' /\ NetTypes' => TypeOK'
BY DEF TypeOK, FdTypes, PoolTypes, NetTypes

\* removefd keeps the types of the kernel's tables.
RemoveTypes ==
    /\ sock' \in [Fds -> Conns \cup {None}]
    /\ interest' \in [Fds -> {"absent", "off", "IN", "OUT"}]
    /\ gone' \subseteq Conns

\* See above.
LEMMA RemoveKeeps ==
    ASSUME FdTypes, NEW fd \in Fds, removefd(fd) PROVE RemoveTypes
BY DEF FdTypes, removefd, RemoveTypes

\* close_conn keeps the types.
LEMMA CloseTypes ==
    ASSUME TypeOK, NEW fd \in Fds, close_conn(fd), UNCHANGED <<rbuf, wbuf>>
    PROVE  FdTypes'
<1>t. FdTypes
  BY TypesSplit
<1>1. CASE m_sockfd[fd] = None
  BY <1>1, <1>t DEF FdTypes, close_conn, fdVars
<1>2. CASE m_sockfd[fd] # None
  <2>1. m_sockfd[fd] \in Fds
    BY <1>2, <1>t DEF FdTypes
  <2>2. RemoveTypes
    BY <1>2, <1>t, <2>1, RemoveKeeps DEF close_conn
  <2>3. /\ m_sockfd' \in [Fds -> Fds \cup {None}] /\ m_user_count' \in Int
        /\ rbuf' \in [Fds -> Conns \cup {None}]
        /\ wbuf' \in [Fds -> Conns \cup {None}]
    BY <1>2, <1>t DEF FdTypes, close_conn
  <2>4. clash' \in BOOLEAN
    BY <1>2 DEF close_conn
  <2> QED
    BY <2>2, <2>3, <2>4 DEF FdTypes, RemoveTypes
<1> QED
  BY <1>1, <1>2

\* Every step of main and of the clients keeps the types.
LEMMA MainTypes ==
    ASSUME TypeOK, main \/ \E c \in Conns : Connect(c) \/ Send(c) \/ Hangup(c)
    PROVE  FdTypes' /\ PoolTypes' /\ NetTypes'
<1> USE GetServerAssumption DEF netVars, fdVars, batchVars, objVars
<1> DEFINE Goal == FdTypes' /\ PoolTypes' /\ NetTypes'
<1>t. FdTypes /\ PoolTypes /\ NetTypes
  BY TypesSplit
<1>1. ASSUME NEW c \in Conns, Connect(c) \/ Send(c) \/ Hangup(c) PROVE Goal
  <2>1. UNCHANGED <<fdVars, objVars, m_user_count, clash, queue, worker, refused>>
    BY <1>1 DEF Connect, Send, Hangup
  <2>2. NetTypes'
    <3>1. CASE Connect(c)
      <4>1. Append(backlog, c) \in Seq(Conns)
        BY <1>t DEF NetTypes
      <4> QED
        BY <1>t, <3>1, <4>1 DEF Connect, NetTypes
    <3>2. CASE Send(c)
      BY <1>t, <3>2 DEF Send, NetTypes
    <3>3. CASE Hangup(c)
      BY <1>t, <3>3 DEF Hangup, NetTypes
    <3> QED
      BY <1>1, <3>1, <3>2, <3>3
  <2> QED
    BY <1>t, <2>1, <2>2 DEF FdTypes, PoolTypes
<1>2. ASSUME epoll_wait PROVE Goal
  <2>1. UNCHANGED <<sock, gone, objVars, m_user_count, clash, queue, worker,
                    refused>>
    BY <1>2 DEF epoll_wait
  <2>2. events' \in [Fds -> {"none", "hup", "in", "out"}]
    <3>1. PICK writable \in SUBSET {fd \in Fds : interest[fd] = "OUT"} :
             events' = [fd \in Fds |-> Ready(fd, writable)]
      BY <1>2 DEF epoll_wait
    <3>2. \A fd \in Fds : Ready(fd, writable) \in {"none", "hup", "in", "out"}
      BY DEF Ready
    <3> QED
      BY <3>1, <3>2
  <2>3. NetTypes'
    BY <1>2, <1>t, <2>2 DEF epoll_wait, NetTypes
  <2>4. interest' \in [Fds -> {"absent", "off", "IN", "OUT"}]
    BY <1>2, <1>t DEF epoll_wait, OneshotOff, FdTypes
  <2> QED
    BY <1>t, <2>1, <2>3, <2>4 DEF FdTypes, PoolTypes
<1>3. ASSUME HandleListen PROVE Goal
  <2>1. PoolTypes'
    BY <1>3, <1>t DEF HandleListen, PoolTypes
  <2>2. backlog # <<>> => Head(backlog) \in Conns /\ Tail(backlog) \in Seq(Conns)
    BY <1>t, HeadTailProperties DEF NetTypes
  <2>3. NetTypes'
    BY <1>3, <1>t, <2>2 DEF HandleListen, NetTypes
  <2>4. FdTypes'
    <3>1. CASE UNCHANGED <<fdVars, objVars, m_user_count, clash>>
      BY <1>t, <3>1 DEF FdTypes
    <3>2. ASSUME NEW fd \in Fds, backlog # <<>>, gone' = gone \cup {Head(backlog)},
                 UNCHANGED <<sock, interest, objVars, m_user_count, clash>>
          PROVE  FdTypes'
      BY <1>t, <2>2, <3>2 DEF FdTypes
    <3>3. ASSUME NEW fd \in Fds, backlog # <<>>,
                 sock' = [sock EXCEPT ![fd] = Head(backlog)],
                 interest' = [interest EXCEPT ![fd] = "IN"],
                 m_sockfd' = [m_sockfd EXCEPT ![fd] = fd],
                 m_user_count' = m_user_count + 1,
                 init(fd), clash' = (clash \/ Closing), gone' = gone
          PROVE  FdTypes'
      BY <1>t, <2>2, <3>3 DEF FdTypes, init, Closing
    <3> QED
      BY <1>3, <3>1, <3>2, <3>3 DEF HandleListen
  <2> QED
    BY <2>1, <2>3, <2>4
<1>4. ASSUME NEW fd \in Fds, HandleHup(fd) \/ HandleReadFails(fd) \/ WriteCloses(fd)
      PROVE  Goal
  <2>1. FdTypes'
    BY <1>4, CloseTypes DEF HandleHup, HandleReadFails, WriteCloses
  <2>2. PoolTypes' /\ NetTypes'
    BY <1>4, <1>t DEF HandleHup, HandleReadFails, WriteCloses, Handling,
                      PoolTypes, NetTypes
  <2> QED
    BY <2>1, <2>2
<1>5. ASSUME NEW fd \in Fds, HandleRead(fd) PROVE Goal
  <2>1. FdTypes'
    BY <1>5, <1>t DEF HandleRead, FdTypes
  <2>2. NetTypes'
    BY <1>5, <1>t DEF HandleRead, Handling, NetTypes
  <2>3. PoolTypes'
    <3>1. sock[fd] \in Conns \cup {None} /\ Append(queue, fd) \in Seq(Fds)
      BY <1>t DEF FdTypes, PoolTypes
    <3> QED
      BY <1>5, <1>t, <3>1 DEF HandleRead, append, PoolTypes
  <2> QED
    BY <2>1, <2>2, <2>3
<1>6. ASSUME NEW fd \in Fds, WriteNothing(fd) \/ WriteBlocks(fd) \/ WriteDone(fd)
      PROVE  Goal
  <2>1. PoolTypes' /\ NetTypes'
    BY <1>6, <1>t DEF WriteNothing, WriteBlocks, WriteDone, Handling,
                      PoolTypes, NetTypes
  <2>2. FdTypes'
    BY <1>6, <1>t DEF WriteNothing, WriteBlocks, WriteDone, modfd, init, FdTypes
  <2> QED
    BY <2>1, <2>2
<1> QED
  BY <1>1, <1>2, <1>3, <1>4, <1>5, <1>6 DEF main

\* The labels process goes through, and their objects.
LEMMA ObjectsMove ==
    ASSUME Objects, NEW w \in Workers, NEW p, NEW f, NEW n, Moves(w, p, f, n),
           f = None <=> p = "idle"
    PROVE  Objects'
BY DEF Objects, Moves

\* Every step of a worker keeps the types and the objects.
LEMMA WorkTypes ==
    ASSUME TypeOK, Objects, NEW w \in Workers, Work(w)
    PROVE  FdTypes' /\ PoolTypes' /\ NetTypes' /\ Objects'
<1> USE GetServerAssumption DEF netVars, fdVars, batchVars, objVars
<1> DEFINE Goal == FdTypes' /\ PoolTypes' /\ NetTypes' /\ Objects'
<1>t. FdTypes /\ PoolTypes /\ NetTypes
  BY TypesSplit
<1>w. /\ worker[w].fd \in Fds \cup {None}
      /\ worker[w].fd = None <=> worker[w].pc = "idle"
      /\ None \notin Fds
  BY WorkerParts DEF Objects
<1>n. NetTypes'
  <2>1. UNCHANGED <<netVars, batchVars>>
    BY DEF Work, Take, ReadMore, Reply, ReplyFails, ClearSockfd, StoreCount,
           ArmOut, Goes
  <2> QED
    BY <1>t, <2>1 DEF NetTypes
<1>p. ASSUME NEW p, NEW f, NEW n, Moves(w, p, f, n), f = None <=> p = "idle",
             UNCHANGED <<queue, refused>>
      PROVE  PoolTypes' /\ Objects'
  <2>1. Objects'
    BY <1>p, ObjectsMove
  <2>2. PoolTypes'
    BY <1>p, <1>t DEF PoolTypes, Moves
  <2> QED
    BY <2>1, <2>2
<1>1. ASSUME Take(w) PROVE Goal
  <2>1. Moves(w, "process", Head(queue), 0)
    BY <1>1, OtherMoves
  <2>2. Head(queue) \in Fds /\ Tail(queue) \in Seq(Fds)
    BY <1>1, <1>t, HeadTailProperties DEF Take, PoolTypes
  <2>3. Objects'
    BY <1>w, <2>1, <2>2, ObjectsMove
  <2>4. PoolTypes'
    BY <1>1, <1>t, <2>1, <2>2 DEF Take, PoolTypes, Moves
  <2>5. FdTypes'
    BY <1>1, <1>t DEF Take, FdTypes
  <2> QED
    BY <1>n, <2>3, <2>4, <2>5
<1>2. ASSUME ReadMore(w) PROVE Goal
  <2>1. Moves(w, "idle", None, 0) /\ UNCHANGED <<queue, refused>>
    BY <1>2, GoesMoves DEF ReadMore, Goes
  <2>2. FdTypes'
    BY <1>2, <1>t DEF ReadMore, modfd, FdTypes
  <2> QED
    BY <1>n, <1>p, <2>1, <2>2
<1>3. ASSUME Reply(w) PROVE Goal
  <2>1. /\ Moves(w, "armOut", worker[w].fd, worker[w].count)
        /\ worker[w].fd \in Fds /\ UNCHANGED <<queue, refused>>
    BY <1>3, <1>w, GoesMoves DEF Reply, Goes
  <2>2. FdTypes'
    BY <1>3, <1>t, <2>1 DEF Reply, FdTypes
  <2> QED
    BY <1>n, <1>p, <1>w, <2>1, <2>2
<1>4. ASSUME ReplyFails(w) PROVE Goal
  <2>1. PICK to \in {"clear", "modfd"} : Goes(w, "process", to)
    BY <1>4 DEF ReplyFails
  <2>2. /\ Moves(w, to, worker[w].fd, worker[w].count)
        /\ worker[w].fd \in Fds /\ UNCHANGED <<queue, refused>>
    BY <1>4, <1>w, <2>1, GoesMoves DEF ReplyFails, Goes
  <2>3. m_sockfd[worker[w].fd] \in Fds \cup {None}
    BY <1>t, <2>2 DEF FdTypes
  <2>4. FdTypes'
    <3>1. CASE m_sockfd[worker[w].fd] = None
      BY <1>4, <1>t, <3>1 DEF ReplyFails, FdTypes
    <3>2. CASE m_sockfd[worker[w].fd] # None
      <4>1. RemoveTypes
        BY <1>4, <1>t, <2>3, <3>2, RemoveKeeps DEF ReplyFails
      <4>2. clash' \in BOOLEAN
        BY <1>4, <3>2 DEF ReplyFails
      <4> QED
        BY <1>4, <1>t, <4>1, <4>2 DEF ReplyFails, FdTypes, RemoveTypes
    <3> QED
      BY <3>1, <3>2
  <2> QED
    BY <1>n, <1>p, <1>w, <2>2, <2>4
<1>5. ASSUME ClearSockfd(w) PROVE Goal
  <2>1. /\ Moves(w, "count", worker[w].fd, m_user_count)
        /\ worker[w].fd \in Fds /\ UNCHANGED <<queue, refused>>
    BY <1>5, <1>w, OtherMoves DEF ClearSockfd
  <2>2. FdTypes'
    BY <1>5, <1>t DEF ClearSockfd, FdTypes
  <2> QED
    BY <1>n, <1>p, <1>w, <2>1, <2>2
<1>6. ASSUME StoreCount(w) PROVE Goal
  <2>1. /\ Moves(w, "modfd", worker[w].fd, 0)
        /\ worker[w].fd \in Fds /\ UNCHANGED <<queue, refused>>
    BY <1>6, <1>w, OtherMoves DEF StoreCount
  <2>2. m_user_count' \in Int
    BY <1>6, <1>t, WorkerParts DEF StoreCount, FdTypes
  <2>3. FdTypes'
    BY <1>6, <1>t, <2>2 DEF StoreCount, FdTypes
  <2> QED
    BY <1>n, <1>p, <1>w, <2>1, <2>3
<1>7. ASSUME ArmOut(w) PROVE Goal
  <2>1. Moves(w, "idle", None, 0) /\ UNCHANGED <<queue, refused>>
    BY <1>7, GoesMoves DEF ArmOut, Goes
  <2>2. FdTypes'
    BY <1>7, <1>t DEF ArmOut, modfd, FdTypes
  <2> QED
    BY <1>n, <1>p, <2>1, <2>2
<1> QED
  BY <1>1, <1>2, <1>3, <1>4, <1>5, <1>6, <1>7 DEF Work

\* What the invariant says until a clash.
Clean == /\ Tables /\ OneCloser /\ ClosedFree /\ NotInTwo /\ NotInNone
         /\ CountExact

\* The types in the form in which the steps below use them.
Typed ==
    /\ sock \in [Fds -> Conns \cup {None}]
    /\ interest \in [Fds -> {"absent", "off", "IN", "OUT"}]
    /\ events \in [Fds -> {"none", "hup", "in", "out"}]
    /\ m_sockfd \in [Fds -> Fds \cup {None}]
    /\ rbuf \in [Fds -> Conns \cup {None}] /\ wbuf \in [Fds -> Conns \cup {None}]
    /\ \A i \in DOMAIN queue : queue[i] \in Fds
    /\ \A w \in Workers :
          /\ worker[w].fd \in Fds \cup {None} /\ worker[w].count \in Int
          /\ worker[w].fd = None <=> worker[w].pc = "idle"
    /\ m_user_count \in Int
    /\ None \notin Fds /\ None \notin Conns

\* They follow from TypeOK.
LEMMA TypedState == ASSUME TypeOK, Objects PROVE Typed
<1>1. \A w \in Workers :
          /\ worker[w].fd \in Fds \cup {None} /\ worker[w].count \in Int
          /\ worker[w].fd = None <=> worker[w].pc = "idle"
  BY WorkerParts DEF Objects
<1>2. \A i \in DOMAIN queue : queue[i] \in Fds
  <2>1. queue \in Seq(Fds)
    BY DEF TypeOK
  <2> QED
    BY <2>1
<1> QED
  BY <1>1, <1>2, GetServerAssumption DEF Typed, TypeOK

\* The number of open descriptors.
LEMMA OpenCount ==
    /\ Cardinality(OpenFds) \in Nat
    /\ \A fd \in Fds :
          /\ fd \notin OpenFds => Cardinality(OpenFds \cup {fd})
                                     = Cardinality(OpenFds) + 1
          /\ fd \in OpenFds => Cardinality(OpenFds \ {fd})
                                     = Cardinality(OpenFds) - 1
<1>1. IsFiniteSet(OpenFds)
  BY GetServerAssumption, FS_Subset DEF OpenFds
<1> QED
  BY <1>1, FS_CardinalityType, FS_AddElement, FS_RemoveElement

\* A step that touches none of it.
LEMMA CleanElsewhere ==
    ASSUME Clean, UNCHANGED <<sock, interest, events, m_sockfd, rbuf, wbuf,
                              m_user_count, queue, worker, refused>>
    PROVE  Clean'
BY DEF Clean, Tables, OneCloser, ClosedFree, NotInTwo, NotInNone, CountExact,
       IsClosing, OpenFds, Uncounted

\* epoll_wait moves descriptors from epoll to the batch.
LEMMA CleanWait == ASSUME Typed, Clean, epoll_wait PROVE Clean'
<1>1. UNCHANGED <<sock, m_sockfd, rbuf, wbuf, m_user_count, queue, worker, refused>>
  BY DEF epoll_wait, objVars
<1>2. \A fd \in Fds :
          /\ events[fd] = "none"
          /\ interest[fd] \in {"absent", "off"} =>
                events'[fd] = "none" /\ interest'[fd] = interest[fd]
          /\ interest[fd] \in {"IN", "OUT"} =>
                \/ events'[fd] = "none" /\ interest'[fd] = interest[fd]
                \/ events'[fd] # "none" /\ interest'[fd] = "off"
  BY DEF epoll_wait, BatchDone, Ready, OneshotOff
<1>3. Tables'
  BY <1>1, <1>2 DEF Typed, Clean, Tables
<1>4. OneCloser' /\ CountExact'
  BY <1>1 DEF Clean, OneCloser, CountExact, IsClosing, OpenFds, Uncounted
<1>5. ClosedFree'
  BY <1>1, <1>2 DEF Clean, ClosedFree, Tables, IsClosing
<1>6. NotInTwo'
  BY <1>1, <1>2 DEF Typed, Clean, NotInTwo
<1>7. NotInNone'
  BY <1>1, <1>2 DEF Typed, Clean, NotInNone, Tables
<1> QED
  BY <1>3, <1>4, <1>5, <1>6, <1>7 DEF Clean

\* accept: the new descriptor was in nobody's hand.
LEMMA CleanOpen ==
    ASSUME Typed, Clean, ~Closing, NEW fd \in Fds, NEW c \in Conns,
           sock[fd] = None, sock' = [sock EXCEPT ![fd] = c],
           interest' = [interest EXCEPT ![fd] = "IN"],
           m_sockfd' = [m_sockfd EXCEPT ![fd] = fd],
           m_user_count' = m_user_count + 1, init(fd),
           UNCHANGED <<events, queue, worker, refused>>
    PROVE  Clean'
<1> USE DEF Typed
<1>1. \A w \in Workers : ~IsClosing(w)
  BY DEF Closing, IsClosing
<1>2. /\ events[fd] = "none" /\ \A i \in DOMAIN queue : queue[i] # fd
      /\ \A w \in Workers : worker[w].fd # fd
  BY <1>1 DEF Clean, ClosedFree
<1>3. Tables'
  BY DEF Clean, Tables, init
<1>4. OneCloser' /\ ~Uncounted /\ ~Uncounted'
  BY <1>1 DEF OneCloser, IsClosing, Uncounted
<1>5. ClosedFree'
  BY DEF Clean, ClosedFree, IsClosing
<1>6. NotInTwo'
  BY <1>2 DEF Clean, NotInTwo
<1>7. NotInNone'
  BY DEF Clean, NotInNone
<1>8. CountExact'
  <2>1. OpenFds' = OpenFds \cup {fd} /\ fd \notin OpenFds
    BY DEF OpenFds
  <2>2. Cardinality(OpenFds') = Cardinality(OpenFds) + 1
    BY <2>1, OpenCount
  <2>3. m_user_count = Cardinality(OpenFds)
    BY <1>4, OpenCount DEF Clean, CountExact
  <2>4. \A w \in Workers : worker'[w].pc # "count"
    BY <1>1 DEF IsClosing
  <2> QED
    BY <1>4, <2>2, <2>3, <2>4, OpenCount DEF CountExact
<1> QED
  BY <1>3, <1>4, <1>5, <1>6, <1>7, <1>8 DEF Clean

\* close_conn in main: the descriptor was in its hand alone.
LEMMA CleanClose ==
    ASSUME Typed, Clean, ~clash', NEW fd \in Fds, events[fd] # "none",
           events' = [events EXCEPT ![fd] = "none"], close_conn(fd),
           UNCHANGED <<rbuf, wbuf, queue, worker, refused>>
    PROVE  Clean'
<1> USE DEF Typed
<1>0. sock[fd] # None /\ m_sockfd[fd] = fd
  BY DEF Clean, ClosedFree, Tables
<1>c. /\ sock' = [sock EXCEPT ![fd] = None]
      /\ interest' = [interest EXCEPT ![fd] = "absent"]
      /\ m_sockfd' = [m_sockfd EXCEPT ![fd] = None]
      /\ m_user_count' = m_user_count - 1
      /\ ~Closing
  BY <1>0 DEF close_conn, removefd
<1>1. \A w \in Workers : ~IsClosing(w)
  BY <1>c DEF Closing, IsClosing
<1>2. /\ \A i \in DOMAIN queue : queue[i] # fd
      /\ \A w \in Workers : worker[w].fd # fd
  BY <1>0 DEF Clean, NotInTwo
<1>3. Tables'
  BY <1>c DEF Clean, Tables
<1>4. OneCloser' /\ ~Uncounted /\ ~Uncounted'
  BY <1>1 DEF OneCloser, IsClosing, Uncounted
<1>5. ClosedFree'
  BY <1>c, <1>2 DEF Clean, ClosedFree, IsClosing
<1>6. NotInTwo'
  BY <1>c, <1>2 DEF Clean, NotInTwo
<1>7. NotInNone'
  BY <1>c DEF Clean, NotInNone
<1>8. CountExact'
  <2>1. OpenFds' = OpenFds \ {fd} /\ fd \in OpenFds
    BY <1>0, <1>c DEF OpenFds
  <2>2. Cardinality(OpenFds') = Cardinality(OpenFds) - 1
    BY <2>1, OpenCount
  <2>3. m_user_count = Cardinality(OpenFds)
    BY <1>4, OpenCount DEF Clean, CountExact
  <2>4. \A w \in Workers : worker'[w].pc # "count"
    BY <1>1 DEF IsClosing
  <2> QED
    BY <1>c, <1>4, <2>2, <2>3, <2>4, OpenCount DEF CountExact
<1> QED
  BY <1>3, <1>4, <1>5, <1>6, <1>7, <1>8 DEF Clean

\* A step of main that gives the descriptor back to epoll.
LEMMA CleanRearm ==
    ASSUME Typed, Clean, NEW fd \in Fds, NEW ev \in {"IN", "OUT"},
           events[fd] # "none", events' = [events EXCEPT ![fd] = "none"],
           modfd(m_sockfd[fd], ev), init(fd) \/ UNCHANGED <<rbuf, wbuf>>,
           UNCHANGED <<sock, m_sockfd, m_user_count, queue, worker, refused>>
    PROVE  Clean'
<1> USE DEF Typed
<1>0. sock[fd] # None /\ m_sockfd[fd] = fd /\ interest[fd] # "absent"
  BY DEF Clean, ClosedFree, Tables
<1>1. interest' = [interest EXCEPT ![fd] = ev]
  BY <1>0 DEF modfd
<1>2. /\ \A i \in DOMAIN queue : queue[i] # fd
      /\ \A w \in Workers : worker[w].fd # fd
  BY <1>0 DEF Clean, NotInTwo
<1>3. Tables'
  BY <1>0, <1>1 DEF Clean, Tables, init
<1>4. OneCloser' /\ CountExact'
  BY DEF Clean, OneCloser, CountExact, IsClosing, OpenFds, Uncounted
<1>5. ClosedFree'
  BY DEF Clean, ClosedFree, IsClosing
<1>6. NotInTwo'
  BY <1>1, <1>2 DEF Clean, NotInTwo
<1>7. NotInNone'
  BY <1>1 DEF Clean, NotInNone
<1> QED
  BY <1>3, <1>4, <1>5, <1>6, <1>7 DEF Clean

\* EPOLLIN: from main's hand to the queue, or to nobody's if append refuses.
LEMMA CleanRead ==
    ASSUME TypeOK, Typed, Clean, NEW fd \in Fds, HandleRead(fd) PROVE Clean'
<1> USE DEF Typed
<1>e. /\ events[fd] # "none" /\ events' = [events EXCEPT ![fd] = "none"]
      /\ rbuf' = [rbuf EXCEPT ![fd] = sock[fd]]
      /\ UNCHANGED <<sock, interest, m_sockfd, wbuf, m_user_count, worker>>
  BY DEF HandleRead, Handling, fdVars
<1>0. sock[fd] # None
  BY <1>e DEF Clean, ClosedFree
<1>2. /\ \A i \in DOMAIN queue : queue[i] # fd
      /\ \A w \in Workers : worker[w].fd # fd
      /\ interest[fd] \notin {"IN", "OUT"}
  BY <1>e, <1>0 DEF Clean, NotInTwo
<1>3. Tables'
  BY <1>e, <1>0 DEF Clean, Tables
<1>4. OneCloser' /\ CountExact'
  BY <1>e DEF Clean, OneCloser, CountExact, IsClosing, OpenFds, Uncounted
<1>5. ASSUME refused' = refused \cup {sock[fd]}, UNCHANGED queue
      PROVE  ClosedFree' /\ NotInTwo' /\ NotInNone'
  <2>1. ClosedFree'
    BY <1>e, <1>5 DEF Clean, ClosedFree, IsClosing
  <2>2. NotInTwo'
    BY <1>e, <1>5 DEF Clean, NotInTwo
  <2>3. NotInNone'
    BY <1>e, <1>5 DEF Clean, NotInNone
  <2> QED
    BY <2>1, <2>2, <2>3
<1>6. ASSUME queue' = Append(queue, fd), UNCHANGED refused
      PROVE  ClosedFree' /\ NotInTwo' /\ NotInNone'
  <2>q. PICK n : /\ n \notin DOMAIN queue /\ DOMAIN queue' = DOMAIN queue \cup {n}
                 /\ queue'[n] = fd
                 /\ \A i \in DOMAIN queue : queue'[i] = queue[i]
    <3>1. queue \in Seq(Fds)
      BY DEF TypeOK
    <3>2. /\ DOMAIN queue = 1 .. Len(queue) /\ Len(queue) \in Nat
          /\ DOMAIN queue' = 1 .. Len(queue) + 1
          /\ queue'[Len(queue) + 1] = fd
          /\ \A i \in 1 .. Len(queue) : queue'[i] = queue[i]
      BY <1>6, <3>1, AppendProperties, LenProperties
    <3> QED
      BY <3>2
  <2>1. ClosedFree'
    BY <1>e, <1>6, <1>0, <2>q DEF Clean, ClosedFree, IsClosing
  <2>2. NotInTwo'
    <3>1. \A i, j \in DOMAIN queue' : queue'[i] = queue'[j] => i = j
      BY <1>2, <2>q DEF Clean, NotInTwo
    <3>2. \A i \in DOMAIN queue' : /\ \A w \in Workers : worker'[w].fd # queue'[i]
                                   /\ events'[queue'[i]] = "none"
                                   /\ interest'[queue'[i]] \notin {"IN", "OUT"}
      BY <1>e, <1>2, <2>q DEF Clean, NotInTwo
    <3>3. /\ \A v, w \in Workers : worker'[v].fd = worker'[w].fd /\ v # w =>
                                      worker'[v].fd = None
          /\ \A w \in Workers : worker'[w].fd # None =>
                               /\ events'[worker'[w].fd] = "none"
                               /\ interest'[worker'[w].fd] \notin {"IN", "OUT"}
          /\ \A f \in Fds : events'[f] # "none" => interest'[f] \notin {"IN", "OUT"}
      BY <1>e DEF Clean, NotInTwo
    <3> QED
      BY <3>1, <3>2, <3>3 DEF NotInTwo
  <2>3. NotInNone'
    BY <1>e, <1>6, <2>q DEF Clean, NotInNone
  <2> QED
    BY <2>1, <2>2, <2>3
<1> QED
  BY <1>3, <1>4, <1>5, <1>6 DEF Clean, HandleRead, append

\* A thread takes a descriptor from the queue.
LEMMA CleanTake ==
    ASSUME TypeOK, Typed, Clean, NEW w \in Workers, Take(w) PROVE Clean'
<1> USE DEF Typed
<1>e. /\ worker[w].pc = "idle" /\ queue # <<>> /\ queue' = Tail(queue)
      /\ UNCHANGED <<sock, interest, events, m_sockfd, rbuf, wbuf, m_user_count,
                     refused>>
  BY DEF Take, fdVars, objVars, batchVars
<1>m. Moves(w, "process", Head(queue), 0)
  BY OtherMoves
<1>q. /\ 1 \in DOMAIN queue /\ Head(queue) = queue[1]
      /\ \A i \in DOMAIN queue' : /\ i + 1 \in DOMAIN queue /\ i + 1 # 1
                                  /\ queue'[i] = queue[i + 1]
      /\ \A i, j \in DOMAIN queue' : i + 1 = j + 1 => i = j
      /\ \A j \in DOMAIN queue : j # 1 => /\ j - 1 \in DOMAIN queue'
                                          /\ queue'[j - 1] = queue[j]
  <2>1. queue \in Seq(Fds)
    BY DEF TypeOK
  <2>2. /\ DOMAIN queue = 1 .. Len(queue) /\ Len(queue) \in Nat /\ Len(queue) # 0
        /\ Head(queue) = queue[1]
        /\ DOMAIN queue' = 1 .. Len(queue) - 1
        /\ \A i \in 1 .. Len(queue) - 1 : queue'[i] = queue[i + 1]
    BY <1>e, <2>1, HeadTailProperties, EmptySeq, LenProperties
  <2> QED
    BY <2>2
<1>h. /\ queue[1] \in Fds /\ sock[queue[1]] # None
      /\ \A i \in DOMAIN queue : i # 1 => queue[i] # queue[1]
      /\ \A v \in Workers : worker[v].fd # queue[1]
      /\ events[queue[1]] = "none" /\ interest[queue[1]] \notin {"IN", "OUT"}
  BY <1>q DEF Clean, ClosedFree, NotInTwo
<1>w. /\ worker'[w].pc = "process" /\ worker'[w].fd = queue[1]
      /\ \A v \in Workers : v # w => worker'[v] = worker[v]
  BY <1>m, <1>q DEF Moves
<1>3. Tables'
  BY <1>e DEF Clean, Tables
<1>4. OneCloser'
  BY <1>e, <1>w DEF Clean, OneCloser, IsClosing
<1>5. CountExact'
  <2>1. Uncounted' = Uncounted /\ OpenFds' = OpenFds
    BY <1>e, <1>w DEF Uncounted, OpenFds
  <2> QED
    BY <1>e, <1>w, <2>1 DEF Clean, CountExact
<1>6. ClosedFree'
  BY <1>e, <1>w, <1>q, <1>h DEF Clean, ClosedFree, IsClosing
<1>7. NotInTwo'
  <2>1. \A i, j \in DOMAIN queue' : queue'[i] = queue'[j] => i = j
    BY <1>q DEF Clean, NotInTwo
  <2>2. \A v, x \in Workers : worker'[v].fd = worker'[x].fd /\ v # x =>
                                 worker'[v].fd = None
    BY <1>w, <1>h DEF Clean, NotInTwo
  <2>3. \A i \in DOMAIN queue' : /\ \A v \in Workers : worker'[v].fd # queue'[i]
                                 /\ events'[queue'[i]] = "none"
                                 /\ interest'[queue'[i]] \notin {"IN", "OUT"}
    BY <1>e, <1>w, <1>q, <1>h DEF Clean, NotInTwo
  <2>4. \A v \in Workers : worker'[v].fd # None =>
                              /\ events'[worker'[v].fd] = "none"
                              /\ interest'[worker'[v].fd] \notin {"IN", "OUT"}
    BY <1>e, <1>w, <1>h DEF Clean, NotInTwo
  <2>5. \A f \in Fds : events'[f] # "none" => interest'[f] \notin {"IN", "OUT"}
    BY <1>e DEF Clean, NotInTwo
  <2> QED
    BY <2>1, <2>2, <2>3, <2>4, <2>5 DEF NotInTwo
<1>8. NotInNone'
  <2> SUFFICES ASSUME NEW f \in Fds, sock[f] # None, sock[f] \notin refused
               PROVE  \/ \E i \in DOMAIN queue' : queue'[i] = f
                      \/ \E v \in Workers : worker'[v].fd = f
                      \/ events[f] # "none"
                      \/ interest[f] \in {"IN", "OUT"}
    BY <1>e DEF NotInNone
  <2>1. CASE \E i \in DOMAIN queue : queue[i] = f
    BY <1>q, <1>w, <2>1
  <2>2. CASE \E v \in Workers : worker[v].fd = f
    BY <1>e, <1>w, <2>2
  <2> QED
    BY <2>1, <2>2 DEF Clean, NotInNone
<1> QED
  BY <1>3, <1>4, <1>5, <1>6, <1>7, <1>8 DEF Clean

\* process hands the connection back to epoll.
LEMMA CleanGive ==
    ASSUME Typed, Clean, NEW w \in Workers, NEW ev \in {"IN", "OUT"},
           worker[w].pc \in {"process", "armOut"}, Moves(w, "idle", None, 0),
           modfd(m_sockfd[worker[w].fd], ev),
           UNCHANGED <<sock, events, m_sockfd, rbuf, wbuf, m_user_count, queue,
                       refused>>
    PROVE  Clean'
<1> USE DEF Typed
<1> DEFINE fd == worker[w].fd
<1>0. fd \in Fds /\ sock[fd] # None /\ m_sockfd[fd] = fd
      /\ interest[fd] # "absent"
  BY DEF Clean, ClosedFree, Tables, IsClosing
<1>1. interest' = [interest EXCEPT ![fd] = ev]
  BY <1>0 DEF modfd
<1>2. /\ \A i \in DOMAIN queue : queue[i] # fd
      /\ \A v \in Workers : v # w => worker[v].fd # fd
      /\ events[fd] = "none"
  BY <1>0 DEF Clean, NotInTwo
<1>w. /\ worker'[w].pc = "idle" /\ worker'[w].fd = None
      /\ \A v \in Workers : v # w => worker'[v] = worker[v]
  BY DEF Moves
<1> HIDE DEF fd
<1>3. Tables'
  BY <1>0, <1>1 DEF Clean, Tables
<1>4. OneCloser'
  BY <1>w DEF Clean, OneCloser, IsClosing
<1>5. CountExact'
  <2>1. Uncounted' = Uncounted /\ OpenFds' = OpenFds
    BY <1>w DEF Uncounted, OpenFds
  <2> QED
    BY <1>w, <2>1 DEF Clean, CountExact
<1>6. ClosedFree'
  BY <1>w DEF Clean, ClosedFree, IsClosing
<1>7. NotInTwo'
  <2>2. \A v, x \in Workers : worker'[v].fd = worker'[x].fd /\ v # x =>
                                 worker'[v].fd = None
    BY <1>w DEF Clean, NotInTwo
  <2>3. \A i \in DOMAIN queue' : /\ \A v \in Workers : worker'[v].fd # queue'[i]
                                 /\ events'[queue'[i]] = "none"
                                 /\ interest'[queue'[i]] \notin {"IN", "OUT"}
    BY <1>1, <1>2, <1>w DEF Clean, NotInTwo
  <2>4. \A v \in Workers : worker'[v].fd # None =>
                              /\ events'[worker'[v].fd] = "none"
                              /\ interest'[worker'[v].fd] \notin {"IN", "OUT"}
    BY <1>1, <1>2, <1>w DEF Clean, NotInTwo
  <2>5. \A f \in Fds : events'[f] # "none" => interest'[f] \notin {"IN", "OUT"}
    BY <1>1, <1>2 DEF Clean, NotInTwo
  <2> QED
    BY <2>2, <2>3, <2>4, <2>5 DEF Clean, NotInTwo
<1>8. NotInNone'
  <2> SUFFICES ASSUME NEW f \in Fds, sock[f] # None, sock[f] \notin refused
               PROVE  \/ \E i \in DOMAIN queue : queue[i] = f
                      \/ \E v \in Workers : worker'[v].fd = f
                      \/ events[f] # "none"
                      \/ interest'[f] \in {"IN", "OUT"}
    BY DEF NotInNone
  <2>1. CASE f = fd
    BY <1>0, <1>1, <2>1
  <2>2. CASE f # fd
    BY <1>1, <1>w, <2>2 DEF Clean, NotInNone, fd
  <2> QED
    BY <2>1, <2>2
<1> QED
  BY <1>3, <1>4, <1>5, <1>6, <1>7, <1>8 DEF Clean

\* A worker that keeps its object keeps it out of the other hands.
LEMMA HandsKept ==
    ASSUME Typed, Clean, NEW w \in Workers, NEW p, NEW n,
           Moves(w, p, worker[w].fd, n), UNCHANGED <<queue, events>>,
           \A fd \in Fds : interest'[fd] \in {"IN", "OUT"} =>
                              interest[fd] \in {"IN", "OUT"}
    PROVE  NotInTwo'
<1> USE DEF Typed
<1>w. \A v \in Workers : worker'[v].fd = worker[v].fd
  BY DEF Moves
<1> QED
  BY <1>w DEF Clean, NotInTwo

\* process_write: the reply is to the request in the object.
LEMMA CleanReply ==
    ASSUME Typed, Clean, NEW w \in Workers, worker[w].pc = "process",
           Moves(w, "armOut", worker[w].fd, worker[w].count),
           wbuf' = [wbuf EXCEPT ![worker[w].fd] = rbuf[worker[w].fd]],
           UNCHANGED <<sock, interest, events, m_sockfd, rbuf, m_user_count,
                       queue, refused>>
    PROVE  Clean'
<1> USE DEF Typed
<1>w. /\ worker'[w].pc = "armOut" /\ \A v \in Workers : worker'[v].fd = worker[v].fd
      /\ \A v \in Workers : v # w => worker'[v] = worker[v]
  BY DEF Moves
<1>3. Tables'
  BY DEF Clean, Tables
<1>4. OneCloser'
  BY <1>w DEF Clean, OneCloser, IsClosing
<1>5. CountExact'
  <2>1. Uncounted' = Uncounted /\ OpenFds' = OpenFds
    BY <1>w DEF Uncounted, OpenFds
  <2> QED
    BY <1>w, <2>1 DEF Clean, CountExact
<1>6. ClosedFree'
  BY <1>w DEF Clean, ClosedFree, IsClosing
<1>7. NotInTwo'
  BY HandsKept
<1>8. NotInNone'
  BY <1>w DEF Clean, NotInNone
<1> QED
  BY <1>3, <1>4, <1>5, <1>6, <1>7, <1>8 DEF Clean

\* removefd in a worker's close_conn, with no other worker in one.
LEMMA CleanReplyFails ==
    ASSUME Typed, Clean, NEW w \in Workers, ReplyFails(w), TypeOK, ~clash'
    PROVE  Clean'
<1> USE DEF Typed
<1> DEFINE fd == worker[w].fd
<1>p. worker[w].pc = "process"
  BY DEF ReplyFails, Goes
<1>0. fd \in Fds /\ sock[fd] # None /\ m_sockfd[fd] = fd
  BY <1>p DEF Clean, ClosedFree, Tables, IsClosing
<1>g. Goes(w, "process", "clear")
  BY <1>0 DEF ReplyFails
<1>m. Moves(w, "clear", fd, worker[w].count)
  BY <1>g, GoesMoves
<1>e. /\ sock' = [sock EXCEPT ![fd] = None]
      /\ interest' = [interest EXCEPT ![fd] = "absent"]
      /\ ~Closing
      /\ UNCHANGED <<events, m_sockfd, rbuf, wbuf, m_user_count, queue, refused>>
  BY <1>0, <1>g DEF ReplyFails, removefd, Goes, batchVars, objVars
<1>1. \A v \in Workers : ~IsClosing(v)
  BY <1>e DEF Closing, IsClosing
<1>w. /\ worker'[w].pc = "clear" /\ \A v \in Workers : worker'[v].fd = worker[v].fd
      /\ \A v \in Workers : v # w => worker'[v] = worker[v]
  BY <1>m DEF Moves
<1>2. /\ \A i \in DOMAIN queue : queue[i] # fd
      /\ \A v \in Workers : v # w => worker[v].fd # fd
      /\ events[fd] = "none"
  BY <1>0 DEF Clean, NotInTwo
<1>3. Tables'
  BY <1>0, <1>e DEF Clean, Tables
<1>4. OneCloser'
  BY <1>0, <1>e, <1>1, <1>w DEF OneCloser, IsClosing
<1>5. ClosedFree'
  BY <1>0, <1>e, <1>w, <1>2 DEF Clean, ClosedFree, IsClosing
<1>6. NotInTwo'
  BY <1>e, <1>m, HandsKept
<1>7. NotInNone'
  BY <1>e, <1>w DEF Clean, NotInNone
<1>8. CountExact'
  <2>1. OpenFds' = OpenFds \ {fd} /\ fd \in OpenFds
    BY <1>0, <1>e DEF OpenFds
  <2>2. Cardinality(OpenFds') = Cardinality(OpenFds) - 1
    BY <1>0, <2>1, OpenCount
  <2>3. Uncounted' /\ ~Uncounted
    BY <1>1, <1>w DEF Uncounted, IsClosing
  <2>4. m_user_count = Cardinality(OpenFds)
    BY <2>3, OpenCount DEF Clean, CountExact
  <2>5. \A v \in Workers : worker'[v].pc # "count"
    BY <1>1, <1>w DEF IsClosing
  <2> QED
    BY <1>e, <2>2, <2>3, <2>4, <2>5, OpenCount DEF CountExact
<1> QED
  BY <1>3, <1>4, <1>5, <1>6, <1>7, <1>8 DEF Clean

\* m_sockfd = -1, and the load of m_user_count.
LEMMA CleanClear ==
    ASSUME Typed, Clean, TypeOK, NEW w \in Workers, ClearSockfd(w) PROVE Clean'
<1> USE DEF Typed
<1>e. /\ worker[w].pc = "clear"
      /\ m_sockfd' = [m_sockfd EXCEPT ![worker[w].fd] = None]
      /\ UNCHANGED <<sock, interest, events, rbuf, wbuf, m_user_count, queue,
                     refused>>
  BY DEF ClearSockfd, fdVars, batchVars
<1>m. Moves(w, "count", worker[w].fd, m_user_count)
  BY OtherMoves
<1>w. /\ worker'[w].pc = "count" /\ worker'[w].count = m_user_count
      /\ \A v \in Workers : worker'[v].fd = worker[v].fd
      /\ \A v \in Workers : v # w => worker'[v] = worker[v]
  BY <1>m DEF Moves
<1>0. /\ worker[w].fd \in Fds /\ sock[worker[w].fd] = None
      /\ \A v \in Workers : v # w => ~IsClosing(v)
  BY <1>e DEF Clean, OneCloser, IsClosing
<1>3. Tables'
  BY <1>0, <1>e DEF Clean, Tables
<1>4. OneCloser'
  BY <1>0, <1>e, <1>w DEF OneCloser, IsClosing
<1>5. ClosedFree'
  BY <1>e, <1>w DEF Clean, ClosedFree, IsClosing
<1>6. NotInTwo'
  BY <1>e, <1>m, HandsKept
<1>7. NotInNone'
  BY <1>e, <1>w DEF Clean, NotInNone
<1>8. CountExact'
  <2>1. Uncounted /\ Uncounted' /\ OpenFds' = OpenFds
    BY <1>e, <1>w DEF Uncounted, OpenFds
  <2>2. \A v \in Workers : worker'[v].pc = "count" => worker'[v].count = m_user_count
    BY <1>w, <1>0 DEF IsClosing
  <2> QED
    BY <1>e, <2>1, <2>2 DEF Clean, CountExact
<1> QED
  BY <1>3, <1>4, <1>5, <1>6, <1>7, <1>8 DEF Clean

\* The store of m_user_count: what was loaded is not stale.
LEMMA CleanStore ==
    ASSUME Typed, Clean, TypeOK, NEW w \in Workers, StoreCount(w) PROVE Clean'
<1> USE DEF Typed
<1>e. /\ worker[w].pc = "count"
      /\ UNCHANGED <<sock, interest, events, m_sockfd, rbuf, wbuf, queue, refused>>
  BY DEF StoreCount, fdVars, batchVars, objVars
<1>m. Moves(w, "modfd", worker[w].fd, 0)
  BY OtherMoves
<1>w. /\ worker'[w].pc = "modfd"
      /\ \A v \in Workers : worker'[v].fd = worker[v].fd
      /\ \A v \in Workers : v # w => worker'[v] = worker[v]
  BY <1>m DEF Moves
<1>0. \A v \in Workers : v # w => ~IsClosing(v)
  BY <1>e DEF Clean, OneCloser, IsClosing
<1>3. Tables'
  BY <1>e DEF Clean, Tables
<1>4. OneCloser'
  BY <1>0, <1>e, <1>w DEF Clean, OneCloser, IsClosing
<1>5. ClosedFree'
  BY <1>e, <1>w DEF Clean, ClosedFree, IsClosing
<1>6. NotInTwo'
  BY <1>e, <1>m, HandsKept
<1>7. NotInNone'
  BY <1>e, <1>w DEF Clean, NotInNone
<1>8. CountExact'
  <2>1. Uncounted /\ OpenFds' = OpenFds
    BY <1>e DEF Uncounted, OpenFds
  <2>2. \A v \in Workers : worker'[v].pc \notin {"clear", "count"}
    BY <1>w, <1>0 DEF IsClosing
  <2>3. ~Uncounted'
    BY <2>2 DEF Uncounted
  <2>4. worker[w].count = m_user_count
    BY <1>e DEF Clean, CountExact
  <2>5. m_user_count' = m_user_count - 1
    BY <2>4 DEF StoreCount
  <2>6. m_user_count = Cardinality(OpenFds) + 1
    BY <2>1 DEF Clean, CountExact
  <2> QED
    BY <2>1, <2>2, <2>3, <2>5, <2>6, OpenCount DEF CountExact
<1> QED
  BY <1>3, <1>4, <1>5, <1>6, <1>7, <1>8 DEF Clean

\* The modfd after close_conn: m_sockfd is -1, and epoll_ctl fails.
LEMMA CleanEnd ==
    ASSUME Typed, Clean, NEW w \in Workers, NEW ev \in {"IN", "OUT"},
           worker[w].pc = "modfd", Moves(w, "idle", None, 0),
           modfd(m_sockfd[worker[w].fd], ev),
           UNCHANGED <<sock, events, m_sockfd, rbuf, wbuf, m_user_count, queue,
                       refused>>
    PROVE  Clean'
<1> USE DEF Typed
<1>0. /\ worker[w].fd \in Fds /\ sock[worker[w].fd] = None
      /\ m_sockfd[worker[w].fd] = None
  BY DEF Clean, OneCloser, IsClosing
<1>1. interest' = interest
  BY <1>0 DEF modfd
<1>w. /\ worker'[w].pc = "idle" /\ worker'[w].fd = None
      /\ \A v \in Workers : v # w => worker'[v] = worker[v]
  BY DEF Moves
<1>3. Tables'
  BY <1>1 DEF Clean, Tables
<1>4. OneCloser'
  BY <1>w DEF Clean, OneCloser, IsClosing
<1>5. CountExact'
  <2>1. Uncounted' = Uncounted /\ OpenFds' = OpenFds
    BY <1>w DEF Uncounted, OpenFds
  <2> QED
    BY <1>w, <2>1 DEF Clean, CountExact
<1>6. ClosedFree'
  BY <1>w DEF Clean, ClosedFree, IsClosing
<1>7. NotInTwo'
  BY <1>1, <1>w DEF Clean, NotInTwo
<1>8. NotInNone'
  <2> SUFFICES ASSUME NEW f \in Fds, sock[f] # None, sock[f] \notin refused
               PROVE  \/ \E i \in DOMAIN queue : queue[i] = f
                      \/ \E v \in Workers : worker'[v].fd = f
                      \/ events[f] # "none"
                      \/ interest[f] \in {"IN", "OUT"}
    BY <1>1 DEF NotInNone
  <2>1. worker[w].fd # f
    BY <1>0
  <2> QED
    BY <1>w, <2>1 DEF Clean, NotInNone
<1> QED
  BY <1>3, <1>4, <1>5, <1>6, <1>7, <1>8 DEF Clean

\* A step that leads to no clash leaves everything clean.
LEMMA CleanStep ==
    ASSUME TypeOK, Objects, Clean, Next, ~clash' PROVE Clean'
<1> USE DEF netVars, fdVars, batchVars, objVars
<1>t. Typed
  BY TypedState
<1>1. ASSUME NEW c \in Conns, Connect(c) \/ Send(c) \/ Hangup(c) PROVE Clean'
  <2>1. UNCHANGED <<sock, interest, events, m_sockfd, rbuf, wbuf, m_user_count,
                    queue, worker, refused>>
    BY <1>1 DEF Connect, Send, Hangup
  <2> QED
    BY <2>1, CleanElsewhere
<1>2. ASSUME epoll_wait PROVE Clean'
  BY <1>2, <1>t, CleanWait
<1>3. ASSUME HandleListen PROVE Clean'
  <2>1. UNCHANGED <<events, queue, worker, refused>>
    BY <1>3 DEF HandleListen
  <2>2. CASE UNCHANGED <<sock, interest, objVars, m_user_count>>
    BY <2>1, <2>2, CleanElsewhere
  <2>3. ASSUME NEW fd \in Fds, backlog # <<>>, sock[fd] = None,
               sock' = [sock EXCEPT ![fd] = Head(backlog)],
               interest' = [interest EXCEPT ![fd] = "IN"],
               m_sockfd' = [m_sockfd EXCEPT ![fd] = fd],
               m_user_count' = m_user_count + 1, init(fd),
               clash' = (clash \/ Closing)
        PROVE  Clean'
    <3>1. Head(backlog) \in Conns
      BY <2>3, HeadTailProperties DEF TypeOK
    <3>2. ~Closing
      BY <2>3
    <3> QED
      BY <1>t, <2>1, <2>3, <3>1, <3>2, CleanOpen
  <2> QED
    BY <1>3, <2>2, <2>3 DEF HandleListen
<1>4. ASSUME NEW fd \in Fds, HandleHup(fd) \/ HandleReadFails(fd) \/ WriteCloses(fd)
      PROVE  Clean'
  <2>1. /\ events[fd] # "none" /\ events' = [events EXCEPT ![fd] = "none"]
        /\ close_conn(fd) /\ UNCHANGED <<rbuf, wbuf, queue, worker, refused>>
    BY <1>4 DEF HandleHup, HandleReadFails, WriteCloses, Handling
  <2> QED
    BY <1>t, <2>1, CleanClose
<1>5. ASSUME NEW fd \in Fds, HandleRead(fd) PROVE Clean'
  BY <1>5, <1>t, CleanRead
<1>6. ASSUME NEW fd \in Fds, WriteNothing(fd) \/ WriteBlocks(fd) \/ WriteDone(fd)
      PROVE  Clean'
  <2>1. PICK ev \in {"IN", "OUT"} : modfd(m_sockfd[fd], ev)
    BY <1>6 DEF WriteNothing, WriteBlocks, WriteDone
  <2>2. /\ events[fd] # "none" /\ events' = [events EXCEPT ![fd] = "none"]
        /\ init(fd) \/ UNCHANGED <<rbuf, wbuf>>
        /\ UNCHANGED <<sock, m_sockfd, m_user_count, queue, worker, refused>>
    BY <1>6 DEF WriteNothing, WriteBlocks, WriteDone, Handling
  <2> QED
    BY <1>t, <2>1, <2>2, CleanRearm
<1>7. ASSUME NEW w \in Workers, ReadMore(w) \/ ArmOut(w) PROVE Clean'
  <2>1. PICK ev \in {"IN", "OUT"} : modfd(m_sockfd[worker[w].fd], ev)
    BY <1>7 DEF ReadMore, ArmOut
  <2>2. Moves(w, "idle", None, 0)
    BY <1>7, GoesMoves DEF ReadMore, ArmOut
  <2>3. UNCHANGED <<sock, events, m_sockfd, rbuf, wbuf, m_user_count, queue, refused>>
    BY <1>7 DEF ReadMore, ArmOut, Goes
  <2>4. worker[w].pc \in {"process", "armOut", "modfd"}
    BY <1>7 DEF ReadMore, ArmOut, Goes
  <2>5. CASE worker[w].pc = "modfd"
    BY <1>t, <2>1, <2>2, <2>3, <2>5, CleanEnd
  <2>6. CASE worker[w].pc # "modfd"
    <3>1. worker[w].pc \in {"process", "armOut"}
      BY <2>4, <2>6
    <3> QED
      BY <1>t, <2>1, <2>2, <2>3, <3>1, CleanGive
  <2> QED
    BY <2>5, <2>6
<1>8. ASSUME NEW w \in Workers, Reply(w) PROVE Clean'
  <2>1. Moves(w, "armOut", worker[w].fd, worker[w].count)
    BY <1>8, GoesMoves DEF Reply
  <2>2. /\ worker[w].pc = "process"
        /\ wbuf' = [wbuf EXCEPT ![worker[w].fd] = rbuf[worker[w].fd]]
        /\ UNCHANGED <<sock, interest, events, m_sockfd, rbuf, m_user_count,
                       queue, refused>>
    BY <1>8 DEF Reply, Goes
  <2> QED
    BY <1>t, <2>1, <2>2, CleanReply
<1>9. ASSUME NEW w \in Workers,
             Take(w) \/ ReplyFails(w) \/ ClearSockfd(w) \/ StoreCount(w)
      PROVE  Clean'
  BY <1>9, <1>t, CleanTake, CleanReplyFails, CleanClear, CleanStore
<1> QED
  BY <1>1, <1>2, <1>3, <1>4, <1>5, <1>6, <1>7, <1>8, <1>9 DEF Next, main, Work

\* A clash is never forgotten.
LEMMA ClashStays == ASSUME Next, clash PROVE clash'
BY DEF Next, main, Work, Connect, Send, Hangup, epoll_wait, HandleListen,
       HandleHup, HandleRead, HandleReadFails, WriteNothing, WriteBlocks,
       WriteDone, WriteCloses, close_conn, Take, ReadMore, Reply, ReplyFails,
       ClearSockfd, StoreCount, ArmOut

\* Main and the clients move no worker.
LEMMA MainObjects ==
    ASSUME Objects, main \/ \E c \in Conns : Connect(c) \/ Send(c) \/ Hangup(c)
    PROVE  Objects'
<1>1. worker' = worker
  BY DEF main, Connect, Send, Hangup, epoll_wait, HandleListen, HandleHup,
         HandleRead, HandleReadFails, WriteNothing, WriteBlocks, WriteDone,
         WriteCloses
<1> QED
  BY <1>1 DEF Objects

\* The invariant holds at the start: no descriptor is open.
LEMMA ServerInitially == ASSUME Init PROVE ServerInv
<1> USE GetServerAssumption
<1>1. TypeOK
  <2>1. <<>> \in Seq(Conns) /\ <<>> \in Seq(Fds)
    OBVIOUS
  <2>b. clash \in BOOLEAN /\ edge \in BOOLEAN /\ listenEv \in BOOLEAN
    BY DEF Init
  <2>2. FdTypes
    BY <2>b DEF Init, FdTypes
  <2>3. NetTypes
    BY <2>b, <2>1 DEF Init, NetTypes
  <2>4. PoolTypes
    BY <2>1 DEF Init, PoolTypes, Idle
  <2> QED
    BY <2>2, <2>3, <2>4, TypesSplit
<1>2. Objects
  BY DEF Init, Objects, Idle
<1>3. Tables /\ OneCloser /\ ClosedFree /\ NotInNone
  BY DEF Init, Tables, OneCloser, ClosedFree, NotInNone, IsClosing, Idle
<1>4. NotInTwo
  BY DEF Init, NotInTwo, Idle
<1>5. CountExact
  <2>1. OpenFds = {} /\ ~Uncounted
    BY DEF Init, OpenFds, Uncounted, Idle
  <2>2. Cardinality(OpenFds) = 0
    BY <2>1, FS_EmptySet
  <2> QED
    BY <2>1, <2>2 DEF Init, CountExact, Idle
<1> QED
  BY <1>1, <1>2, <1>3, <1>4, <1>5 DEF ServerInv

\* Every step keeps it.
LEMMA ServerInductive == ASSUME ServerInv, [Next]_vars PROVE ServerInv'
<1>1. ASSUME Next PROVE ServerInv'
  <2>t. TypeOK /\ Objects
    BY DEF ServerInv
  <2>1. FdTypes' /\ PoolTypes' /\ NetTypes' /\ Objects'
    <3>1. CASE main \/ \E c \in Conns : Connect(c) \/ Send(c) \/ Hangup(c)
      BY <2>t, <3>1, MainTypes, MainObjects
    <3>2. CASE \E w \in Workers : Work(w)
      BY <2>t, <3>2, WorkTypes
    <3> QED
      BY <1>1, <3>1, <3>2 DEF Next
  <2>2. TypeOK'
    BY <2>1, TypesSplitAfter
  <2>3. ~clash' => Clean'
    <3>1. ~clash' => ~clash
      BY <1>1, ClashStays
    <3>2. ~clash => Clean
      BY DEF ServerInv, Clean
    <3> QED
      BY <1>1, <2>t, <3>1, <3>2, CleanStep
  <2> QED
    BY <2>1, <2>2, <2>3 DEF ServerInv, Clean
<1>2. ASSUME UNCHANGED vars PROVE ServerInv'
  <2>1. UNCHANGED <<backlog, edge, unread, hup, acts, sock, interest, gone,
                    events, listenEv, m_sockfd, rbuf, wbuf, m_user_count, queue,
                    worker, refused, clash>>
    BY <1>2 DEF vars, netVars, fdVars, batchVars, objVars
  <2>2. TypeOK' /\ Objects'
    BY <2>1 DEF ServerInv, TypeOK, Objects
  <2>3. Clean => Clean'
    BY <2>1, CleanElsewhere
  <2> QED
    BY <2>1, <2>2, <2>3 DEF ServerInv, Clean
<1> QED
  BY <1>1, <1>2

\* So it always holds.
LEMMA ServerInvariant == Spec => []ServerInv
BY ServerInitially, ServerInductive, PTL DEF Spec

\* The elements of S with a property at most one of them has are none or one.
LEMMA AtMostOne ==
    ASSUME NEW S, NEW T, T \subseteq S, \A x, y \in T : x = y
    PROVE  /\ T = {} => Cardinality(T) = 0
           /\ T # {} => Cardinality(T) = 1
<1>1. T = {} => Cardinality(T) = 0
  BY FS_EmptySet
<1>2. ASSUME T # {} PROVE Cardinality(T) = 1
  <2>1. PICK x : x \in T
    BY <1>2
  <2>2. T = {x}
    BY <2>1
  <2> QED
    BY <2>2, FS_Singleton
<1> QED
  BY <1>1, <1>2

\* The invariant puts every open connection that was not refused in one hand.
LEMMA OneHand == ASSUME ServerInv PROVE OneHolder
<1> SUFFICES ASSUME ~clash, NEW fd \in Fds, sock[fd] # None, sock[fd] \notin refused
             PROVE  InPool(fd) + InBatch(fd) + Armed(fd) = 1
  BY DEF OneHolder
<1> DEFINE Q == {i \in DOMAIN queue : queue[i] = fd}
           W == {w \in Workers : worker[w].fd = fd}
<1>t. Typed /\ Clean
  BY TypedState DEF ServerInv, Clean
<1>1. (\A i, j \in Q : i = j) /\ (\A v, w \in W : v = w)
  BY <1>t DEF Typed, Clean, NotInTwo
<1>2. /\ Q # {} => W = {} /\ events[fd] = "none" /\ interest[fd] \notin {"IN", "OUT"}
      /\ W # {} => Q = {} /\ events[fd] = "none" /\ interest[fd] \notin {"IN", "OUT"}
      /\ events[fd] # "none" => interest[fd] \notin {"IN", "OUT"}
  BY <1>t DEF Typed, Clean, NotInTwo
<1>3. Q # {} \/ W # {} \/ events[fd] # "none" \/ interest[fd] \in {"IN", "OUT"}
  BY <1>t DEF Clean, NotInNone
<1>4. /\ Q = {} => Cardinality(Q) = 0
      /\ Q # {} => Cardinality(Q) = 1
  BY <1>1, AtMostOne
<1>5. /\ W = {} => Cardinality(W) = 0
      /\ W # {} => Cardinality(W) = 1
  BY <1>1, AtMostOne
<1>6. InPool(fd) = Cardinality(Q) + Cardinality(W)
  BY DEF InPool
<1> HIDE DEF Q, W
<1> QED
  BY <1>2, <1>3, <1>4, <1>5, <1>6 DEF InBatch, Armed

\* modfd: "one socket is handled by one thread at any time": with any number of
\* threads, until a descriptor is opened or closed beside a worker's close_conn
\* every open connection is queued, or with one thread, or in main's batch, or
\* armed in epoll, and in one of these only, unless append refused it.
THEOREM OneThreadPerSocket == Spec => []OneHolder
BY ServerInvariant, OneHand, PTL

\* Until then the sockets, the objects and m_user_count agree, although workers
\* update m_user_count without a lock: no object holds a request or a reply of
\* an earlier connection, and the open connections are counted exactly.
THEOREM TablesStayInStep == Spec => []TablesAgree
<1>1. ServerInv => TablesAgree
  <2> SUFFICES ASSUME ServerInv, ~clash PROVE TablesAgree
    BY DEF TablesAgree
  <2>1. \A fd \in Fds : sock[fd] # None =>
              /\ m_sockfd[fd] = fd
              /\ {rbuf[fd], wbuf[fd]} \subseteq {None, sock[fd]}
    BY DEF ServerInv, Tables
  <2>2. ~Uncounted => m_user_count = Cardinality(OpenFds)
    BY OpenCount DEF ServerInv, CountExact
  <2> QED
    BY <2>1, <2>2 DEF TablesAgree, OpenFds, Uncounted
<1> QED
  BY <1>1, ServerInvariant, PTL
=============================================================================
